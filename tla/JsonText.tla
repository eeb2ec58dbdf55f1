------------------------------ MODULE JsonText ------------------------------
(***************************************************************************)
(* cJSON's printer and parser (server/include/cjson/cJSON.c), which turn   *)
(* the server's responses into text and its clients' requests into items:  *)
(* print_value into one block per value and, for cJSON_PrintBuffered, into *)
(* one buffer that grows; parse_value into items linked as they are read.  *)
(*                                                                         *)
(* A text is a sequence of tokens, each as wide as the characters it       *)
(* stands for.  Numbers are integers.  malloc fails once, at the call that *)
(* heap.failing names; heap.fits says that every write so far has stayed   *)
(* inside its block.                                                       *)
(***************************************************************************)
EXTENDS Integers, SequencesExt

CONSTANTS
  NULL,
  Values,      \* the items printed
  MaxMallocs,  \* bound: calls of malloc that may be the one that fails
  Prebuffers   \* sizes given to cJSON_PrintBuffered

VARIABLES
  item,     \* what is printed
  printed,  \* what print_value returned, NULL before
  parsed    \* what cJSON_Parse made of the text, NULL before

Space == {"\n", "\t", " "}
Width(t) ==
  CASE t = "escaped" -> 2 [] t = "u-escaped" -> 6 [] t \in {"null", "true"} -> 4
    [] t = "false" -> 5 [] t = "int" -> 11 [] OTHER -> 1
strlen(text) == FoldLeft(LAMBDA sum, t : sum + Width(t), 0, text)

If(c, text) == IF c THEN text ELSE <<>>
Num(c) == IF c THEN 1 ELSE 0
Tabs(n) == [i \in 1 .. n |-> "\t"]

-----------------------------------------------------------------------------
(***************************************************************************)
(* Memory.                                                                 *)
(***************************************************************************)
Heap(failing) == [failing |-> failing, calls |-> 0, live |-> 0, fits |-> TRUE]
Fails(h) == h.calls + 1 = h.failing
malloc(h) == [h EXCEPT !.calls = @ + 1, !.live = @ + Num(~Fails(h))]
free(h, n) == [h EXCEPT !.live = @ - n]
Wrote(h, n, size) == [h EXCEPT !.fits = @ /\ n <= size]

\* A block of a size and what is written into it with the final 0.
Failed(h) == [ok |-> FALSE, text |-> <<>>, heap |-> h]
Block(h, size, text) ==
  IF Fails(h) THEN Failed(malloc(h))
  ELSE [ok |-> TRUE, text |-> text, heap |-> Wrote(malloc(h), strlen(text) + 1, size)]

-----------------------------------------------------------------------------
(***************************************************************************)
(* Printing a value: one block for it, and tables of blocks while it is    *)
(* put together.                                                           *)
(***************************************************************************)

\* A string is a sequence of characters: plain, with an escape, and control ones
\* that need four digits.
Escape(c) == CASE c = "\n" -> "escaped" [] c = "bell" -> "u-escaped" [] OTHER -> c
Unescape(t) == CASE t = "escaped" -> "\n" [] t = "u-escaped" -> "bell" [] OTHER -> t
Quoted(str) ==
  <<"quote">> \o (IF str = NULL THEN <<>> ELSE [i \in DOMAIN str |-> Escape(str[i])])
    \o <<"quote">>

\* Mutant of StringLength: a control character is taken for an escape of two.
StringLengthShort(str) ==
  IF str = NULL THEN 0
  ELSE FoldLeft(LAMBDA len, c : len + 1 + Num(c \in {"\n", "bell"}), 0, str)

StringLength(str) ==
  IF str = NULL THEN 0
  ELSE FoldLeft(LAMBDA len, c :
         len + 1 + (CASE c = "\n" -> 1 [] c = "bell" -> 5 [] OTHER -> 0), 0, str)

print_string_ptr(h, str) == Block(h, StringLength(str) + 3, Quoted(str))

\* Room for a number: 0 is printed into its own size.
NumberSize(v) == IF v = "0" THEN 2 ELSE 21
EmptyObject(depth, fmt) ==
  <<"{">> \o If(fmt, <<"\n">> \o Tabs(depth)) \o <<"}">>
EmptyObjectSize(depth, fmt) == IF fmt THEN depth + 4 ELSE 3

\* The texts of the entries, with commas between them.
CommaAfter(i, entries) == If(i # Len(entries), <<",">>)

ArrayText(entries, fmt) ==
  LET after(i) == CommaAfter(i, entries) \o If(fmt /\ i # Len(entries), <<" ">>) IN
  <<"[">> \o FlattenSeq([i \in DOMAIN entries |-> entries[i] \o after(i)]) \o <<"]">>
ArrayLength(entries, fmt) ==
  FoldLeft(LAMBDA len, e : len + strlen(e) + 2 + Num(fmt), 5, entries)

ObjectText(names, entries, depth, fmt) ==
  <<"{">> \o If(fmt, <<"\n">>)
    \o FlattenSeq([i \in DOMAIN entries |->
         If(fmt, Tabs(depth)) \o names[i] \o <<":">> \o If(fmt, <<"\t">>)
           \o entries[i] \o CommaAfter(i, entries) \o If(fmt, <<"\n">>)])
    \o If(fmt, Tabs(depth - 1)) \o <<"}">>
ObjectLength(names, entries, depth, fmt) ==
  FoldLeft(LAMBDA len, i :
             len + strlen(entries[i]) + strlen(names[i]) + 2 + (IF fmt THEN 2 + depth ELSE 0),
           7 + (IF fmt THEN depth ELSE 0), [i \in DOMAIN entries |-> i])

\* Mutant of Compose: what has been printed is not freed when the rest fails.
ComposeLeaks(c, tables, size, text) ==
  IF c.fail THEN Failed(free(c.heap, tables))
  ELSE LET out == Block(c.heap, size, text) IN
       [out EXCEPT !.heap = free(@, c.held + tables)]

\* The last malloc, unless an entry has failed, and the blocks and tables that
\* are freed whether or not it succeeds.
Compose(c, tables, size, text) ==
  IF c.fail THEN Failed(free(c.heap, c.held + tables))
  ELSE LET out == Block(c.heap, size, text) IN
       [out EXCEPT !.heap = free(@, c.held + tables)]

RECURSIVE print_value(_, _, _, _)

Collecting(h) == [heap |-> h, names |-> <<>>, entries |-> <<>>, held |-> 0, fail |-> FALSE]

CollectEntry(c, child, depth, fmt) ==
  IF c.fail THEN c
  ELSE LET ret == print_value(c.heap, child, depth, fmt) IN
       [c EXCEPT !.heap = ret.heap, !.entries = Append(@, ret.text),
                 !.held = @ + Num(ret.ok), !.fail = ~ret.ok]

print_array(h, i, depth, fmt) ==
  IF i.child = <<>> THEN Block(h, 3, <<"[", "]">>)
  ELSE IF Fails(h) THEN Failed(malloc(h))
  ELSE LET c == FoldLeft(LAMBDA acc, child : CollectEntry(acc, child, depth + 1, fmt),
                         Collecting(malloc(h)), i.child)
       IN Compose(c, 1, ArrayLength(c.entries, fmt), ArrayText(c.entries, fmt))

\* The value is printed even when its name could not be.
CollectNamed(c, child, depth, fmt) ==
  IF c.fail THEN c
  ELSE LET str == print_string_ptr(c.heap, child.string)
           ret == print_value(str.heap, child, depth, fmt)
       IN [heap |-> ret.heap, names |-> Append(c.names, str.text),
           entries |-> Append(c.entries, ret.text),
           held |-> c.held + Num(str.ok) + Num(ret.ok), fail |-> ~(str.ok /\ ret.ok)]

print_object(h, i, depth, fmt) ==
  IF i.child = <<>> THEN Block(h, EmptyObjectSize(depth, fmt), EmptyObject(depth, fmt))
  ELSE IF Fails(h) THEN Failed(malloc(h))
  ELSE IF Fails(malloc(h)) THEN Failed(free(malloc(malloc(h)), 1))
  ELSE LET c == FoldLeft(LAMBDA acc, child : CollectNamed(acc, child, depth + 1, fmt),
                         Collecting(malloc(malloc(h))), i.child)
       IN Compose(c, 2, ObjectLength(c.names, c.entries, depth + 1, fmt),
                  ObjectText(c.names, c.entries, depth + 1, fmt))

print_value(h, i, depth, fmt) ==
  CASE i.type \in {"null", "false", "true"} -> Block(h, Width(i.type) + 1, <<i.type>>)
    [] i.type = "number" -> Block(h, NumberSize(i.value), <<i.value>>)
    [] i.type = "string" -> print_string_ptr(h, i.value)
    [] i.type = "array" -> print_array(h, i, depth, fmt)
    [] i.type = "object" -> print_object(h, i, depth, fmt)

-----------------------------------------------------------------------------
(***************************************************************************)
(* Printing into one buffer.  Whatever is printed is put at p->offset, the *)
(* end of the text so far; once the buffer is lost nothing more is put.    *)
(***************************************************************************)
pow2gt(n) == CHOOSE p \in {2 ^ k : k \in 0 .. 10} : n <= p /\ p \div 2 < n

Buffer(h, size) ==
  [ok |-> ~Fails(h), text |-> <<>>, length |-> size, heap |-> malloc(h)]

\* Mutant of ensure: the text is not copied into the larger buffer.
EnsureWithoutCopy(p, needed) ==
  LET end == strlen(p.text) + needed IN
  IF ~p.ok \/ end <= p.length THEN p
  ELSE [p EXCEPT !.ok = ~Fails(p.heap), !.text = <<>>, !.length = pow2gt(end),
                 !.heap = free(malloc(@), 1)]

\* A larger buffer takes the place of one that is too small; when there is
\* none, the old one is freed as well.
ensure(p, needed) ==
  LET end == strlen(p.text) + needed IN
  IF ~p.ok \/ end <= p.length THEN p
  ELSE IF Fails(p.heap) THEN [p EXCEPT !.ok = FALSE, !.text = <<>>, !.heap = free(malloc(@), 1)]
  ELSE [p EXCEPT !.length = pow2gt(end), !.heap = free(malloc(@), 1)]

\* The text goes into the room asked for, with a final 0 or not.
PutRaw(p, needed, text, zero) ==
  LET q == ensure(p, needed) IN
  IF ~q.ok THEN q
  ELSE [q EXCEPT !.text = @ \o text,
                 !.heap = Wrote(@, strlen(q.text \o text) + zero, q.length)]
Put(p, needed, text) == PutRaw(p, needed, text, 1)

PutString(p, str) == Put(p, StringLength(str) + 3, Quoted(str))

RECURSIVE PutValue(_, _, _, _)

PutArray(p, i, depth, fmt) ==
  LET Entry(q, k) ==
        LET after == CommaAfter(k, i.child) \o If(fmt /\ k # Len(i.child), <<" ">>)
            done == PutValue(q, i.child[k], depth + 1, fmt)
        IN IF after = <<>> THEN done ELSE Put(done, Len(after) + 1, after)
      entries == FoldLeft(Entry, PutRaw(p, 1, <<"[">>, 0), [k \in DOMAIN i.child |-> k])
  IN IF i.child = <<>> THEN Put(p, 3, <<"[", "]">>) ELSE Put(entries, 2, <<"]">>)

PutObject(p, i, depth, fmt) ==
  LET open == <<"{">> \o If(fmt, <<"\n">>)
      colon == <<":">> \o If(fmt, <<"\t">>)
      Entry(q, k) ==
        LET after == CommaAfter(k, i.child) \o If(fmt, <<"\n">>)
            tabs == IF fmt THEN PutRaw(q, depth + 1, Tabs(depth + 1), 0) ELSE q
            name == PutRaw(PutString(tabs, i.child[k].string), Len(colon), colon, 0)
        IN Put(PutValue(name, i.child[k], depth + 1, fmt), Len(after) + 1, after)
      entries == FoldLeft(Entry, Put(p, Len(open) + 1, open), [k \in DOMAIN i.child |-> k])
  IN IF i.child = <<>> THEN Put(p, EmptyObjectSize(depth, fmt), EmptyObject(depth, fmt))
     ELSE Put(entries, IF fmt THEN depth + 2 ELSE 2, If(fmt, Tabs(depth)) \o <<"}">>)

PutValue(p, i, depth, fmt) ==
  CASE i.type \in {"null", "false", "true"} -> Put(p, Width(i.type) + 1, <<i.type>>)
    [] i.type = "number" -> Put(p, NumberSize(i.value), <<i.value>>)
    [] i.type = "string" -> PutString(p, i.value)
    [] i.type = "array" -> PutArray(p, i, depth, fmt)
    [] i.type = "object" -> PutObject(p, i, depth, fmt)

-----------------------------------------------------------------------------
(***************************************************************************)
(* Parsing.  A parser takes the item it fills in and the position it reads *)
(* from, and returns what it has made of the item even when it fails.      *)
(***************************************************************************)
At(text, n) == IF n \in DOMAIN text THEN text[n] ELSE "end"
RECURSIVE skip(_, _)
skip(text, n) == IF At(text, n) \in Space THEN skip(text, n + 1) ELSE n

New_Item == [type |-> "none", value |-> NULL, string |-> NULL, child |-> <<>>]
Read(item_, n, h) == [ok |-> TRUE, item |-> item_, next |-> n, heap |-> h]
Unread(item_, h) == [ok |-> FALSE, item |-> item_, next |-> 0, heap |-> h]

\* Characters counted before the string is copied, and characters copied.
Counted(t) == IF t \in {"escaped", "u-escaped"} THEN Width(t) - 1 ELSE Width(t)
Copied(t) == IF t \in {"escaped", "u-escaped"} THEN 1 ELSE Width(t)

\* A string reaches to the next quote or to the end of the text.
parse_string(h, i, text, n) ==
  LET end == CHOOSE m \in n + 1 .. Len(text) + 1 :
               /\ At(text, m) \in {"quote", "end"}
               /\ \A l \in n + 1 .. m - 1 : text[l] # "quote"
      inside == SubSeq(text, n + 1, end - 1)
      Sum(Size(_)) == FoldLeft(LAMBDA sum, t : sum + Size(t), 0, inside)
      out == [k \in DOMAIN inside |-> Unescape(inside[k])]
  IN IF At(text, n) # "quote" THEN Unread(i, h)
     ELSE IF Fails(h) THEN Unread(i, malloc(h))
     ELSE Read([i EXCEPT !.type = "string", !.value = out],
               IF At(text, end) = "quote" THEN end + 1 ELSE end,
               Wrote(malloc(h), Sum(Copied) + 1, Sum(Counted) + 1))

RECURSIVE parse_value(_, _, _, _)

\* The name of an entry, a colon, its value.
Named(key) == [key.item EXCEPT !.string = key.item.value, !.value = NULL]
AfterName(key, text, colon) ==
  IF ~key.ok THEN key
  ELSE IF At(text, colon) # ":" THEN Unread(Named(key), key.heap)
  ELSE parse_value(key.heap, Named(key), text, skip(text, colon + 1))
AtColon(key, text) == AfterName(key, text, skip(text, key.next))
parse_member(h, i, text, n) == AtColon(parse_string(h, i, text, skip(text, n)), text)

Entry(h, i, text, n) ==
  IF i.type = "array" THEN parse_value(h, New_Item, text, skip(text, n))
  ELSE parse_member(h, New_Item, text, n)
Close(i) == IF i.type = "array" THEN "]" ELSE "}"

RECURSIVE parse_entries(_, _, _, _)

\* Mutant of AfterEntry: the end of the text closes the list.
ClosedByEnd(i, child, text, after) ==
  IF ~child.ok THEN Unread(i, child.heap)
  ELSE IF At(text, after) = "," THEN parse_entries(child.heap, i, text, after + 1)
  ELSE IF At(text, after) \in {Close(i), "end"} THEN Read(i, after + 1, child.heap)
  ELSE Unread(i, child.heap)

\* What follows an entry that is linked to i: another one or the end of the list.
AfterEntry(i, child, text, after) ==
  IF ~child.ok THEN Unread(i, child.heap)
  ELSE IF At(text, after) = "," THEN parse_entries(child.heap, i, text, after + 1)
  ELSE IF At(text, after) = Close(i) THEN Read(i, after + 1, child.heap)
  ELSE Unread(i, child.heap)

\* The entries up to the closing bracket, each linked before it is read.
Linked(i, child, text) ==
  AfterEntry([i EXCEPT !.child = Append(@, child.item)], child, text, skip(text, child.next))
parse_entries(h, i, text, n) ==
  IF Fails(h) THEN Unread(i, malloc(h))
  ELSE Linked(i, Entry(malloc(h), i, text, n), text)

parse_list(h, i, type, text, n) ==
  LET list == [i EXCEPT !.type = type]
      first == skip(text, n + 1)
  IN IF At(text, first) = Close(list) THEN Read(list, first + 1, h)
     ELSE parse_entries(h, list, text, first)

parse_value(h, i, text, n) ==
  LET t == At(text, n) IN
  CASE t \in {"null", "false", "true"} -> Read([i EXCEPT !.type = t], n + 1, h)
    [] t = "quote" -> parse_string(h, i, text, n)
    [] t \in {"0", "int"} -> Read([i EXCEPT !.type = "number", !.value = t], n + 1, h)
    [] t = "[" -> parse_list(h, i, "array", text, n)
    [] t = "{" -> parse_list(h, i, "object", text, n)
    [] OTHER -> Unread(i, h)

\* The blocks an item holds: what cJSON_Delete frees.
RECURSIVE Blocks(_)
Blocks(i) ==
  1 + Num(i.string # NULL) + Num(i.type = "string" /\ i.value # NULL)
    + FoldLeft(LAMBDA sum, child : sum + Blocks(child), 0, i.child)

Parsed(read) ==
  IF read.ok THEN [item |-> read.item, heap |-> read.heap]
  ELSE [item |-> NULL, heap |-> free(read.heap, Blocks(read.item))]
cJSON_Parse(text, h) ==
  IF Fails(h) THEN [item |-> NULL, heap |-> malloc(h)]
  ELSE Parsed(parse_value(malloc(h), New_Item, text, skip(text, 1)))

-----------------------------------------------------------------------------
(***************************************************************************)
(* A caller prints the item, parses the text or what has been left of it,  *)
(* and gives both back.                                                    *)
(***************************************************************************)
json_text_vars == <<item, printed, parsed>>
Failing == 0 .. MaxMallocs

\* A call that has not been made has not failed.
Made(h) == h.failing <= h.calls

Init ==
  /\ item \in Values
  /\ printed = NULL
  /\ parsed = NULL

Printed(out, fmt) ==
  /\ printed = NULL /\ Made(out.heap)
  /\ printed' = [ok |-> out.ok, text |-> out.text, heap |-> out.heap, fmt |-> fmt]
  /\ UNCHANGED <<item, parsed>>

\* cJSON_Print and cJSON_PrintUnformatted.
cJSON_Print ==
  \E fmt \in BOOLEAN, f \in Failing : Printed(print_value(Heap(f), item, 0, fmt), fmt)

cJSON_PrintBuffered ==
  \E fmt \in BOOLEAN, f \in Failing, size \in Prebuffers :
    Printed(PutValue(Buffer(Heap(f), size), item, 0, fmt), fmt)

\* The text ends early, or one of its tokens is missing.
Damaged(text) ==
  {SubSeq(text, 1, n) : n \in 0 .. Len(text)} \cup {RemoveAt(text, n) : n \in DOMAIN text}

Parse ==
  /\ printed # NULL /\ printed.ok /\ parsed = NULL
  /\ \E f \in Failing, text \in Damaged(printed.text) :
       LET c == cJSON_Parse(text, Heap(f)) IN
       /\ Made(c.heap)
       /\ parsed' = [text |-> text, item |-> c.item, heap |-> c.heap]
  /\ UNCHANGED <<item, printed>>

Release ==
  /\ printed # NULL
  /\ printed' = NULL
  /\ parsed' = NULL
  /\ UNCHANGED item

Next == cJSON_Print \/ cJSON_PrintBuffered \/ Parse \/ Release

Spec == Init /\ [][Next]_json_text_vars

-----------------------------------------------------------------------------
\* No text, name or copy of a string is longer than the block that was asked
\* for it, the final 0 included: the lengths summed up before malloc
\* (print_string_ptr, print_array, print_object, parse_string) and the room
\* asked of ensure are enough.
FitsItsBlock ==
  /\ printed # NULL => printed.heap.fits
  /\ parsed # NULL => parsed.heap.fits

\* Whichever malloc fails and wherever a text turns out malformed, nothing is
\* left behind: a print leaves its text or nothing, a parse leaves the blocks of
\* the item it returns or nothing.
NothingLeaks ==
  /\ printed # NULL => printed.heap.live = Num(printed.ok)
  /\ parsed # NULL =>
       parsed.heap.live = (IF parsed.item = NULL THEN 0 ELSE Blocks(parsed.item))

\* The two printers agree: the buffered text of an item is the text that the
\* printer of single blocks makes of it.
PrintersAgree ==
  printed # NULL /\ printed.ok =>
    printed.text = print_value(Heap(0), item, 0, printed.fmt).text

\* What has been printed is read back as it was, and an array or object that
\* ends early is refused, never read as a smaller one.
ReadBack ==
  parsed # NULL /\ parsed.heap.failing = 0 =>
    /\ parsed.text = printed.text => parsed.item = item
    /\ /\ item.type \in {"array", "object"}
       /\ Len(parsed.text) < Len(printed.text)
       /\ IsPrefix(parsed.text, printed.text)
       => parsed.item = NULL
=============================================================================
