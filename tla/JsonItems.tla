----------------------------- MODULE JsonItems -----------------------------
(***************************************************************************)
(* The items of cJSON.c, of which the server builds its responses: heap    *)
(* blocks that hold their siblings (next, prev), their first child and     *)
(* their name (string, NULL when it has none).  memory holds the blocks    *)
(* that are allocated.  The caller keeps the rules of cJSON.h: it passes   *)
(* items that exist, adds one that is in no array, and deletes only such;  *)
(* any allocation may fail.  Items by reference and constant names, which  *)
(* the server does not use, are left out, and so are the values of items.  *)
(***************************************************************************)
EXTENDS Integers, SequencesExt

CONSTANTS
  Items,      \* the blocks the heap can give
  Names,      \* the names callers use, equal names in any case being one
  NULL,
  MaxCount    \* the longest list of numbers an array is made of

ASSUME JsonItemsAssumption ==
  /\ NULL \notin Items
  /\ Names \cap Nat = {}     \* a name is not an index
  /\ MaxCount \in Nat

VARIABLES memory, result

New_Item == [next |-> NULL, prev |-> NULL, child |-> NULL, string |-> NULL]

Live == DOMAIN memory
Fresh == Items \ Live

\* The blocks there were, and those of more.
Grown(m, more) ==
  [i \in DOMAIN m \cup DOMAIN more |-> IF i \in DOMAIN m THEN m[i] ELSE more[i]]

\* The list that starts at c, followed by next.
List(m, c) ==
  LET from[i \in DOMAIN m \cup {NULL}] ==
        IF i = NULL THEN <<>> ELSE <<i>> \o from[m[i].next]
  IN from[c]
Children(array) == List(memory, memory[array].child)

\* An item of a list; NULL before the first and behind the last.
At(list, j) == IF j \in DOMAIN list THEN list[j] ELSE NULL

\* while (c && which > 0) c = c->next, which--
OffByOne(m, c, which) == At(List(m, c), which + 2)
Nth(m, c, which) == At(List(m, c), which + 1)

\* The first child of that name: its place in the list, and the item.
IndexOf(object, n) ==
  SelectInSeq(Children(object), LAMBDA c : memory[c].string = n) - 1
Named(object, n) == At(Children(object), IndexOf(object, n) + 1)

\* p->field = x, skipped for a NULL p where the code tests for it.
SetNext(m, p, x) == IF p = NULL THEN m ELSE [m EXCEPT ![p].next = x]
SetPrev(m, p, x) == IF p = NULL THEN m ELSE [m EXCEPT ![p].prev = x]
\* The link to c, in the array or in the item before it, becomes x.
SetLink(m, array, c, x) ==
  IF c = m[array].child THEN [m EXCEPT ![array].child = x]
  ELSE SetNext(m, m[c].prev, x)

suffix_object(m, prev, item) == SetPrev(SetNext(m, prev, item), item, prev)

Added(m, array, item) ==
  IF m[array].child = NULL THEN [m EXCEPT ![array].child = item]
  ELSE suffix_object(m, Last(List(m, m[array].child)), item)

Detached(m, array, c) ==
  LET linked == SetPrev(SetLink(m, array, c, m[c].next), m[c].next, m[c].prev) IN
  [linked EXCEPT ![c].prev = NULL, ![c].next = NULL]

InsertedNoPrev(m, array, c, item) ==
  SetLink([m EXCEPT ![item].next = c, ![item].prev = m[c].prev], array, c, item)
Inserted(m, array, c, item) ==
  LET linked == SetLink([m EXCEPT ![item].next = c, ![item].prev = m[c].prev],
                        array, c, item) IN
  [linked EXCEPT ![c].prev = item]

\* An item is freed with what is below it and with what follows it.
FreedWith(m, c) ==
  LET freed[i \in DOMAIN m \cup {NULL}] ==
        IF i = NULL THEN {} ELSE {i} \cup freed[m[i].child] \cup freed[m[i].next]
  IN freed[c]
Deleted(m, c) == Restrict(m, DOMAIN m \ FreedWith(m, c))

\* The old item is cut off before it is deleted, or its siblings would go too.
Replaced(m, array, c, item) ==
  LET filled == [m EXCEPT ![item].next = m[c].next, ![item].prev = m[c].prev]
      linked == SetLink(SetPrev(filled, m[c].next, item), array, c, item)
  IN  Deleted([linked EXCEPT ![c].next = NULL, ![c].prev = NULL], c)

-----------------------------------------------------------------------------
\* Items a caller holds by itself, and may put into an array not below them.
Roots == {i \in Live : \A j \in Live : ~Contains(Children(j), i)}
MayHold(array, item) == item \in Roots /\ array \notin FreedWith(memory, item)

Returns(call, value) == result' = Append(call, value)

Init == memory = [i \in {} |-> New_Item] /\ result = <<"start", NULL>>

\* A new array a of the new items n, linked in that order.
Array(a, n) ==
  LET Linked(j) == [New_Item EXCEPT !.next = At(n, j + 1), !.prev = At(n, j - 1)]
  IN  [i \in {a} \cup Range(n) |->
         IF i = a THEN [New_Item EXCEPT !.child = At(n, 1)]
         ELSE Linked(CHOOSE j \in 1 .. Len(n) : n[j] = i)]

\* cJSON_CreateArray and its like; with a count, the arrays of numbers.
Create(count) ==
  \/ Returns(<<"create", count>>, NULL) /\ UNCHANGED memory
  \/ \E a \in Fresh, n \in [1 .. count -> Fresh] :
       /\ IsInjective(n) /\ a \notin Range(n)
       /\ memory' = Grown(memory, Array(a, n))
       /\ Returns(<<"create", count>>, a)

Delete(item) ==
  /\ item \in Roots
  /\ memory' = Deleted(memory, item)
  /\ Returns(<<"delete">>, NULL)

AddItemToArray(array, item) ==
  /\ MayHold(array, item)
  /\ memory' = Added(memory, array, item)
  /\ Returns(<<"add">>, NULL)

\* cJSON_strdup may fail, which is not tested.
Strdup(n) == {n, NULL}
AddItemToObject(object, n, item) ==
  /\ MayHold(object, item)
  /\ \E string \in Strdup(n) :
       memory' = Added([memory EXCEPT ![item].string = string], object, item)
  /\ Returns(<<"add">>, NULL)

InsertItemInArray(array, which, item) ==
  LET c == Nth(memory, memory[array].child, which) IN
  /\ MayHold(array, item)
  /\ memory' = IF c = NULL THEN Added(memory, array, item)
               ELSE Inserted(memory, array, c, item)
  /\ Returns(<<"insert", which>>, NULL)

\* DetachItemFromArray, DetachItemFromObject: c is the item found at the index
\* or under the name, if any.
DetachItem(array, place, c) ==
  /\ memory' = IF c = NULL THEN memory ELSE Detached(memory, array, c)
  /\ Returns(<<"detach", place>>, c)

DeleteItem(array, place, c) ==
  /\ memory' = IF c = NULL THEN memory ELSE Deleted(Detached(memory, array, c), c)
  /\ Returns(<<"delete", place>>, NULL)

ReplaceItemInArray(array, which, item) ==
  LET c == Nth(memory, memory[array].child, which) IN
  /\ MayHold(array, item)
  /\ memory' = IF c = NULL THEN memory ELSE Replaced(memory, array, c, item)
  /\ Returns(<<"replace", which>>, NULL)

ReplaceItemInObject(object, n, item) ==
  LET c == Named(object, n) IN
  /\ MayHold(object, item)
  /\ IF c = NULL THEN UNCHANGED memory
     ELSE \E string \in Strdup(n) :
            memory' = Replaced([memory EXCEPT ![item].string = string], object, c, item)
  /\ Returns(<<"replace", n>>, NULL)

\* The items S in the blocks that copy gives, linked as they were but for item.
Copies(m, S, item, recurse, copy) ==
  LET CopyOf(j) == IF j \in S THEN copy[j] ELSE NULL
      Before(j) == {k \in S : m[k].next = j}
      Copied(j) ==
        [next   |-> IF j = item THEN NULL ELSE CopyOf(m[j].next),
         prev   |-> IF j = item \/ Before(j) = {} THEN NULL
                    ELSE copy[CHOOSE k \in Before(j) : TRUE],
         child  |-> IF recurse THEN CopyOf(m[j].child) ELSE NULL,
         string |-> m[j].string]
  IN  [c \in Range(copy) |-> Copied(CHOOSE j \in S : copy[j] = c)]

\* When a copy cannot be made, all are deleted.
Duplicate(item, recurse) ==
  \/ Returns(<<"duplicate", recurse>>, NULL) /\ UNCHANGED memory
  \/ LET S == IF recurse THEN {item} \cup FreedWith(memory, memory[item].child)
              ELSE {item} IN
     \E copy \in [S -> Fresh] :
       /\ IsInjective(copy)
       /\ memory' = Grown(memory, Copies(memory, S, item, recurse, copy))
       /\ Returns(<<"duplicate", recurse>>, copy[item])

GetArraySize(array) == Returns(<<"size", array>>, Len(Children(array))) /\ UNCHANGED memory
GetArrayItem(array, which) ==
  /\ Returns(<<"item", array, which>>, Nth(memory, memory[array].child, which))
  /\ UNCHANGED memory
GetObjectItem(object, n) ==
  Returns(<<"item", object, n>>, Named(object, n)) /\ UNCHANGED memory

\* An index may be one too high.
Places(array) == 0 .. Len(Children(array))

Next ==
  \/ \E count \in 0 .. MaxCount : Create(count)
  \/ \E item \in Live : Delete(item)
  \/ \E item \in Live, recurse \in BOOLEAN : Duplicate(item, recurse)
  \/ \E array \in Live : GetArraySize(array)
  \/ \E array \in Live : \E which \in Places(array) :
       LET c == Nth(memory, memory[array].child, which) IN
       \/ GetArrayItem(array, which)
       \/ DetachItem(array, which, c)
       \/ DeleteItem(array, which, c)
       \/ \E item \in Roots : \/ InsertItemInArray(array, which, item)
                              \/ ReplaceItemInArray(array, which, item)
  \/ \E object \in Live, n \in Names :
       \/ GetObjectItem(object, n)
       \/ DetachItem(object, n, Named(object, n))
       \/ DeleteItem(object, n, Named(object, n))
       \/ \E item \in Roots : \/ AddItemToObject(object, n, item)
                              \/ ReplaceItemInObject(object, n, item)
  \/ \E array \in Live, item \in Roots : AddItemToArray(array, item)

Spec == Init /\ [][Next]_<<memory, result>>

-----------------------------------------------------------------------------
(***************************************************************************)
(* Properties                                                              *)
(***************************************************************************)

(* Whatever items are added, inserted, detached, replaced, deleted and      *)
(* copied, no pointer leads to freed memory, prev undoes next, and an item  *)
(* has one place: it is the first child of one item or follows one other.   *)
WellLinked ==
  \A i \in Live :
    /\ {memory[i].next, memory[i].prev, memory[i].child} \subseteq Live \cup {NULL}
    /\ memory[i].next # NULL => memory[memory[i].next].prev = i
    /\ memory[i].prev # NULL => memory[memory[i].prev].next = i
    /\ memory[i].child # NULL => memory[memory[i].child].prev = NULL
    /\ Cardinality({j \in Live : i \in {memory[j].next, memory[j].child}}) <= 1

Kids == [i \in Live |-> Children(i)]
Strings == [i \in Live |-> memory[i].string]
Tree == INSTANCE JsonTree WITH kids <- Kids, name <- Strings

(* The pointers of cJSON.c cannot be told from trees of named items by any  *)
(* call: what each of them returns, and which items there are afterwards,   *)
(* is what the tree gives.                                                  *)
ImplementsTree == Tree!Spec

=============================================================================
