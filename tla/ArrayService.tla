---------------------------- MODULE ArrayService ----------------------------
(***************************************************************************)
(* What array.h promises its callers: a sequence of pointers, counted from *)
(* 0, and what each call returns.  PtrArray implements it.                 *)
(***************************************************************************)
EXTENDS Integers, Sequences

CONSTANTS
  Pointers, NULL,
  Sizes   \* arguments of arraySetSize

VARIABLES
  list,     \* the pointers
  result    \* the last call and what it returned

Init == list = <<>> /\ result = <<"create", 0>>

\* "Adds a pointer. Returns 0 is successful, < 0 otherwise."
Add(p) ==
  \/ list' = Append(list, p) /\ result' = <<"add", p, 0>>
  \/ UNCHANGED list /\ result' = <<"add", p, -1>>

Get(i) ==
  /\ i < Len(list)
  /\ result' = <<"get", i, list[i + 1]>>
  /\ UNCHANGED list

\* "Removes the pointer at the given index and returns it."
Remove(i) ==
  /\ i < Len(list)
  /\ result' = <<"remove", i, list[i + 1]>>
  /\ list' = SubSeq(list, 1, i) \o SubSeq(list, i + 2, Len(list))

\* "Sets pointer at the given index. Returns old pointer."
Set(i, p) ==
  /\ i < Len(list)
  /\ result' = <<"set", i, p, list[i + 1]>>
  /\ list' = [list EXCEPT ![i + 1] = p]

\* "Sets the array size. Sets new pointers to NULL."
SetSize(n) ==
  \/ /\ list' = [i \in 1 .. n |-> IF i <= Len(list) THEN list[i] ELSE NULL]
     /\ result' = <<"setsize", n, 0>>
  \/ UNCHANGED list /\ result' = <<"setsize", n, -1>>

Size == result' = <<"size", Len(list)>> /\ UNCHANGED list

Next ==
  \/ Size
  \/ \E p \in Pointers : Add(p)
  \/ \E i \in 0 .. Len(list) : Get(i) \/ Remove(i) \/ \E p \in Pointers : Set(i, p)
  \/ \E n \in Sizes : SetSize(n)

Spec == Init /\ [][Next]_<<list, result>>

=============================================================================
