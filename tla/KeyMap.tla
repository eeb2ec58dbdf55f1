------------------------------- MODULE KeyMap -------------------------------
(***************************************************************************)
(* What server/hashmap.h promises of a Hashmap, as a partial function from *)
(* keys to values: the view the game handler has of users_map_main.        *)
(***************************************************************************)

\* hashmapCreate: a map with no entry.
EmptyMap == [k \in {} |-> k]

\* Mutant of hashmapPut: a value that has a key already is not put under another.
hashmapPutOnce(m, k, v) ==
  IF \E j \in DOMAIN m : m[j] = v THEN m
  ELSE [j \in DOMAIN m \cup {k} |-> IF j = k THEN v ELSE m[j]]

\* hashmapPut: add the entry, or replace the value of the key it already has.
hashmapPut(m, k, v) ==
  [j \in DOMAIN m \cup {k} |-> IF j = k THEN v ELSE m[j]]

\* Mutant of hashmapRemove: the entry is not unlinked.
hashmapRemoveNothing(m, k) == m

\* hashmapRemove: drop the entry of the key, if there is one.
hashmapRemove(m, k) == [j \in DOMAIN m \ {k} |-> m[j]]

\* hashmapContainsKey; hashmapPut and hashmapRemove return NULL when it is FALSE.
hashmapContainsKey(m, k) == k \in DOMAIN m

\* hashmapSize(m) > 1, in the only form the handler asks for it.
MoreThanOneEntry(m) == \E j, k \in DOMAIN m : j # k

=============================================================================
