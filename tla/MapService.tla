----------------------------- MODULE MapService -----------------------------
(***************************************************************************)
(* What hashmap.h promises its callers: one map from keys to values, and   *)
(* what each call returns.  Hashmap implements it.                         *)
(***************************************************************************)
EXTENDS Naturals, FiniteSets, KeyMap

Seqs == INSTANCE SequencesExt

CONSTANTS Keys, Values, NULL

VARIABLES
  map,      \* the entries
  result    \* the last call and what it returned

ValueAt(k) == IF hashmapContainsKey(map, k) THEN map[k] ELSE NULL

Init == map = EmptyMap /\ result = <<"create", NULL>>

\* "Returns pre-existing value if any."
Put(k, v) ==
  /\ map' = hashmapPut(map, k, v)
  /\ result' = <<"put", k, v, ValueAt(k)>>

\* "If memory allocation fails, this function returns NULL, the map's size does
\* not increase"; only a new key needs memory.
NoMemory(k, v) ==
  /\ ~hashmapContainsKey(map, k)
  /\ result' \in {<<"put", k, v, NULL>>, <<"memoize", k, v, NULL>>}
  /\ UNCHANGED map

Get(k) == result' = <<"get", k, ValueAt(k)>> /\ UNCHANGED map

ContainsKey(k) ==
  result' = <<"contains", k, hashmapContainsKey(map, k)>> /\ UNCHANGED map

\* v is the value the callback would give.
Memoize(k, v) ==
  IF hashmapContainsKey(map, k)
  THEN result' = <<"memoize", k, v, map[k]>> /\ UNCHANGED map
  ELSE result' = <<"memoize", k, v, v>> /\ map' = hashmapPut(map, k, v)

\* "Returns the removed value or NULL if no entry was present."
Remove(k) ==
  /\ map' = hashmapRemove(map, k)
  /\ result' = <<"remove", k, ValueAt(k)>>

Size == result' = <<"size", Cardinality(DOMAIN map)>> /\ UNCHANGED map

\* "Invokes the given callback on each entry in the map. Stops iterating if the
\* callback returns false": the result is the calls the callback got, in an
\* order the map chooses; at key `last' the callback returns false.
ForEach(last) ==
  /\ \E order \in Seqs!SetToSeqs(DOMAIN map) :
       LET calls == IF last \in DOMAIN map
                    THEN CHOOSE j \in DOMAIN order : order[j] = last
                    ELSE Cardinality(DOMAIN map)
       IN result' = <<"each", last, [i \in 1 .. calls |->
                                       [key |-> order[i], value |-> map[order[i]]]]>>
  /\ UNCHANGED map

Next ==
  \/ Size
  \/ \E k \in Keys :
       \/ Get(k) \/ ContainsKey(k) \/ Remove(k) \/ ForEach(k)
       \/ \E v \in Values : Put(k, v) \/ NoMemory(k, v) \/ Memoize(k, v)

Spec == Init /\ [][Next]_<<map, result>>

=============================================================================
