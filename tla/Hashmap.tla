------------------------------ MODULE Hashmap -------------------------------
(***************************************************************************)
(* server/hashmap.c: buckets of chained entries, doubled in number when    *)
(* more than three quarters as many entries are in the map.                *)
(*                                                                         *)
(* A chain is the sequence of its entries from the head on.  The hash an   *)
(* entry stores is the hash of its key.                                    *)
(***************************************************************************)
EXTENDS Naturals, SequencesExt, FiniteSetsExt

CONSTANTS
  Keys, Values,
  NULL,              \* no value: neither a key nor a value
  hash,              \* hashKey, as the unsigned number its bits make
  initialCapacity    \* the argument of hashmapCreate

ASSUME HashmapAssumption ==
  /\ hash \in [Keys -> Nat]
  /\ initialCapacity \in Nat
  /\ NULL \notin Keys \cup Values
  /\ IsFiniteSet(Keys)    \* keys are pointers

VARIABLES
  bucketCount,
  buckets,     \* chains, at 0 .. bucketCount - 1
  size,
  result       \* the last call and what it returned

vars == <<bucketCount, buckets, size, result>>

Entries == [key : Keys, value : Values]

-----------------------------------------------------------------------------
\* The bucket of a key; the number of buckets is a power of 2.
calculateIndex(count, k) == hash[k] % count

Chain(k) == buckets[calculateIndex(bucketCount, k)]

\* The place of the first entry of a chain that equals the key, 0 for none.
Find(k) == SelectInSeq(Chain(k), LAMBDA e : e.key = k)

\* All entries, in the order in which the buckets are walked.
Walk(count, table) ==
  LET upTo[n \in 0 .. count] == IF n = 0 THEN <<>> ELSE upTo[n - 1] \o table[n - 1]
  IN upTo[count]

EmptyTable(count) == [i \in 0 .. count - 1 |-> <<>>]

\* Mutant of Moved: the bucket is calculated before the count is doubled.
MovedByOldCount(table, count, e) ==
  [table EXCEPT ![calculateIndex(count \div 2, e.key)] = <<e>> \o @]

\* An entry that is moved to new buckets is put before those moved there earlier.
Moved(table, count, e) ==
  [table EXCEPT ![calculateIndex(count, e.key)] = <<e>> \o @]

\* `count' new buckets after the entries `all' have been moved into them.
MoveOver(count, all) ==
  LET upTo[n \in 0 .. Len(all)] ==
        IF n = 0 THEN EmptyTable(count) ELSE Moved(upTo[n - 1], count, all[n])
  IN upTo[Len(all)]

\* The end of a call that has put an n-th entry in the table; without memory
\* for the new buckets the map stays as it is.
expandIfNecessary(table, n) ==
  \/ /\ n > (bucketCount * 3) \div 4
     /\ bucketCount' = bucketCount * 2
     /\ buckets' = MoveOver(bucketCount * 2, Walk(bucketCount, table))
  \/ /\ buckets' = table
     /\ UNCHANGED bucketCount

\* A new entry goes to the end of the chain.
AddEntry(k, v) ==
  LET table == [buckets EXCEPT ![calculateIndex(bucketCount, k)] =
                  Append(@, [key |-> k, value |-> v])]
  IN /\ size' = size + 1
     /\ expandIfNecessary(table, size + 1)

-----------------------------------------------------------------------------
\* The numbers of buckets that shifting 1 to the left reaches.
PowerOf2[i \in Nat] == IF i = 0 THEN 1 ELSE 2 * PowerOf2[i - 1]

\* hashmapCreate: the first power of 2 above initialCapacity * 4 / 3.
Init ==
  /\ bucketCount = CHOOSE n \in {PowerOf2[i] : i \in 0 .. initialCapacity + 1} :
       /\ n > (initialCapacity * 4) \div 3
       /\ n = 1 \/ n \div 2 <= (initialCapacity * 4) \div 3
  /\ buckets = EmptyTable(bucketCount)
  /\ size = 0
  /\ result = <<"create", NULL>>

\* createEntry finds no memory for a new entry.
OutOfMemory(k) == Find(k) = 0 /\ UNCHANGED <<bucketCount, buckets, size>>

hashmapPut(k, v) ==
  \/ OutOfMemory(k) /\ result' = <<"put", k, v, NULL>>
  \/ Find(k) = 0 /\ AddEntry(k, v) /\ result' = <<"put", k, v, NULL>>
  \/ /\ Find(k) # 0
     /\ result' = <<"put", k, v, Chain(k)[Find(k)].value>>
     /\ buckets' = [buckets EXCEPT
          ![calculateIndex(bucketCount, k)][Find(k)].value = v]
     /\ UNCHANGED <<bucketCount, size>>

Answer(r) == result' = r /\ UNCHANGED <<bucketCount, buckets, size>>

hashmapGet(k) ==
  Answer(<<"get", k, IF Find(k) = 0 THEN NULL ELSE Chain(k)[Find(k)].value>>)

hashmapContainsKey(k) == Answer(<<"contains", k, Find(k) # 0>>)

\* initialValue gives v for a new key.
hashmapMemoize(k, v) ==
  \/ OutOfMemory(k) /\ result' = <<"memoize", k, v, NULL>>
  \/ Find(k) = 0 /\ AddEntry(k, v) /\ result' = <<"memoize", k, v, v>>
  \/ Find(k) # 0 /\ Answer(<<"memoize", k, v, Chain(k)[Find(k)].value>>)

\* Mutants of hashmapRemove: the size stays, or what stands before the entry in
\* its chain goes with it.
RemoveKeepsSize(k) ==
  IF Find(k) = 0
  THEN Answer(<<"remove", k, NULL>>)
  ELSE /\ result' = <<"remove", k, Chain(k)[Find(k)].value>>
       /\ buckets' = [buckets EXCEPT ![calculateIndex(bucketCount, k)] =
                        RemoveAt(@, Find(k))]
       /\ UNCHANGED <<bucketCount, size>>
RemoveTail(k) ==
  IF Find(k) = 0
  THEN Answer(<<"remove", k, NULL>>)
  ELSE /\ result' = <<"remove", k, Chain(k)[Find(k)].value>>
       /\ buckets' = [buckets EXCEPT ![calculateIndex(bucketCount, k)] =
                        SubSeq(@, Find(k) + 1, Len(@))]
       /\ size' = size - 1
       /\ UNCHANGED bucketCount

hashmapRemove(k) ==
  IF Find(k) = 0
  THEN Answer(<<"remove", k, NULL>>)
  ELSE /\ result' = <<"remove", k, Chain(k)[Find(k)].value>>
       /\ buckets' = [buckets EXCEPT ![calculateIndex(bucketCount, k)] =
                        RemoveAt(@, Find(k))]
       /\ size' = size - 1
       /\ UNCHANGED bucketCount

hashmapSize == Answer(<<"size", size>>)

\* The entries given to a callback that returns false at key `last'.
hashmapForEach(last) ==
  LET all == Walk(bucketCount, buckets)
      stop == SelectInSeq(all, LAMBDA e : e.key = last)
  IN Answer(<<"each", last, IF stop = 0 THEN all ELSE SubSeq(all, 1, stop)>>)

Next ==
  \/ hashmapSize
  \/ \E k \in Keys :
       \/ hashmapGet(k) \/ hashmapContainsKey(k) \/ hashmapRemove(k)
       \/ hashmapForEach(k)
       \/ \E v \in Values : hashmapPut(k, v) \/ hashmapMemoize(k, v)

Spec == Init /\ [][Next]_vars

-----------------------------------------------------------------------------
HashmapTypeOK ==
  /\ bucketCount \in {PowerOf2[i] : i \in 0 .. initialCapacity + Cardinality(Keys) + 1}
  /\ buckets \in [0 .. bucketCount - 1 -> Seq(Entries)]
  /\ size \in 0 .. Cardinality(Keys)

\* After any history of puts, removals and doublings an entry stands in the
\* bucket in which its key is looked for, no key has two entries, and the size
\* is their number.
WellPlaced ==
  /\ \A i \in DOMAIN buckets : \A j \in DOMAIN buckets[i] :
       /\ calculateIndex(bucketCount, buckets[i][j].key) = i
       /\ Find(buckets[i][j].key) = j
  /\ size = Len(Walk(bucketCount, buckets))

\* The map a caller sees.
Present == {k \in Keys : \E i \in DOMAIN buckets :
              \E j \in DOMAIN buckets[i] : buckets[i][j].key = k}
Abstract ==
  [k \in Present |->
     (CHOOSE e \in UNION {ToSet(buckets[i]) : i \in DOMAIN buckets} : e.key = k).value]

Service == INSTANCE MapService WITH map <- Abstract

\* Every call returns what hashmap.h promises: chains, hashes, collisions and
\* doublings, with or without memory for them, cannot be told from one map.
ImplementsMap == Service!Spec

=============================================================================
