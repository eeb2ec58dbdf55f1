------------------------------ MODULE JsonTree ------------------------------
(***************************************************************************)
(* What cJSON.h promises of arrays and objects: each item has a sequence   *)
(* of children, counted from 0, and perhaps a name; the calls build such   *)
(* trees, take them apart and look children up.  JsonItems implements it.  *)
(* References to items are left out: the server makes none.                *)
(***************************************************************************)
EXTENDS Integers, SequencesExt

CONSTANTS Items, Names, NULL, MaxCount

VARIABLES
  kids,     \* the children of every item there is
  name,     \* its name, or NULL
  result    \* the last call and what it returned

Init ==
  /\ kids = [i \in {} |-> <<>>]
  /\ name = [i \in {} |-> NULL]
  /\ result = <<"start", NULL>>

Live == DOMAIN kids
Fresh == Items \ Live

\* With the entries of more for new items.
Grown(f, more) ==
  [i \in DOMAIN f \cup DOMAIN more |-> IF i \in DOMAIN f THEN f[i] ELSE more[i]]

\* i and every item below it.
Below(i) ==
  LET below[j \in Live] == {j} \cup UNION {below[c] : c \in Range(kids[j])}
  IN below[i]

\* Items that are in no array: what the calls take and give.
IsRoot(i) == \A j \in Live : ~Contains(kids[j], i)
MayHold(array, item) == IsRoot(item) /\ array \notin Below(item)

\* The index of the first child of that name.
IndexOf(object, n) == SelectInSeq(kids[object], LAMBDA c : name[c] = n) - 1
Has(array, which) == 0 <= which /\ which < Len(kids[array])

Returns(call, value) == result' = Append(call, value)

-----------------------------------------------------------------------------
\* Each call names what it returned first; what it is given must be there.

\* An item with count new items in it; nothing when memory runs out.
Create(count) ==
  \/ Returns(<<"create", count>>, NULL) /\ UNCHANGED <<kids, name>>
  \/ \E i \in Fresh, new \in [1 .. count -> Fresh] :
       /\ IsInjective(new) /\ i \notin Range(new)
       /\ Returns(<<"create", count>>, i)
       /\ kids' = Grown(kids, [c \in {i} \cup Range(new) |-> IF c = i THEN new ELSE <<>>])
       /\ name' = Grown(name, [c \in {i} \cup Range(new) |-> NULL])

AddToArray(array, item) ==
  /\ Returns(<<"add">>, NULL)
  /\ MayHold(array, item)
  /\ kids' = [kids EXCEPT ![array] = Append(@, item)]
  /\ UNCHANGED name

\* Without memory for its name the item is added without one.
AddToObject(object, n, item) ==
  /\ Returns(<<"add">>, NULL)
  /\ MayHold(object, item)
  /\ kids' = [kids EXCEPT ![object] = Append(@, item)]
  /\ \E m \in {n, NULL} : name' = [name EXCEPT ![item] = m]

\* At the index, or at the end when there are fewer.
Insert(array, which, item) ==
  /\ Returns(<<"insert", which>>, NULL)
  /\ MayHold(array, item)
  /\ kids' = [kids EXCEPT ![array] =
       IF Has(array, which) THEN InsertAt(@, which + 1, item) ELSE Append(@, item)]
  /\ UNCHANGED name

\* place is the index or the name the caller gives, which the index it means.
Detach(array, place, which) ==
  \/ /\ Has(array, which)
     /\ Returns(<<"detach", place>>, kids[array][which + 1])
     /\ kids' = [kids EXCEPT ![array] = RemoveAt(@, which + 1)]
     /\ UNCHANGED name
  \/ /\ ~Has(array, which)
     /\ Returns(<<"detach", place>>, NULL)
     /\ UNCHANGED <<kids, name>>

\* An item and all below it are gone.
Gone(i, rest, names) ==
  /\ kids' = Restrict(rest, Live \ Below(i))
  /\ name' = Restrict(names, Live \ Below(i))

Delete(i) == IsRoot(i) /\ Gone(i, kids, name)

DeleteFrom(array, which) ==
  IF Has(array, which)
  THEN Gone(kids[array][which + 1],
            [kids EXCEPT ![array] = RemoveAt(@, which + 1)], name)
  ELSE UNCHANGED <<kids, name>>

\* The item there is deleted; with an index too high nothing happens.
Replace(array, which, item, names) ==
  /\ MayHold(array, item)
  /\ IF Has(array, which)
     THEN Gone(kids[array][which + 1],
               [kids EXCEPT ![array] = ReplaceAt(@, which + 1, item)], names)
     ELSE UNCHANGED <<kids, name>>

\* A copy in fresh memory, with or without what is below.
Duplicate(i, recurse) ==
  \/ Returns(<<"duplicate", recurse>>, NULL) /\ UNCHANGED <<kids, name>>
  \/ LET S == IF recurse THEN Below(i) ELSE {i} IN
     \E copy \in [S -> Fresh] :
       /\ Returns(<<"duplicate", recurse>>, copy[i])
       /\ IsInjective(copy)
       /\ kids' = Grown(kids, [c \in Range(copy) |->
            LET j == CHOOSE j \in S : copy[j] = c IN
            IF recurse THEN [k \in DOMAIN kids[j] |-> copy[kids[j][k]]] ELSE <<>>])
       /\ name' = Grown(name, [c \in Range(copy) |-> name[CHOOSE j \in S : copy[j] = c]])

Query(array) ==
  \/ Returns(<<"size", array>>, Len(kids[array]))
  \/ \E which \in 0 .. Len(kids[array]) :
       Returns(<<"item", array, which>>,
               IF Has(array, which) THEN kids[array][which + 1] ELSE NULL)
  \/ \E n \in Names :
       Returns(<<"item", array, n>>,
               IF IndexOf(array, n) >= 0
               THEN kids[array][IndexOf(array, n) + 1] ELSE NULL)

\* The indices up to one too high, and the names, with the index of each.
Places(array) == {<<which, which>> : which \in 0 .. Len(kids[array])}
                 \cup {<<n, IndexOf(array, n)>> : n \in Names}

\* An item that replaces one under a name takes it, when there is memory for it.
Renamed(item, place) ==
  IF place \in Names THEN {[name EXCEPT ![item] = m] : m \in {place, NULL}} ELSE {name}

Next ==
  \/ \E count \in 0 .. MaxCount : Create(count)
  \/ \E i \in Live, recurse \in BOOLEAN : Duplicate(i, recurse)
  \/ UNCHANGED <<kids, name>> /\ \E array \in Live : Query(array)
  \/ Returns(<<"delete">>, NULL) /\ \E i \in Live : Delete(i)
  \/ \E array, item \in Live : AddToArray(array, item)
  \/ \E object, item \in Live, n \in Names : AddToObject(object, n, item)
  \/ \E array \in Live : \E place \in Places(array) :
       \/ Detach(array, place[1], place[2])
       \/ Returns(<<"delete", place[1]>>, NULL) /\ DeleteFrom(array, place[2])
       \/ /\ Returns(<<"replace", place[1]>>, NULL)
          /\ \E item \in Live : \E names \in Renamed(item, place[1]) :
               Replace(array, place[2], item, names)
  \/ \E array, item \in Live : \E which \in 0 .. Len(kids[array]) :
       Insert(array, which, item)

Spec == Init /\ [][Next]_<<kids, name, result>>

=============================================================================
