--------------------------- MODULE HashmapProofs ----------------------------
(***************************************************************************)
(* Theorems about the users map's hashmap, for every set of keys, every    *)
(* hash, every initial capacity and every failing allocation: the chains   *)
(* are in order, and no caller can tell them from a map.                   *)
(***************************************************************************)
EXTENDS Hashmap, FiniteSetTheorems, SequenceTheorems, WellFoundedInduction, TLAPS

-----------------------------------------------------------------------------
(***************************************************************************)
(* Induction, on sets of natural numbers.                                  *)
(***************************************************************************)

LEMMA LeastOf ==
  ASSUME NEW T, T \subseteq Nat, T # {}
  PROVE  \E n \in T : \A m \in T : n <= m
<1> DEFINE R == OpToRel(<, Nat)
<1>1. IsWellFoundedOn(R, Nat)
  BY NatLessThanWellFounded
<1>2. \A x, y \in Nat : x < y => <<x, y>> \in R
  BY DEF OpToRel
<1> HIDE DEF R
<1>3. PICK n \in T : \A m \in T : ~(<<m, n>> \in R)
  BY <1>1, WFMin
<1>4. ASSUME NEW m \in T PROVE n <= m
  <2>1. n \in Nat /\ m \in Nat /\ ~(m < n)
    BY <1>2, <1>3
  <2> QED
    BY <2>1
<1> QED
  BY <1>4

LEMMA InductiveSet ==
  ASSUME NEW T, 0 \in T, \A n \in Nat : n \in T => n + 1 \in T
  PROVE  Nat \subseteq T
<1> SUFFICES ASSUME ~(Nat \subseteq T) PROVE FALSE
  OBVIOUS
<1>1. PICK n \in Nat \ T : \A m \in Nat \ T : n <= m
  BY LeastOf
<1>2. n # 0 /\ n - 1 \in Nat /\ n - 1 \in T
  BY <1>1
<1> QED
  BY <1>1, <1>2

\* What holds of 0 and passes on from each number below N holds up to N.
LEMMA InductiveUpTo ==
  ASSUME NEW N \in Nat, NEW T, 0 \in T, \A n \in 0 .. N - 1 : n \in T => n + 1 \in T
  PROVE  0 .. N \subseteq T
<1> DEFINE U == {n \in Nat : n <= N => n \in T}
<1>1. 0 \in U
  OBVIOUS
<1>2. ASSUME NEW n \in Nat, n \in U PROVE n + 1 \in U
  BY <1>2
<1> HIDE DEF U
<1>3. Nat \subseteq U
  BY <1>1, <1>2, InductiveSet
<1> QED
  BY <1>3 DEF U

\* A function can be defined by its first value and the step to each next one.
Iterates(f, N, S, a, step) ==
  f \in [0 .. N -> S] /\ f[0] = a /\ \A n \in 1 .. N : f[n] = step[<<n, f[n - 1]>>]

LEMMA Recursion ==
  ASSUME NEW N \in Nat, NEW S, NEW a \in S, NEW step \in [(1 .. N) \X S -> S]
  PROVE  \E f : Iterates(f, N, S, a, step)
<1> DEFINE T == {n \in 0 .. N : \E f : Iterates(f, n, S, a, step)}
<1>1. 0 \in T
  <2>1. Iterates([i \in 0 .. 0 |-> a], 0, S, a, step)
    BY DEF Iterates
  <2> QED
    BY <2>1
<1>2. ASSUME NEW n \in 0 .. N - 1, n \in T PROVE n + 1 \in T
  <2>1. PICK f : Iterates(f, n, S, a, step)
    BY <1>2
  <2> DEFINE x == step[<<n + 1, f[n]>>]
             g == [i \in 0 .. n + 1 |-> IF i = n + 1 THEN x ELSE f[i]]
  <2>2. n \in Nat /\ n + 1 \in 1 .. N /\ f[n] \in S
    BY <2>1 DEF Iterates
  <2>3. x \in S
    BY <2>2
  <2> HIDE DEF x
  <2>4. g \in [0 .. n + 1 -> S] /\ g[0] = a /\ g[n + 1] = x
    BY <2>1, <2>2, <2>3 DEF Iterates
  <2>5. \A i \in 0 .. n : g[i] = f[i]
    BY <2>2
  <2>6. ASSUME NEW i \in 1 .. n + 1 PROVE g[i] = step[<<i, g[i - 1]>>]
    <3>1. i - 1 \in 0 .. n /\ g[i - 1] = f[i - 1]
      BY <2>2, <2>5
    <3>2. CASE i = n + 1
      <4>1. i - 1 = n
        BY <2>2, <3>2
      <4> QED
        BY <2>4, <3>1, <3>2, <4>1 DEF x
    <3>3. CASE i # n + 1
      <4>1. i \in 1 .. n
        BY <2>2, <3>3
      <4>2. g[i] = f[i]
        BY <2>2, <2>5, <4>1
      <4> QED
        BY <2>1, <3>1, <4>1, <4>2 DEF Iterates
    <3> QED
      BY <3>2, <3>3
  <2> HIDE DEF g
  <2>7. Iterates(g, n + 1, S, a, step)
    BY <2>4, <2>6 DEF Iterates
  <2> QED
    BY <2>2, <2>7
<1> HIDE DEF T
<1>3. 0 .. N \subseteq T
  BY <1>1, <1>2, InductiveUpTo
<1>4. N \in T
  BY <1>3
<1> QED
  BY <1>4 DEF T

-----------------------------------------------------------------------------
(***************************************************************************)
(* Sequences that hold each entry of a set once, and one entry for a key.  *)
(***************************************************************************)
Lists(c, A) ==
  /\ c \in Seq(Entries) /\ A \subseteq Entries
  /\ \A j \in 1 .. Len(c) : c[j] \in A
  /\ \A e \in A : \E j \in 1 .. Len(c) : c[j] = e
  /\ \A i, j \in 1 .. Len(c) : c[i].key = c[j].key => i = j

\* The parts of a concatenation.
LEMMA Joined ==
  ASSUME NEW u \in Seq(Entries), NEW v \in Seq(Entries)
  PROVE  /\ u \o v \in Seq(Entries) /\ Len(u) \in Nat /\ Len(v) \in Nat
         /\ Len(u \o v) = Len(u) + Len(v)
         /\ \A j \in 1 .. Len(u) : j \in 1 .. Len(u \o v) /\ (u \o v)[j] = u[j]
         /\ \A j \in 1 .. Len(v) :
              Len(u) + j \in 1 .. Len(u \o v) /\ (u \o v)[Len(u) + j] = v[j]
         /\ \A j \in 1 .. Len(u \o v) :
              \/ j \in 1 .. Len(u)
              \/ j - Len(u) \in 1 .. Len(v) /\ j = Len(u) + (j - Len(u))
OBVIOUS

LEMMA JoinedLists ==
  ASSUME NEW u, NEW A, Lists(u, A), NEW v, NEW B, Lists(v, B),
         \A e \in A, d \in B : e.key # d.key
  PROVE  Lists(u \o v, A \cup B)
<1> DEFINE w == u \o v
           n == Len(u)
           l == Len(v)
<1>1. u \in Seq(Entries) /\ v \in Seq(Entries) /\ A \cup B \subseteq Entries
  BY DEF Lists
<1>2. /\ w \in Seq(Entries) /\ n \in Nat /\ l \in Nat
      /\ \A j \in 1 .. n : j \in 1 .. Len(w) /\ w[j] = u[j]
      /\ \A j \in 1 .. l : n + j \in 1 .. Len(w) /\ w[n + j] = v[j]
      /\ \A j \in 1 .. Len(w) : j \in 1 .. n \/ (j - n \in 1 .. l /\ j = n + (j - n))
  BY <1>1, Joined
<1>3. /\ \A j \in 1 .. n : u[j] \in A
      /\ \A e \in A : \E j \in 1 .. n : u[j] = e
      /\ \A i, j \in 1 .. n : u[i].key = u[j].key => i = j
  BY DEF Lists
<1>4. /\ \A j \in 1 .. l : v[j] \in B
      /\ \A e \in B : \E j \in 1 .. l : v[j] = e
      /\ \A i, j \in 1 .. l : v[i].key = v[j].key => i = j
  BY DEF Lists
<1> HIDE DEF w, n, l
<1>5. ASSUME NEW j \in 1 .. Len(w) PROVE w[j] \in A \cup B
  <2>1. CASE j \in 1 .. n
    BY <1>2, <1>3, <2>1
  <2>2. CASE j - n \in 1 .. l /\ j = n + (j - n)
    <3>1. w[n + (j - n)] = v[j - n]
      BY <1>2, <2>2
    <3> QED
      BY <1>4, <2>2, <3>1
  <2> QED
    BY <1>2, <2>1, <2>2
<1>6. ASSUME NEW e \in A \cup B PROVE \E j \in 1 .. Len(w) : w[j] = e
  <2>1. CASE e \in A
    BY <1>2, <1>3, <2>1
  <2>2. CASE e \in B
    BY <1>2, <1>4, <2>2
  <2> QED
    BY <2>1, <2>2
<1>7. ASSUME NEW i \in 1 .. Len(w), NEW j \in 1 .. Len(w), w[i].key = w[j].key
      PROVE  i = j
  <2>1. CASE i \in 1 .. n /\ j \in 1 .. n
    BY <1>2, <1>3, <1>7, <2>1
  <2>2. ASSUME NEW a \in 1 .. n, NEW b \in 1 .. l PROVE w[a].key # w[n + b].key
    BY <1>2, <1>3, <1>4
  <2>3. CASE i \in 1 .. n /\ ~(j \in 1 .. n)
    <3>1. j - n \in 1 .. l /\ j = n + (j - n)
      BY <1>2, <2>3
    <3>2. w[i].key # w[n + (j - n)].key
      BY <2>2, <2>3, <3>1
    <3> QED
      BY <1>7, <3>1, <3>2
  <2>4. CASE ~(i \in 1 .. n) /\ j \in 1 .. n
    <3>1. i - n \in 1 .. l /\ i = n + (i - n)
      BY <1>2, <2>4
    <3>2. w[j].key # w[n + (i - n)].key
      BY <2>2, <2>4, <3>1
    <3> QED
      BY <1>7, <3>1, <3>2
  <2>5. CASE ~(i \in 1 .. n) /\ ~(j \in 1 .. n)
    <3> DEFINE a == i - n
               b == j - n
    <3>1. a \in 1 .. l /\ b \in 1 .. l /\ i = n + a /\ j = n + b
      BY <1>2, <2>5
    <3> HIDE DEF a, b
    <3>2. w[i] = v[a] /\ w[j] = v[b]
      BY <1>2, <3>1
    <3>3. a = b
      BY <1>4, <1>7, <3>1, <3>2
    <3> QED
      BY <3>1, <3>3
  <2> QED
    BY <2>1, <2>3, <2>4, <2>5
<1>8. Lists(w, A \cup B)
  BY <1>1, <1>2, <1>5, <1>6, <1>7 DEF Lists
<1> QED
  BY <1>8 DEF w

LEMMA OneIsListed ==
  ASSUME NEW e \in Entries
  PROVE  Lists(<<e>>, {e})
BY DEF Lists

LEMMA NoneIsListed == Lists(<<>>, {})
BY DEF Lists

\* A list without its j-th entry.
LEMMA RemovedLists ==
  ASSUME NEW c, NEW A, Lists(c, A), NEW j \in 1 .. Len(c)
  PROVE  Lists(RemoveAt(c, j), A \ {c[j]})
<1> DEFINE u == SubSeq(c, 1, j - 1)
           v == SubSeq(c, j + 1, Len(c))
           U == {c[i] : i \in 1 .. j - 1}
           V == {c[i] : i \in j + 1 .. Len(c)}
<1>1. c \in Seq(Entries) /\ Len(c) \in Nat /\ j \in Nat /\ j - 1 \in Nat
  BY DEF Lists
<1>2. /\ u \in Seq(Entries) /\ Len(u) = j - 1
      /\ \A i \in 1 .. j - 1 : u[i] = c[i]
  BY <1>1
<1>3. /\ v \in Seq(Entries) /\ Len(v) = Len(c) - j
      /\ \A i \in 1 .. Len(c) - j : v[i] = c[j + i]
  BY <1>1
<1>4. /\ A \subseteq Entries
      /\ \A i \in 1 .. Len(c) : c[i] \in A
      /\ \A e \in A : \E i \in 1 .. Len(c) : c[i] = e
      /\ \A i, k \in 1 .. Len(c) : c[i].key = c[k].key => i = k
  BY DEF Lists
<1>5. U \cup V = A \ {c[j]}
  <2>1. ASSUME NEW i \in 1 .. Len(c), i # j PROVE c[i] # c[j] /\ c[i] \in A
    BY <1>4, <2>1
  <2>2. ASSUME NEW e \in A, e # c[j] PROVE e \in U \cup V
    <3>1. PICK i \in 1 .. Len(c) : c[i] = e
      BY <1>4
    <3>2. i \in 1 .. j - 1 \/ i \in j + 1 .. Len(c)
      BY <1>1, <2>2, <3>1
    <3> QED
      BY <3>1, <3>2
  <2>3. ASSUME NEW i \in 1 .. j - 1 PROVE i \in 1 .. Len(c) /\ i # j
    BY <1>1
  <2>4. ASSUME NEW i \in j + 1 .. Len(c) PROVE i \in 1 .. Len(c) /\ i # j
    BY <1>1
  <2>5. U \subseteq A \ {c[j]}
    BY <2>1, <2>3
  <2>6. V \subseteq A \ {c[j]}
    BY <2>1, <2>4
  <2> QED
    BY <2>2, <2>5, <2>6
<1>6. ASSUME NEW i \in 1 .. j - 1 PROVE i \in 1 .. Len(c)
  BY <1>1
<1>7. Lists(u, U)
  <2> HIDE DEF u
  <2>1. U \subseteq Entries
    BY <1>4, <1>6
  <2>2. \A i \in 1 .. Len(u) : u[i] \in U
    BY <1>2
  <2>3. \A e \in U : \E i \in 1 .. Len(u) : u[i] = e
    BY <1>2
  <2>4. \A i, k \in 1 .. Len(u) : u[i].key = u[k].key => i = k
    BY <1>2, <1>4, <1>6
  <2> QED
    BY <1>2, <2>1, <2>2, <2>3, <2>4 DEF Lists
<1>8. Lists(v, V)
  <2>1. ASSUME NEW i \in 1 .. Len(c) - j
        PROVE  j + i \in j + 1 .. Len(c) /\ j + i \in 1 .. Len(c)
    BY <1>1
  <2>2. ASSUME NEW i \in j + 1 .. Len(c)
        PROVE  i - j \in 1 .. Len(c) - j /\ i = j + (i - j) /\ i \in 1 .. Len(c)
    BY <1>1
  <2> HIDE DEF v
  <2>3. \A i \in 1 .. Len(v) : v[i] \in V
    BY <1>3, <2>1
  <2>4. ASSUME NEW e \in V PROVE \E i \in 1 .. Len(v) : v[i] = e
    <3>1. PICK i \in j + 1 .. Len(c) : e = c[i]
      OBVIOUS
    <3>2. v[i - j] = c[j + (i - j)]
      BY <1>3, <2>2
    <3> QED
      BY <1>3, <2>2, <3>1, <3>2
  <2>5. ASSUME NEW i \in 1 .. Len(v), NEW k \in 1 .. Len(v), v[i].key = v[k].key
        PROVE  i = k
    <3>1. v[i] = c[j + i] /\ v[k] = c[j + k]
      BY <1>3
    <3>2. j + i = j + k
      BY <1>3, <1>4, <2>1, <2>5, <3>1
    <3> QED
      BY <1>1, <1>3, <3>2
  <2>6. V \subseteq Entries
    BY <1>4, <2>2
  <2> QED
    BY <1>3, <2>3, <2>4, <2>5, <2>6 DEF Lists
<1>9. ASSUME NEW e \in U, NEW d \in V PROVE e.key # d.key
  <2>1. PICK i \in 1 .. j - 1 : e = c[i]
    OBVIOUS
  <2>2. PICK k \in j + 1 .. Len(c) : d = c[k]
    OBVIOUS
  <2>3. i # k /\ i \in 1 .. Len(c) /\ k \in 1 .. Len(c)
    BY <1>1
  <2> QED
    BY <1>4, <2>1, <2>2, <2>3
<1> HIDE DEF u, v, U, V
<1>10. Lists(u \o v, U \cup V)
  BY <1>7, <1>8, <1>9, JoinedLists
<1> QED
  BY <1>5, <1>10 DEF RemoveAt, u, v

\* A list whose j-th entry gets another value.
LEMMA ReplacedLists ==
  ASSUME NEW c, NEW A, Lists(c, A), NEW j \in 1 .. Len(c), NEW x \in Values
  PROVE  Lists([c EXCEPT ![j].value = x],
               (A \ {c[j]}) \cup {[key |-> c[j].key, value |-> x]})
<1> DEFINE n == [key |-> c[j].key, value |-> x]
           d == [c EXCEPT ![j] = n]
           B == (A \ {c[j]}) \cup {n}
<1>1. /\ c \in Seq(Entries) /\ A \subseteq Entries
      /\ \A i \in 1 .. Len(c) : c[i] \in A
      /\ \A e \in A : \E i \in 1 .. Len(c) : c[i] = e
      /\ \A i, k \in 1 .. Len(c) : c[i].key = c[k].key => i = k
  BY DEF Lists
<1>2. c[j] \in Entries
  BY <1>1
<1>3. [c EXCEPT ![j].value = x] = d
  <2>1. [c[j] EXCEPT !.value = x] = n
    BY <1>2 DEF Entries
  <2> QED
    BY <2>1
<1>4. n \in Entries /\ n.key = c[j].key
  BY <1>2 DEF Entries
<1> HIDE DEF n
<1>5. d \in Seq(Entries) /\ Len(d) = Len(c)
  BY <1>1, <1>4
<1>6. \A i \in 1 .. Len(c) : d[i] = IF i = j THEN n ELSE c[i]
  BY <1>1
<1> HIDE DEF d
<1>7. ASSUME NEW i \in 1 .. Len(d) PROVE d[i] \in B /\ d[i].key = c[i].key
  <2>1. CASE i = j
    BY <1>4, <1>5, <1>6, <2>1
  <2>2. CASE i # j
    <3>1. d[i] = c[i] /\ c[i] # c[j] /\ c[i] \in A
      BY <1>1, <1>5, <1>6, <2>2
    <3> QED
      BY <3>1
  <2> QED
    BY <2>1, <2>2
<1>8. ASSUME NEW e \in B PROVE \E i \in 1 .. Len(d) : d[i] = e
  <2>1. CASE e = n
    BY <1>5, <1>6, <2>1
  <2>2. CASE e # n
    <3>1. PICK i \in 1 .. Len(c) : c[i] = e
      BY <1>1, <2>2
    <3>2. i # j
      BY <2>2, <3>1
    <3> QED
      BY <1>5, <1>6, <3>1, <3>2
  <2> QED
    BY <2>1, <2>2
<1>9. B \subseteq Entries
  BY <1>1, <1>4
<1> HIDE DEF B
<1>10. ASSUME NEW i \in 1 .. Len(d), NEW k \in 1 .. Len(d), d[i].key = d[k].key
       PROVE  i = k
  BY <1>1, <1>5, <1>7, <1>10
<1>11. Lists(d, B)
  BY <1>5, <1>7, <1>8, <1>9, <1>10 DEF Lists
<1> QED
  BY <1>3, <1>11 DEF B, n

-----------------------------------------------------------------------------
(***************************************************************************)
(* Tables of `count' buckets that hold the entries E.                      *)
(***************************************************************************)
InBucket(count, E, i) == {e \in E : calculateIndex(count, e.key) = i}

Holds(count, table, E) ==
  /\ count \in Nat /\ count # 0 /\ E \subseteq Entries
  /\ table \in [0 .. count - 1 -> Seq(Entries)]
  /\ \A i \in 0 .. count - 1 : Lists(table[i], InBucket(count, E, i))

LEMMA IndexInTable ==
  ASSUME NEW count \in Nat, count # 0, NEW k \in Keys
  PROVE  calculateIndex(count, k) \in 0 .. count - 1
<1>1. hash[k] \in Nat
  BY HashmapAssumption
<1>2. \A h \in Nat : h % count \in 0 .. count - 1
  OBVIOUS
<1> QED
  BY <1>1, <1>2 DEF calculateIndex

LEMMA EntryFields ==
  /\ \A e \in Entries : e.key \in Keys /\ e.value \in Values
  /\ \A e \in Entries : e = [key |-> e.key, value |-> e.value]
  /\ \A k \in Keys, v \in Values : LET e == [key |-> k, value |-> v]
                                   IN e \in Entries /\ e.key = k /\ e.value = v
BY DEF Entries

\* An entry is in the bucket of its key, and no other entry has the key.
LEMMA HeldOnce ==
  ASSUME NEW count, NEW table, NEW E, Holds(count, table, E)
  PROVE  /\ \A e, d \in E : e.key = d.key => e = d
         /\ \A e \in E : \E j \in 1 .. Len(table[calculateIndex(count, e.key)]) :
              table[calculateIndex(count, e.key)][j] = e
         /\ \A i \in 0 .. count - 1 : \A j \in 1 .. Len(table[i]) :
              table[i][j] \in E /\ calculateIndex(count, table[i][j].key) = i
<1>1. count \in Nat /\ count # 0 /\ \A e \in E : e.key \in Keys
  BY EntryFields DEF Holds
<1>2. ASSUME NEW e \in E
      PROVE  /\ calculateIndex(count, e.key) \in 0 .. count - 1
             /\ e \in InBucket(count, E, calculateIndex(count, e.key))
  BY <1>1, IndexInTable DEF InBucket
<1>3. ASSUME NEW i \in 0 .. count - 1 PROVE Lists(table[i], InBucket(count, E, i))
  BY DEF Holds
<1>4. ASSUME NEW e \in E, NEW d \in E, e.key = d.key PROVE e = d
  <2> DEFINE i == calculateIndex(count, e.key)
  <2>1. i \in 0 .. count - 1 /\ e \in InBucket(count, E, i) /\ d \in InBucket(count, E, i)
    BY <1>2, <1>4
  <2> HIDE DEF i
  <2> QED
    BY <1>3, <1>4, <2>1 DEF Lists
<1>5. ASSUME NEW e \in E
      PROVE  \E j \in 1 .. Len(table[calculateIndex(count, e.key)]) :
               table[calculateIndex(count, e.key)][j] = e
  BY <1>2, <1>3 DEF Lists
<1>6. ASSUME NEW i \in 0 .. count - 1, NEW j \in 1 .. Len(table[i])
      PROVE  table[i][j] \in E /\ calculateIndex(count, table[i][j].key) = i
  <2>1. table[i][j] \in InBucket(count, E, i)
    BY <1>3 DEF Lists
  <2> QED
    BY <2>1 DEF InBucket
<1> QED
  BY <1>4, <1>5, <1>6

\* One chain is replaced.
LEMMA ChainChanges ==
  ASSUME NEW count, NEW table, NEW E, Holds(count, table, E),
         NEW i \in 0 .. count - 1, NEW c, NEW B, Lists(c, B),
         \A e \in B : calculateIndex(count, e.key) = i
  PROVE  Holds(count, [table EXCEPT ![i] = c], (E \ InBucket(count, E, i)) \cup B)
<1> DEFINE t2 == [table EXCEPT ![i] = c]
           E2 == (E \ InBucket(count, E, i)) \cup B
<1>1. B \subseteq Entries /\ c \in Seq(Entries) /\ E \subseteq Entries
      /\ count \in Nat /\ count # 0 /\ table \in [0 .. count - 1 -> Seq(Entries)]
  BY DEF Holds, Lists
<1>2. E2 \subseteq Entries /\ t2 \in [0 .. count - 1 -> Seq(Entries)]
  BY <1>1
<1>3. ASSUME NEW l \in 0 .. count - 1 PROVE Lists(t2[l], InBucket(count, E2, l))
  <2>1. CASE l = i
    <3>1. InBucket(count, E2, l) = B
      BY <2>1 DEF InBucket
    <3> QED
      BY <1>1, <2>1, <3>1
  <2>2. CASE l # i
    <3>1. InBucket(count, E2, l) = InBucket(count, E, l)
      BY <2>2 DEF InBucket
    <3>2. t2[l] = table[l]
      BY <1>1, <2>2
    <3> QED
      BY <3>1, <3>2 DEF Holds
  <2> QED
    BY <2>1, <2>2
<1> QED
  BY <1>1, <1>2, <1>3 DEF Holds

\* An entry comes to its chain in front, or at the end.
LEMMA EntryAdded ==
  ASSUME NEW count, NEW table, NEW E, Holds(count, table, E),
         NEW e \in Entries, \A d \in E : d.key # e.key
  PROVE  /\ Holds(count, Moved(table, count, e), E \cup {e})
         /\ Holds(count, [table EXCEPT ![calculateIndex(count, e.key)] = Append(@, e)],
                  E \cup {e})
<1> DEFINE i == calculateIndex(count, e.key)
           c == table[i]
           A == InBucket(count, E, i)
<1>1. i \in 0 .. count - 1 /\ E \subseteq Entries
  BY EntryFields, IndexInTable DEF Holds
<1>2. Lists(c, A) /\ c \in Seq(Entries)
  BY <1>1 DEF Holds, Lists
<1>3. \A d \in A : d.key # e.key /\ calculateIndex(count, d.key) = i
  BY DEF InBucket
<1>4. \A d \in {e} \cup A : calculateIndex(count, d.key) = i
  BY <1>3
<1>5. (E \ A) \cup ({e} \cup A) = E \cup {e}
  BY DEF InBucket
<1>6. Lists(<<e>> \o c, {e} \cup A)
  <2> HIDE DEF c, A
  <2> QED
    BY <1>2, <1>3, OneIsListed, JoinedLists
<1>7. Lists(c \o <<e>>, A \cup {e})
  <2> HIDE DEF c, A
  <2> QED
    BY <1>2, <1>3, OneIsListed, JoinedLists
<1>8. Append(c, e) = c \o <<e>>
  BY <1>2
<1>9. A \cup {e} = {e} \cup A
  OBVIOUS
<1>10. Moved(table, count, e) = [table EXCEPT ![i] = <<e>> \o c]
  BY DEF Moved
<1>11. [table EXCEPT ![i] = Append(@, e)] = [table EXCEPT ![i] = c \o <<e>>]
  BY <1>8
<1>12. Holds(count, [table EXCEPT ![i] = <<e>> \o c], (E \ A) \cup ({e} \cup A))
  <2> HIDE DEF c, i
  <2> QED
    BY <1>1, <1>4, <1>6, ChainChanges
<1>13. Holds(count, [table EXCEPT ![i] = c \o <<e>>], (E \ A) \cup ({e} \cup A))
  <2>1. Lists(c \o <<e>>, {e} \cup A)
    BY <1>7, <1>9
  <2> HIDE DEF c, i
  <2> QED
    BY <1>1, <1>4, <2>1, ChainChanges
<1> QED
  BY <1>5, <1>10, <1>11, <1>12, <1>13

\* An entry goes, or gets another value.
LEMMA EntryChanged ==
  ASSUME NEW count, NEW table, NEW E, Holds(count, table, E),
         NEW i \in 0 .. count - 1, NEW j \in 1 .. Len(table[i])
  PROVE  LET e == table[i][j]
         IN /\ Holds(count, [table EXCEPT ![i] = RemoveAt(@, j)], E \ {e})
            /\ \A v \in Values :
                 Holds(count, [table EXCEPT ![i][j].value = v],
                       (E \ {e}) \cup {[key |-> e.key, value |-> v]})
<1> DEFINE c == table[i]
           e == c[j]
           A == InBucket(count, E, i)
<1>1. Lists(c, A) /\ c \in Seq(Entries) /\ e \in A
  BY DEF Holds, Lists
<1>2. e \in E /\ calculateIndex(count, e.key) = i /\ E \subseteq Entries /\ e \in Entries
  BY <1>1 DEF InBucket, Holds
<1>3. Holds(count, [table EXCEPT ![i] = RemoveAt(@, j)], E \ {e})
  <2>1. (E \ A) \cup (A \ {e}) = E \ {e}
    BY <1>1 DEF InBucket
  <2>2. Lists(RemoveAt(c, j), A \ {e})
    <3> HIDE DEF A
    <3> QED
      BY <1>1, RemovedLists
  <2>3. \A d \in A \ {e} : calculateIndex(count, d.key) = i
    BY DEF InBucket
  <2>4. Holds(count, [table EXCEPT ![i] = RemoveAt(c, j)], (E \ A) \cup (A \ {e}))
    <3> HIDE DEF c, e
    <3> QED
      BY <2>2, <2>3, ChainChanges
  <2> QED
    BY <2>1, <2>4
<1>4. ASSUME NEW v \in Values
      PROVE  Holds(count, [table EXCEPT ![i][j].value = v],
                   (E \ {e}) \cup {[key |-> e.key, value |-> v]})
  <2> DEFINE n == [key |-> e.key, value |-> v]
             B == (A \ {e}) \cup {n}
  <2>1. n.key = e.key
    OBVIOUS
  <2>2. (E \ A) \cup B = (E \ {e}) \cup {n}
    BY <1>1 DEF InBucket
  <2>3. Lists([c EXCEPT ![j].value = v], B)
    <3> HIDE DEF A
    <3> QED
      BY <1>1, ReplacedLists
  <2>4. \A d \in B : calculateIndex(count, d.key) = i
    BY <1>2, <2>1 DEF InBucket
  <2>5. [table EXCEPT ![i][j].value = v] = [table EXCEPT ![i] = [c EXCEPT ![j].value = v]]
    OBVIOUS
  <2>6. Holds(count, [table EXCEPT ![i] = [c EXCEPT ![j].value = v]], (E \ A) \cup B)
    <3> HIDE DEF c, e, B
    <3> QED
      BY <2>3, <2>4, ChainChanges
  <2> QED
    BY <2>2, <2>5, <2>6
<1> QED
  BY <1>3, <1>4

-----------------------------------------------------------------------------
(***************************************************************************)
(* The loops over all buckets.                                             *)
(***************************************************************************)

\* A walk goes through the buckets one after the other.
LEMMA WalkStepwise ==
  ASSUME NEW count \in Nat, NEW table \in [0 .. count - 1 -> Seq(Entries)]
  PROVE  \E f : /\ f \in [0 .. count -> Seq(Entries)] /\ f[0] = <<>>
                /\ \A n \in 1 .. count : f[n] = f[n - 1] \o table[n - 1]
                /\ Walk(count, table) = f[count]
<1> DEFINE S == Seq(Entries)
           step == [p \in (1 .. count) \X S |-> p[2] \o table[p[1] - 1]]
           IsWalk(f) == f = [n \in 0 .. count |->
                               IF n = 0 THEN <<>> ELSE f[n - 1] \o table[n - 1]]
<1>1. \A n \in 1 .. count : n - 1 \in 0 .. count - 1 /\ n # 0
  OBVIOUS
<1>2. \A p \in (1 .. count) \X S : p[2] \o table[p[1] - 1] \in S
  <2> SUFFICES ASSUME NEW p \in (1 .. count) \X S PROVE p[2] \o table[p[1] - 1] \in S
    OBVIOUS
  <2>1. p[1] \in 1 .. count /\ p[2] \in S /\ table[p[1] - 1] \in S
    BY <1>1
  <2> QED
    BY <2>1
<1>3. step \in [(1 .. count) \X S -> S] /\ <<>> \in S
  BY <1>2
<1>4. \A n \in 1 .. count, x \in S : step[<<n, x>>] = x \o table[n - 1]
  OBVIOUS
<1> HIDE DEF step, S
<1>5. PICK g : Iterates(g, count, S, <<>>, step)
  BY <1>3, Recursion
<1>6. \A n \in 1 .. count : g[n - 1] \in S
  BY <1>5 DEF Iterates
<1>7. IsWalk(g)
  <2>1. ASSUME NEW n \in 0 .. count
        PROVE  g[n] = IF n = 0 THEN <<>> ELSE g[n - 1] \o table[n - 1]
    <3>1. CASE n = 0
      BY <1>5, <3>1 DEF Iterates
    <3>2. CASE n # 0
      <4>1. n \in 1 .. count
        BY <3>2
      <4>2. g[n] = step[<<n, g[n - 1]>>]
        BY <1>5, <4>1 DEF Iterates
      <4> QED
        BY <1>4, <1>6, <3>2, <4>1, <4>2
    <3> QED
      BY <3>1, <3>2
  <2>2. g = [n \in 0 .. count |-> g[n]]
    BY <1>5 DEF Iterates
  <2> QED
    BY <2>1, <2>2
<1> DEFINE f == CHOOSE h : IsWalk(h)
<1>8. IsWalk(f)
  BY <1>7
<1>9. Walk(count, table) = f[count]
  BY DEF Walk
<1> HIDE DEF f
<1>10. DOMAIN f = 0 .. count /\ f[0] = <<>>
  BY <1>8
<1>11. ASSUME NEW n \in 1 .. count PROVE f[n] = f[n - 1] \o table[n - 1]
  <2>1. n \in 0 .. count /\ n # 0
    OBVIOUS
  <2>2. f[n] = IF n = 0 THEN <<>> ELSE f[n - 1] \o table[n - 1]
    BY <1>8, <2>1
  <2> QED
    BY <2>1, <2>2
<1> HIDE DEF IsWalk
<1>12. 0 .. count \subseteq {n \in 0 .. count : f[n] \in S}
  <2> DEFINE T == {n \in 0 .. count : f[n] \in S}
  <2>1. 0 \in T
    <3>1. f[0] \in S
      BY <1>10 DEF S
    <3>2. 0 \in 0 .. count
      OBVIOUS
    <3> QED
      BY <3>1, <3>2
  <2>2. ASSUME NEW n \in 0 .. count - 1, n \in T PROVE n + 1 \in T
    <3>1. n + 1 \in 1 .. count /\ (n + 1) - 1 = n
      OBVIOUS
    <3>2. f[n + 1] = f[n] \o table[n]
      BY <1>11, <3>1
    <3>3. f[n] \in S /\ table[n] \in S
      BY <2>2 DEF S
    <3>4. f[n + 1] \in S
      BY <3>2, <3>3 DEF S
    <3>5. n + 1 \in 0 .. count
      BY <3>1
    <3> QED
      BY <3>4, <3>5
  <2> HIDE DEF T
  <2>3. 0 .. count \subseteq T
    BY <2>1, <2>2, InductiveUpTo
  <2> QED
    BY <2>3 DEF T
<1>13. f \in [0 .. count -> S]
  <2>1. f = [n \in 0 .. count |-> f[n]]
    BY <1>8, <1>10 DEF IsWalk
  <2> QED
    BY <1>12, <2>1
<1> QED
  BY <1>9, <1>10, <1>11, <1>13 DEF S

\* It meets every entry once.
LEMMA WalkLists ==
  ASSUME NEW count, NEW table, NEW E, Holds(count, table, E)
  PROVE  Lists(Walk(count, table), E)
<1>1. /\ count \in Nat /\ E \subseteq Entries
      /\ table \in [0 .. count - 1 -> Seq(Entries)]
      /\ \A i \in 0 .. count - 1 : Lists(table[i], InBucket(count, E, i))
      /\ \A e \in E : calculateIndex(count, e.key) \in 0 .. count - 1
  BY EntryFields, IndexInTable DEF Holds
<1>2. PICK f : /\ f[0] = <<>>
               /\ \A n \in 1 .. count : f[n] = f[n - 1] \o table[n - 1]
               /\ Walk(count, table) = f[count]
  BY <1>1, WalkStepwise
<1> DEFINE Before(n) == {e \in E : calculateIndex(count, e.key) < n}
           T == {n \in 0 .. count : Lists(f[n], Before(n))}
<1>3. 0 \in T
  <2>1. Before(0) = {}
    BY <1>1
  <2>2. Lists(f[0], Before(0))
    BY <1>2, <2>1, NoneIsListed
  <2>3. 0 \in 0 .. count
    BY <1>1
  <2> HIDE DEF Before
  <2> QED
    BY <2>2, <2>3
<1>4. ASSUME NEW n \in 0 .. count - 1, n \in T PROVE n + 1 \in T
  <2>1. n + 1 \in 1 .. count /\ (n + 1) - 1 = n
    BY <1>1
  <2>2. f[n + 1] = f[n] \o table[n]
    BY <1>2, <2>1
  <2>3. Before(n + 1) = Before(n) \cup InBucket(count, E, n)
    BY <1>1 DEF InBucket
  <2>4. \A e \in Before(n), d \in InBucket(count, E, n) : e.key # d.key
    <3> SUFFICES ASSUME NEW e \in Before(n), NEW d \in InBucket(count, E, n), e.key = d.key
                 PROVE  FALSE
      OBVIOUS
    <3>1. calculateIndex(count, e.key) = n /\ calculateIndex(count, e.key) < n
      BY DEF InBucket
    <3> QED
      BY <3>1
  <2>5. Lists(f[n], Before(n)) /\ Lists(table[n], InBucket(count, E, n))
    BY <1>1, <1>4
  <2> HIDE DEF Before
  <2>6. Lists(f[n] \o table[n], Before(n) \cup InBucket(count, E, n))
    BY <2>4, <2>5, JoinedLists
  <2>7. Lists(f[n + 1], Before(n + 1))
    BY <2>2, <2>3, <2>6
  <2>8. n + 1 \in 0 .. count
    BY <1>1, <2>1
  <2> QED
    BY <2>7, <2>8
<1> HIDE DEF T
<1>5. 0 .. count \subseteq T
  BY <1>1, <1>3, <1>4, InductiveUpTo
<1>6. Lists(f[count], Before(count))
  <2>1. count \in T
    BY <1>1, <1>5
  <2> HIDE DEF Before
  <2> QED
    BY <2>1 DEF T
<1>7. Before(count) = E
  BY <1>1
<1> QED
  BY <1>2, <1>6, <1>7

\* New buckets hold what has been moved into them.
LEMMA EmptyHolds ==
  ASSUME NEW count \in Nat, count # 0
  PROVE  Holds(count, EmptyTable(count), {})
<1>1. EmptyTable(count) \in [0 .. count - 1 -> Seq(Entries)]
  BY DEF EmptyTable
<1>2. ASSUME NEW i \in 0 .. count - 1
      PROVE  Lists(EmptyTable(count)[i], InBucket(count, {}, i))
  <2>1. EmptyTable(count)[i] = <<>> /\ InBucket(count, {}, i) = {}
    BY DEF EmptyTable, InBucket
  <2> QED
    BY <2>1, NoneIsListed
<1> QED
  BY <1>1, <1>2 DEF Holds

LEMMA MoveStepwise ==
  ASSUME NEW count \in Nat, count # 0, NEW all \in Seq(Entries)
  PROVE  \E f : /\ f[0] = EmptyTable(count)
                /\ \A n \in 1 .. Len(all) : f[n] = Moved(f[n - 1], count, all[n])
                /\ MoveOver(count, all) = f[Len(all)]
<1> DEFINE N == Len(all)
           S == [0 .. count - 1 -> Seq(Entries)]
           step == [p \in (1 .. N) \X S |-> Moved(p[2], count, all[p[1]])]
           IsMove(f) == f = [n \in 0 .. N |->
                  IF n = 0 THEN EmptyTable(count) ELSE Moved(f[n - 1], count, all[n])]
<1>1. N \in Nat /\ (\A n \in 1 .. N : all[n] \in Entries /\ n # 0) /\ EmptyTable(count) \in S
  BY DEF EmptyTable
<1>2. ASSUME NEW x \in S, NEW e \in Entries PROVE Moved(x, count, e) \in S
  <2>1. calculateIndex(count, e.key) \in 0 .. count - 1
    BY EntryFields, IndexInTable
  <2>2. <<e>> \o x[calculateIndex(count, e.key)] \in Seq(Entries)
    BY <2>1
  <2> QED
    BY <2>1, <2>2 DEF Moved
<1>3. \A p \in (1 .. N) \X S : Moved(p[2], count, all[p[1]]) \in S
  <2> HIDE DEF N, S
  <2> QED
    BY <1>1, <1>2
<1>4. step \in [(1 .. N) \X S -> S]
  BY <1>3
<1>5. \A n \in 1 .. N, x \in S : step[<<n, x>>] = Moved(x, count, all[n])
  OBVIOUS
<1> HIDE DEF step, S, N
<1>6. PICK g : Iterates(g, N, S, EmptyTable(count), step)
  BY <1>1, <1>4, Recursion
<1>7. \A n \in 1 .. N : g[n - 1] \in S
  BY <1>1, <1>6 DEF Iterates
<1>8. IsMove(g)
  <2>1. ASSUME NEW n \in 0 .. N
        PROVE  g[n] = IF n = 0 THEN EmptyTable(count) ELSE Moved(g[n - 1], count, all[n])
    <3>1. CASE n = 0
      BY <1>6, <3>1 DEF Iterates
    <3>2. CASE n # 0
      <4>1. n \in 1 .. N
        BY <1>1, <3>2
      <4>2. g[n] = step[<<n, g[n - 1]>>]
        BY <1>6, <4>1 DEF Iterates
      <4> QED
        BY <1>5, <1>7, <3>2, <4>1, <4>2
    <3> QED
      BY <3>1, <3>2
  <2>2. g = [n \in 0 .. N |-> g[n]]
    BY <1>6 DEF Iterates
  <2> QED
    BY <2>1, <2>2
<1> DEFINE f == CHOOSE h : IsMove(h)
<1>9. IsMove(f)
  BY <1>8
<1>10. MoveOver(count, all) = f[N]
  BY DEF MoveOver, N
<1> HIDE DEF f
<1>11. f[0] = EmptyTable(count)
  BY <1>1, <1>9
<1>12. \A n \in 1 .. N : f[n] = Moved(f[n - 1], count, all[n])
  BY <1>1, <1>9
<1> QED
  BY <1>10, <1>11, <1>12 DEF N

LEMMA MoveOverHolds ==
  ASSUME NEW count \in Nat, count # 0, NEW all, NEW E, Lists(all, E)
  PROVE  Holds(count, MoveOver(count, all), E)
<1>1. /\ all \in Seq(Entries) /\ Len(all) \in Nat
      /\ \A j \in 1 .. Len(all) : all[j] \in Entries /\ all[j] \in E
      /\ \A e \in E : \E j \in 1 .. Len(all) : all[j] = e
      /\ \A i, j \in 1 .. Len(all) : all[i].key = all[j].key => i = j
  BY DEF Lists
<1>2. PICK f : /\ f[0] = EmptyTable(count)
               /\ \A n \in 1 .. Len(all) : f[n] = Moved(f[n - 1], count, all[n])
               /\ MoveOver(count, all) = f[Len(all)]
  BY <1>1, MoveStepwise
<1> DEFINE First(n) == {all[j] : j \in 1 .. n}
           T == {n \in 0 .. Len(all) : Holds(count, f[n], First(n))}
<1>3. 0 \in T
  <2>1. First(0) = {}
    OBVIOUS
  <2>2. Holds(count, f[0], First(0))
    BY <1>2, <2>1, EmptyHolds
  <2>3. 0 \in 0 .. Len(all)
    BY <1>1
  <2> HIDE DEF First
  <2> QED
    BY <2>2, <2>3
<1>4. ASSUME NEW n \in 0 .. Len(all) - 1, n \in T PROVE n + 1 \in T
  <2>1. n + 1 \in 1 .. Len(all) /\ (n + 1) - 1 = n
    BY <1>1
  <2>2. f[n + 1] = Moved(f[n], count, all[n + 1])
    BY <1>2, <2>1
  <2>3. First(n + 1) = First(n) \cup {all[n + 1]}
    <3>1. 1 .. n + 1 = 1 .. n \cup {n + 1}
      BY <1>1
    <3> QED
      BY <3>1
  <2>4. \A d \in First(n) : d.key # all[n + 1].key
    <3> SUFFICES ASSUME NEW j \in 1 .. n PROVE all[j].key # all[n + 1].key
      OBVIOUS
    <3>1. j \in 1 .. Len(all) /\ j # n + 1
      BY <1>1
    <3> QED
      BY <1>1, <2>1, <3>1
  <2>5. all[n + 1] \in Entries /\ Holds(count, f[n], First(n))
    BY <1>1, <1>4, <2>1
  <2> HIDE DEF First
  <2>6. Holds(count, Moved(f[n], count, all[n + 1]), First(n) \cup {all[n + 1]})
    BY <2>4, <2>5, EntryAdded
  <2>7. Holds(count, f[n + 1], First(n + 1))
    BY <2>2, <2>3, <2>6
  <2>8. n + 1 \in 0 .. Len(all)
    BY <1>1, <2>1
  <2> QED
    BY <2>7, <2>8
<1> HIDE DEF T
<1>5. 0 .. Len(all) \subseteq T
  BY <1>1, <1>3, <1>4, InductiveUpTo
<1>6. Holds(count, f[Len(all)], First(Len(all)))
  <2>1. Len(all) \in T
    BY <1>1, <1>5
  <2> HIDE DEF First
  <2> QED
    BY <2>1 DEF T
<1>7. First(Len(all)) = E
  BY <1>1
<1> QED
  BY <1>2, <1>6, <1>7

-----------------------------------------------------------------------------
(***************************************************************************)
(* The numbers of buckets.                                                 *)
(***************************************************************************)
Doubles(g, n) == g \in [0 .. n -> Nat] /\ g[0] = 1 /\ \A i \in 1 .. n : g[i] = 2 * g[i - 1]

LEMMA DoublesAlike ==
  ASSUME NEW m \in Nat, NEW n \in Nat, m <= n, NEW f, Doubles(f, m), NEW g, Doubles(g, n)
  PROVE  \A i \in 0 .. m : f[i] = g[i]
<1> DEFINE T == {i \in 0 .. m : f[i] = g[i]}
<1>1. 0 \in T
  BY DEF Doubles
<1>2. ASSUME NEW i \in 0 .. m - 1, i \in T PROVE i + 1 \in T
  <2>1. i + 1 \in 1 .. m /\ i + 1 \in 1 .. n /\ (i + 1) - 1 = i
    OBVIOUS
  <2>2. f[i + 1] = 2 * f[i] /\ g[i + 1] = 2 * g[i]
    BY <2>1 DEF Doubles
  <2> QED
    BY <1>2, <2>1, <2>2
<1> HIDE DEF T
<1>3. 0 .. m \subseteq T
  BY <1>1, <1>2, InductiveUpTo
<1> QED
  BY <1>3 DEF T

LEMMA DoublesExist ==
  ASSUME NEW n \in Nat
  PROVE  \E g : Doubles(g, n)
<1> DEFINE step == [p \in (1 .. n) \X Nat |-> 2 * p[2]]
<1>1. step \in [(1 .. n) \X Nat -> Nat]
  OBVIOUS
<1>2. \A i \in 1 .. n, x \in Nat : step[<<i, x>>] = 2 * x
  OBVIOUS
<1> HIDE DEF step
<1>3. PICK g : Iterates(g, n, Nat, 1, step)
  BY <1>1, Recursion
<1>4. ASSUME NEW i \in 1 .. n PROVE g[i] = 2 * g[i - 1]
  <2>1. g[i - 1] \in Nat /\ g[i] = step[<<i, g[i - 1]>>]
    BY <1>3 DEF Iterates
  <2> QED
    BY <1>2, <2>1
<1> QED
  BY <1>3, <1>4 DEF Iterates, Doubles

LEMMA PowerStepwise ==
  /\ PowerOf2[0] = 1
  /\ \A i \in Nat : PowerOf2[i] \in Nat /\ PowerOf2[i + 1] = 2 * PowerOf2[i]
<1> DEFINE G(n) == CHOOSE g : Doubles(g, n)
           h == [n \in Nat |-> G(n)[n]]
           IsPower(f) == f = [i \in Nat |-> IF i = 0 THEN 1 ELSE 2 * f[i - 1]]
<1>1. ASSUME NEW n \in Nat PROVE Doubles(G(n), n)
  BY DoublesExist
<1> HIDE DEF G
<1>2. \A n \in Nat : h[n] = G(n)[n]
  OBVIOUS
<1>3. ASSUME NEW n \in Nat PROVE h[n] = IF n = 0 THEN 1 ELSE 2 * h[n - 1]
  <2>1. CASE n = 0
    BY <1>1, <1>2, <2>1 DEF Doubles
  <2>2. CASE n # 0
    <3>1. n - 1 \in Nat /\ n - 1 <= n /\ n \in 1 .. n /\ n - 1 \in 0 .. n - 1
      BY <2>2
    <3>2. G(n)[n] = 2 * G(n)[n - 1]
      BY <1>1, <3>1 DEF Doubles
    <3>3. G(n - 1)[n - 1] = G(n)[n - 1]
      BY <1>1, <3>1, DoublesAlike
    <3> HIDE DEF h
    <3> QED
      BY <1>2, <2>2, <3>1, <3>2, <3>3
  <2> QED
    BY <2>1, <2>2
<1>4. IsPower(h)
  <2>1. h = [n \in Nat |-> h[n]]
    OBVIOUS
  <2> HIDE DEF h
  <2> QED
    BY <1>3, <2>1
<1> HIDE DEF h
<1>5. IsPower(PowerOf2)
  <2>1. PowerOf2 = CHOOSE f : IsPower(f)
    BY DEF PowerOf2
  <2> HIDE DEF IsPower
  <2> QED
    BY <1>4, <2>1
<1>6. PowerOf2[0] = 1
  BY <1>5
<1>7. ASSUME NEW i \in Nat PROVE PowerOf2[i + 1] = 2 * PowerOf2[i]
  <2>1. i + 1 \in Nat /\ i + 1 # 0 /\ (i + 1) - 1 = i
    OBVIOUS
  <2>2. PowerOf2[i + 1] = IF i + 1 = 0 THEN 1 ELSE 2 * PowerOf2[(i + 1) - 1]
    BY <1>5, <2>1
  <2> QED
    BY <2>1, <2>2
<1> HIDE DEF IsPower
<1>8. Nat \subseteq {i \in Nat : PowerOf2[i] \in Nat}
  <2> DEFINE T == {i \in Nat : PowerOf2[i] \in Nat}
  <2>1. 0 \in T
    BY <1>6
  <2>2. ASSUME NEW i \in Nat, i \in T PROVE i + 1 \in T
    BY <1>7, <2>2
  <2> HIDE DEF T
  <2>3. Nat \subseteq T
    BY <2>1, <2>2, InductiveSet
  <2> QED
    BY <2>3 DEF T
<1> QED
  BY <1>6, <1>7, <1>8

\* A table of PowerOf2[i] buckets has room for i entries before it must grow.
LEMMA PowerGrows ==
  ASSUME NEW i \in Nat
  PROVE  /\ PowerOf2[i] \in Nat /\ PowerOf2[i] # 0
         /\ 3 * PowerOf2[i] >= 4 * i
<1> DEFINE T == {n \in Nat : PowerOf2[n] \in Nat /\ PowerOf2[n] # 0 /\ 3 * PowerOf2[n] >= 4 * n}
<1>1. 0 \in T
  BY PowerStepwise
<1>2. ASSUME NEW n \in Nat, n \in T PROVE n + 1 \in T
  <2>1. /\ PowerOf2[n] \in Nat /\ PowerOf2[n] # 0 /\ 3 * PowerOf2[n] >= 4 * n
        /\ PowerOf2[n + 1] = 2 * PowerOf2[n] /\ PowerOf2[n + 1] \in Nat
    BY <1>2, PowerStepwise
  <2>2. \A p \in Nat : p # 0 /\ 3 * p >= 4 * n => 3 * (2 * p) >= 4 * (n + 1)
    OBVIOUS
  <2>3. 3 * PowerOf2[n + 1] >= 4 * (n + 1) /\ PowerOf2[n + 1] # 0
    BY <2>1, <2>2
  <2> QED
    BY <2>1, <2>3
<1> HIDE DEF T
<1>3. Nat \subseteq T
  BY <1>1, <1>2, InductiveSet
<1> QED
  BY <1>3 DEF T

\* hashmapCreate finds its number of buckets.
LEMMA FirstCount ==
  LET m == (initialCapacity * 4) \div 3
  IN \E i \in 0 .. initialCapacity + 1 :
       PowerOf2[i] > m /\ (PowerOf2[i] = 1 \/ PowerOf2[i] \div 2 <= m)
<1> DEFINE m == (initialCapacity * 4) \div 3
           T == {i \in Nat : PowerOf2[i] > m}
<1>1. initialCapacity \in Nat /\ initialCapacity + 1 \in Nat
  BY HashmapAssumption
<1>2. m \in Nat /\ 3 * m <= 4 * initialCapacity
  BY <1>1
<1> HIDE DEF m
<1>3. initialCapacity + 1 \in T
  <2>1. /\ PowerOf2[initialCapacity + 1] \in Nat
        /\ 3 * PowerOf2[initialCapacity + 1] >= 4 * (initialCapacity + 1)
    BY <1>1, PowerGrows
  <2>2. PowerOf2[initialCapacity + 1] > m
    BY <1>1, <1>2, <2>1
  <2> QED
    BY <1>1, <2>2
<1>4. PICK i \in T : \A j \in T : i <= j
  BY <1>3, LeastOf
<1>5. i \in 0 .. initialCapacity + 1 /\ PowerOf2[i] > m
  BY <1>1, <1>3, <1>4
<1>6. CASE i = 0
  BY <1>5, <1>6, PowerStepwise DEF m
<1>7. CASE i # 0
  <2>1. i - 1 \in Nat /\ (i - 1) + 1 = i /\ ~(i <= i - 1)
    BY <1>5, <1>7
  <2>2. ~(PowerOf2[i - 1] > m)
    BY <1>4, <2>1
  <2>3. PowerOf2[i] = 2 * PowerOf2[i - 1] /\ PowerOf2[i - 1] \in Nat
    BY <2>1, PowerStepwise
  <2>4. PowerOf2[i] \div 2 = PowerOf2[i - 1]
    BY <2>3
  <2>5. PowerOf2[i] \div 2 <= m
    BY <1>2, <2>2, <2>3, <2>4
  <2> QED
    BY <1>5, <2>5 DEF m
<1> QED
  BY <1>6, <1>7

-----------------------------------------------------------------------------
(***************************************************************************)
(* Looking for a key.                                                      *)
(***************************************************************************)
IsFirst(j, c, k) ==
  \/ j = 0 /\ \A i \in 1 .. Len(c) : c[i].key # k
  \/ j \in 1 .. Len(c) /\ c[j].key = k /\ j # 0

LEMMA FirstWithKey ==
  ASSUME NEW c \in Seq(Entries), NEW k
  PROVE  LET j == SelectInSeq(c, LAMBDA e : e.key = k)
         IN IsFirst(j, c, k)
<1> DEFINE I == {i \in 1 .. Len(c) : c[i].key = k}
           j == IF I # {} THEN Min(I) ELSE 0
<1>1. SelectInSeq(c, LAMBDA e : e.key = k) = j
  BY DEF SelectInSeq
<1>2. ASSUME I = {} PROVE j = 0 /\ \A i \in 1 .. Len(c) : c[i].key # k
  BY <1>2
<1>3. ASSUME I # {} PROVE j \in 1 .. Len(c) /\ c[j].key = k /\ j # 0
  <2>1. I \subseteq Nat
    OBVIOUS
  <2>2. \E x \in I : \A y \in I : x =< y
    BY <1>3, <2>1, LeastOf
  <2>3. Min(I) \in I
    BY <2>2 DEF Min
  <2> QED
    BY <1>3, <2>3
<1> HIDE DEF j
<1>4. \/ j = 0 /\ \A i \in 1 .. Len(c) : c[i].key # k
      \/ j \in 1 .. Len(c) /\ c[j].key = k /\ j # 0
  BY <1>2, <1>3
<1> QED
  BY <1>1, <1>4 DEF IsFirst

LEMMA FindFinds ==
  ASSUME NEW E, Holds(bucketCount, buckets, E), NEW k \in Keys
  PROVE  LET i == calculateIndex(bucketCount, k)
         IN /\ i \in 0 .. bucketCount - 1
            /\ \/ Find(k) = 0 /\ \A e \in E : e.key # k
               \/ /\ Find(k) # 0 /\ Find(k) \in 1 .. Len(buckets[i])
                  /\ buckets[i][Find(k)] \in E /\ buckets[i][Find(k)].key = k
<1> DEFINE i == calculateIndex(bucketCount, k)
           c == buckets[i]
<1>1. /\ bucketCount \in Nat /\ bucketCount # 0
      /\ buckets \in [0 .. bucketCount - 1 -> Seq(Entries)]
  BY DEF Holds
<1>2. i \in 0 .. bucketCount - 1
  BY <1>1, IndexInTable
<1>3. c \in Seq(Entries)
  BY <1>1, <1>2
<1>4. Find(k) = SelectInSeq(c, LAMBDA e : e.key = k)
  BY DEF Find, Chain
<1>5. \/ Find(k) = 0 /\ \A j \in 1 .. Len(c) : c[j].key # k
      \/ Find(k) \in 1 .. Len(c) /\ c[Find(k)].key = k /\ Find(k) # 0
  <2> HIDE DEF c
  <2>1. IsFirst(SelectInSeq(c, LAMBDA e : e.key = k), c, k)
    BY <1>3, FirstWithKey
  <2> QED
    BY <1>4, <2>1 DEF IsFirst
<1>6. ASSUME \A j \in 1 .. Len(c) : c[j].key # k PROVE \A e \in E : e.key # k
  <2> SUFFICES ASSUME NEW e \in E, e.key = k PROVE FALSE
    OBVIOUS
  <2>1. \E j \in 1 .. Len(c) : c[j] = e
    BY HeldOnce
  <2> QED
    BY <1>6, <2>1
<1>7. \A j \in 1 .. Len(c) : c[j] \in E
  BY <1>2, HeldOnce
<1> QED
  BY <1>2, <1>5, <1>6, <1>7

-----------------------------------------------------------------------------
(***************************************************************************)
(* The invariant: the table holds some set of entries, as many as `size',  *)
(* and has a number of buckets that doubling has reached.                  *)
(***************************************************************************)
CountOK == bucketCount \in {PowerOf2[i] : i \in 0 .. initialCapacity + Cardinality(Keys) + 1}

MapHolds(E) ==
  /\ Holds(bucketCount, buckets, E)
  /\ IsFiniteSet(E) /\ size = Cardinality(E)

MapInv == CountOK /\ \E E : MapHolds(E)

\* Entries with different keys are as many as their keys, and no more than Keys.
LEMMA EntriesAreCounted ==
  ASSUME NEW E, E \subseteq Entries, IsFiniteSet(E), \A e, d \in E : e.key = d.key => e = d
  PROVE  /\ Cardinality(E) \in 0 .. Cardinality(Keys) /\ Cardinality(Keys) \in Nat
         /\ Cardinality({e.key : e \in E}) = Cardinality(E)
<1> DEFINE D == {e.key : e \in E}
           f == [e \in E |-> e.key]
<1>1. f \in Bijection(E, D)
  BY DEF Bijection, Injection, Surjection, IsInjective
<1>2. IsFiniteSet(D) /\ Cardinality(D) = Cardinality(E)
  BY <1>1, FS_Bijection DEF ExistsBijection
<1>3. D \subseteq Keys
  BY EntryFields
<1>4. Cardinality(D) <= Cardinality(Keys) /\ Cardinality(Keys) \in Nat /\ Cardinality(E) \in Nat
  BY <1>3, HashmapAssumption, FS_Subset, FS_CardinalityType
<1> QED
  BY <1>2, <1>4

LEMMA ListIsCounted ==
  ASSUME NEW w, NEW E, Lists(w, E), IsFiniteSet(E)
  PROVE  Len(w) = Cardinality(E)
<1> DEFINE f == [j \in 1 .. Len(w) |-> w[j]]
<1>1. Len(w) \in Nat
  BY DEF Lists
<1>2. f \in Bijection(1 .. Len(w), E)
  <2>1. f \in [1 .. Len(w) -> E] /\ \A e \in E : \E j \in 1 .. Len(w) : f[j] = e
    BY DEF Lists
  <2>2. \A i, j \in 1 .. Len(w) : f[i] = f[j] => i = j
    BY DEF Lists
  <2> HIDE DEF f
  <2> QED
    BY <2>1, <2>2 DEF Bijection, Injection, Surjection, IsInjective
<1>3. IsFiniteSet(1 .. Len(w)) /\ Cardinality(1 .. Len(w)) = Len(w)
  BY <1>1, FS_Interval
<1> QED
  BY <1>2, <1>3, FS_Bijection DEF ExistsBijection

LEMMA HeldIsCounted ==
  ASSUME NEW E, MapHolds(E)
  PROVE  /\ size \in 0 .. Cardinality(Keys) /\ Cardinality(Keys) \in Nat
         /\ Cardinality({e.key : e \in E}) = size
         /\ Len(Walk(bucketCount, buckets)) = size
         /\ E \subseteq Entries /\ \A e, d \in E : e.key = d.key => e = d
<1>1. E \subseteq Entries /\ \A e, d \in E : e.key = d.key => e = d
  BY HeldOnce DEF MapHolds, Holds
<1>2. Lists(Walk(bucketCount, buckets), E)
  BY WalkLists DEF MapHolds
<1>3. Len(Walk(bucketCount, buckets)) = Cardinality(E)
  BY <1>2, ListIsCounted DEF MapHolds
<1> QED
  BY <1>1, <1>3, EntriesAreCounted DEF MapHolds

LEMMA InitHolds == ASSUME Init PROVE MapHolds({})
<1>1. bucketCount \in {PowerOf2[i] : i \in 0 .. initialCapacity + 1}
  <2> DEFINE m == (initialCapacity * 4) \div 3
             P(n) == n > m /\ (n = 1 \/ n \div 2 <= m)
             S == {PowerOf2[i] : i \in 0 .. initialCapacity + 1}
  <2>1. \E n \in S : P(n)
    BY FirstCount
  <2>2. bucketCount = CHOOSE n \in S : P(n)
    BY DEF Init
  <2> HIDE DEF P, S
  <2>3. bucketCount \in S
    BY <2>1, <2>2
  <2> QED
    BY <2>3 DEF S
<1>2. bucketCount \in Nat /\ bucketCount # 0
  BY <1>1, PowerGrows
<1> QED
  BY <1>2, EmptyHolds, FS_EmptySet DEF Init, MapHolds

LEMMA InitCount == ASSUME Init PROVE CountOK
<1> DEFINE m == (initialCapacity * 4) \div 3
           P(n) == n > m /\ (n = 1 \/ n \div 2 <= m)
           S == {PowerOf2[i] : i \in 0 .. initialCapacity + 1}
<1>1. \E n \in S : P(n)
  BY FirstCount
<1>2. bucketCount = CHOOSE n \in S : P(n)
  BY DEF Init
<1> HIDE DEF P, S
<1>3. bucketCount \in S
  BY <1>1, <1>2
<1>4. initialCapacity \in Nat /\ Cardinality(Keys) \in Nat
  BY HashmapAssumption, FS_CardinalityType
<1>5. 0 .. initialCapacity + 1 \subseteq 0 .. initialCapacity + Cardinality(Keys) + 1
  BY <1>4
<1> QED
  BY <1>3, <1>5 DEF S, CountOK

\* A new entry: what it makes of the entries, whether or not the buckets are doubled.
LEMMA AddHolds ==
  ASSUME CountOK, NEW E, MapHolds(E), NEW k \in Keys, NEW v \in Values,
         \A e \in E : e.key # k, AddEntry(k, v)
  PROVE  CountOK' /\ MapHolds(E \cup {[key |-> k, value |-> v]})'
<1> DEFINE n == [key |-> k, value |-> v]
           E2 == E \cup {n}
           table == [buckets EXCEPT ![calculateIndex(bucketCount, k)] = Append(@, n)]
<1>1. n \in Entries /\ n.key = k
  BY EntryFields
<1>2. Holds(bucketCount, buckets, E) /\ IsFiniteSet(E) /\ size = Cardinality(E)
      /\ bucketCount \in Nat /\ bucketCount # 0
  BY DEF MapHolds, Holds
<1>3. Holds(bucketCount, table, E2)
  <2> HIDE DEF n
  <2> QED
    BY <1>1, <1>2, EntryAdded
<1>4. IsFiniteSet(E2) /\ Cardinality(E2) = size + 1
  <2>1. n \notin E
    BY <1>1
  <2> HIDE DEF n
  <2> QED
    BY <1>2, <2>1, FS_AddElement
<1>5. Cardinality(E2) \in 0 .. Cardinality(Keys) /\ Cardinality(Keys) \in Nat
  <2> HIDE DEF E2
  <2> QED
    BY <1>3, <1>4, HeldOnce, EntriesAreCounted DEF Holds
<1>6. size' = size + 1 /\ expandIfNecessary(table, size + 1)
  BY DEF AddEntry
<1> HIDE DEF E2, table
<1>7. CASE /\ size + 1 > (bucketCount * 3) \div 4
           /\ bucketCount' = bucketCount * 2
           /\ buckets' = MoveOver(bucketCount * 2, Walk(bucketCount, table))
  <2>1. bucketCount * 2 \in Nat /\ bucketCount * 2 # 0
    BY <1>2
  <2>2. Lists(Walk(bucketCount, table), E2)
    BY <1>3, WalkLists
  <2>3. Holds(bucketCount', buckets', E2)
    BY <1>7, <2>1, <2>2, MoveOverHolds
  <2>4. CountOK'
    <3>1. PICK i \in 0 .. initialCapacity + Cardinality(Keys) + 1 : bucketCount = PowerOf2[i]
      BY DEF CountOK
    <3>2. i \in Nat /\ 3 * bucketCount >= 4 * i
      BY <3>1, PowerGrows
    <3>3. (bucketCount * 3) \div 4 >= i
      BY <1>2, <3>2
    <3>4. i + 1 <= Cardinality(Keys)
      BY <1>2, <1>4, <1>5, <1>7, <3>2, <3>3
    <3>5. initialCapacity \in Nat
      BY HashmapAssumption
    <3>6. i + 1 \in 0 .. initialCapacity + Cardinality(Keys) + 1
      BY <1>5, <3>2, <3>4, <3>5
    <3>7. bucketCount' = PowerOf2[i + 1]
      BY <1>2, <1>7, <3>1, <3>2, PowerStepwise
    <3> QED
      BY <3>6, <3>7 DEF CountOK
  <2> QED
    BY <1>4, <1>6, <2>3, <2>4 DEF MapHolds, E2
<1>8. CASE buckets' = table /\ UNCHANGED bucketCount
  <2>1. CountOK'
    BY <1>8 DEF CountOK
  <2> QED
    BY <1>3, <1>4, <1>6, <1>8, <2>1 DEF MapHolds, E2
<1> QED
  BY <1>6, <1>7, <1>8 DEF expandIfNecessary

\* A call that only answers.
LEMMA SameHolds ==
  ASSUME CountOK, NEW E, MapHolds(E), UNCHANGED <<bucketCount, buckets, size>>
  PROVE  CountOK' /\ MapHolds(E)'
BY DEF CountOK, MapHolds

-----------------------------------------------------------------------------
(***************************************************************************)
(* The map that callers see.                                               *)
(***************************************************************************)
Chosen(E, ks) == [k \in ks |-> (CHOOSE e \in E : e.key = k).value]
MapOf(E) == Chosen(E, {e.key : e \in E})

LEMMA TableIsMap ==
  ASSUME NEW count, NEW table, NEW E, Holds(count, table, E)
  PROVE  /\ {k \in Keys : \E i \in DOMAIN table :
               \E j \in DOMAIN table[i] : table[i][j].key = k} = {e.key : e \in E}
         /\ UNION {ToSet(table[i]) : i \in DOMAIN table} = E
<1>1. DOMAIN table = 0 .. count - 1 /\ count \in Nat /\ count # 0 /\ E \subseteq Entries
  BY DEF Holds
<1>2. ASSUME NEW i \in 0 .. count - 1
      PROVE  DOMAIN table[i] = 1 .. Len(table[i])
  BY DEF Holds
<1>3. ASSUME NEW i \in 0 .. count - 1, NEW j \in DOMAIN table[i]
      PROVE  table[i][j] \in E
  BY <1>2, HeldOnce
<1>4. ASSUME NEW e \in E
      PROVE  \E i \in 0 .. count - 1 : \E j \in DOMAIN table[i] : table[i][j] = e
  <2>1. e.key \in Keys
    BY <1>1, EntryFields
  <2>2. calculateIndex(count, e.key) \in 0 .. count - 1
    BY <1>1, <2>1, IndexInTable
  <2> QED
    BY <1>2, <2>2, HeldOnce
<1>5. {k \in Keys : \E i \in DOMAIN table :
               \E j \in DOMAIN table[i] : table[i][j].key = k} = {e.key : e \in E}
  <2>1. \A e \in E : e.key \in Keys
    BY <1>1, EntryFields
  <2> QED
    BY <1>1, <1>3, <1>4, <2>1
<1>6. UNION {ToSet(table[i]) : i \in DOMAIN table} = E
  BY <1>1, <1>3, <1>4 DEF ToSet
<1> QED
  BY <1>5, <1>6

LEMMA AbstractIs ==
  ASSUME NEW E, MapHolds(E)
  PROVE  Abstract = MapOf(E)
<1>1. Present = {e.key : e \in E} /\ UNION {ToSet(buckets[i]) : i \in DOMAIN buckets} = E
  BY TableIsMap DEF MapHolds, Present
<1>2. Abstract = Chosen(UNION {ToSet(buckets[i]) : i \in DOMAIN buckets}, Present)
  BY DEF Abstract, Chosen
<1> QED
  BY <1>1, <1>2 DEF MapOf

LEMMA AbstractIsNext ==
  ASSUME NEW E, MapHolds(E)'
  PROVE  Abstract' = MapOf(E)
<1>1. Present' = {e.key : e \in E} /\ UNION {ToSet(buckets'[i]) : i \in DOMAIN buckets'} = E
  BY TableIsMap DEF MapHolds, Present
<1>2. Abstract' = Chosen(UNION {ToSet(buckets'[i]) : i \in DOMAIN buckets'}, Present')
  BY DEF Abstract, Chosen
<1> QED
  BY <1>1, <1>2 DEF MapOf

Unique(E) == \A e, d \in E : e.key = d.key => e = d

LEMMA MapAt ==
  ASSUME NEW E, Unique(E)
  PROVE  /\ DOMAIN MapOf(E) = {e.key : e \in E}
         /\ \A e \in E : e.key \in DOMAIN MapOf(E) /\ MapOf(E)[e.key] = e.value
<1> SUFFICES ASSUME NEW e \in E PROVE MapOf(E)[e.key] = e.value
  BY DEF MapOf, Chosen
<1>1. (CHOOSE d \in E : d.key = e.key) = e
  BY DEF Unique
<1> QED
  BY <1>1 DEF MapOf, Chosen

LEMMA MapPut ==
  ASSUME NEW E, Unique(E), NEW D, D \subseteq E,
         NEW n, Unique(D \cup {n}), \A e \in E : e \in D \/ e.key = n.key
  PROVE  MapOf(D \cup {n}) = Service!hashmapPut(MapOf(E), n.key, n.value)
<1> DEFINE N == D \cup {n}
<1>1. DOMAIN MapOf(N) = DOMAIN MapOf(E) \cup {n.key}
  BY DEF MapOf, Chosen
<1>2. ASSUME NEW k \in DOMAIN MapOf(N)
      PROVE  MapOf(N)[k] = IF k = n.key THEN n.value ELSE MapOf(E)[k]
  <2>1. PICK e \in N : e.key = k
    BY DEF MapOf, Chosen
  <2>2. MapOf(N)[e.key] = e.value
    BY MapAt
  <2>3. MapOf(N)[n.key] = n.value
    BY MapAt
  <2>4. CASE k # n.key
    <3>1. e \in E /\ MapOf(E)[e.key] = e.value
      BY <2>1, <2>4, MapAt
    <3> QED
      BY <2>1, <2>2, <2>4, <3>1
  <2> QED
    BY <2>1, <2>3, <2>4
<1>3. MapOf(N) = [k \in DOMAIN MapOf(N) |-> MapOf(N)[k]]
  BY DEF MapOf, Chosen
<1> HIDE DEF N
<1>4. MapOf(N) = Service!hashmapPut(MapOf(E), n.key, n.value)
  BY <1>1, <1>2, <1>3 DEF Service!hashmapPut
<1> QED
  BY <1>4 DEF N

LEMMA MapRemove ==
  ASSUME NEW E, Unique(E), NEW e \in E
  PROVE  MapOf(E \ {e}) = Service!hashmapRemove(MapOf(E), e.key)
<1> DEFINE N == E \ {e}
<1>1. DOMAIN MapOf(N) = DOMAIN MapOf(E) \ {e.key}
  BY DEF MapOf, Chosen, Unique
<1>2. Unique(N)
  BY DEF Unique
<1>3. ASSUME NEW k \in DOMAIN MapOf(N) PROVE MapOf(N)[k] = MapOf(E)[k]
  <2>1. PICK d \in N : d.key = k
    BY DEF MapOf, Chosen
  <2>2. MapOf(N)[d.key] = d.value
    BY <1>2, MapAt
  <2>3. MapOf(E)[d.key] = d.value
    BY MapAt
  <2> QED
    BY <2>1, <2>2, <2>3
<1>4. MapOf(N) = [k \in DOMAIN MapOf(N) |-> MapOf(N)[k]]
  BY DEF MapOf, Chosen
<1> HIDE DEF N
<1>5. MapOf(N) = Service!hashmapRemove(MapOf(E), e.key)
  BY <1>1, <1>3, <1>4 DEF Service!hashmapRemove
<1> QED
  BY <1>5 DEF N

LEMMA MapIsEmpty == MapOf({}) = Service!EmptyMap
BY DEF MapOf, Chosen, Service!EmptyMap

-----------------------------------------------------------------------------
(***************************************************************************)
(* Each call keeps the invariant and is the call of MapService.            *)
(***************************************************************************)
Keeps == CountOK' /\ \E E : MapHolds(E)'

\* What is found is in the map.
LEMMA ValueFound ==
  ASSUME NEW E, MapHolds(E), NEW k \in Keys
  PROVE  /\ Unique(E) /\ Abstract = MapOf(E)
         /\ Find(k) = 0 => Service!ValueAt(k) = NULL /\ ~Service!hashmapContainsKey(Abstract, k)
         /\ Find(k) # 0 => /\ Service!ValueAt(k) = Chain(k)[Find(k)].value
                           /\ Abstract[k] = Chain(k)[Find(k)].value
                           /\ Service!hashmapContainsKey(Abstract, k)
<1>1. Unique(E) /\ Abstract = MapOf(E)
  BY HeldIsCounted, AbstractIs DEF Unique
<1>2. CASE Find(k) = 0
  <2>1. \A e \in E : e.key # k
    BY <1>2, FindFinds DEF MapHolds
  <2>2. k \notin DOMAIN Abstract
    BY <1>1, <2>1 DEF MapOf, Chosen
  <2> QED
    BY <1>1, <1>2, <2>2 DEF Service!ValueAt, Service!hashmapContainsKey
<1>3. CASE Find(k) # 0
  <2> DEFINE e == Chain(k)[Find(k)]
  <2>1. e \in E /\ e.key = k
    BY <1>3, FindFinds DEF MapHolds, Chain
  <2>2. k \in DOMAIN Abstract /\ Abstract[k] = e.value
    BY <1>1, <2>1, MapAt
  <2> QED
    BY <1>1, <1>3, <2>2 DEF Service!ValueAt, Service!hashmapContainsKey
<1> QED
  BY <1>2, <1>3

LEMMA AddImplements ==
  ASSUME CountOK, NEW E, MapHolds(E), NEW k \in Keys, NEW v \in Values,
         Find(k) = 0, AddEntry(k, v)
  PROVE  Keeps /\ Abstract' = Service!hashmapPut(Abstract, k, v)
<1> DEFINE n == [key |-> k, value |-> v]
<1>1. n \in Entries /\ n.key = k /\ n.value = v
  BY EntryFields
<1>2. Unique(E) /\ Abstract = MapOf(E) /\ \A e \in E : e.key # k
  BY ValueFound, FindFinds DEF MapHolds
<1>3. CountOK' /\ MapHolds(E \cup {n})'
  BY <1>2, AddHolds
<1> HIDE DEF n
<1>4. Abstract' = MapOf(E \cup {n})
  BY <1>3, AbstractIsNext
<1>5. Unique(E \cup {n})
  BY <1>1, <1>2 DEF Unique
<1>6. MapOf(E \cup {n}) = Service!hashmapPut(MapOf(E), n.key, n.value)
  BY <1>2, <1>5, MapPut
<1> QED
  BY <1>1, <1>2, <1>3, <1>4, <1>6 DEF Keeps

LEMMA SameImplements ==
  ASSUME CountOK, NEW E, MapHolds(E), UNCHANGED <<bucketCount, buckets, size>>
  PROVE  Keeps /\ Abstract' = Abstract
BY SameHolds, AbstractIs, AbstractIsNext DEF Keeps

LEMMA PutImplements ==
  ASSUME CountOK, NEW E, MapHolds(E), NEW k \in Keys, NEW v \in Values, hashmapPut(k, v)
  PROVE  Keeps /\ (Service!Put(k, v) \/ Service!NoMemory(k, v))
<1>1. CASE OutOfMemory(k) /\ result' = <<"put", k, v, NULL>>
  <2>1. Keeps /\ Abstract' = Abstract /\ ~Service!hashmapContainsKey(Abstract, k)
    BY <1>1, SameImplements, ValueFound DEF OutOfMemory
  <2> QED
    BY <1>1, <2>1 DEF Service!NoMemory
<1>2. CASE Find(k) = 0 /\ AddEntry(k, v) /\ result' = <<"put", k, v, NULL>>
  <2>1. Keeps /\ Abstract' = Service!hashmapPut(Abstract, k, v) /\ Service!ValueAt(k) = NULL
    BY <1>2, AddImplements, ValueFound
  <2> QED
    BY <1>2, <2>1 DEF Service!Put
<1>3. CASE /\ Find(k) # 0
           /\ result' = <<"put", k, v, Chain(k)[Find(k)].value>>
           /\ buckets' = [buckets EXCEPT
                ![calculateIndex(bucketCount, k)][Find(k)].value = v]
           /\ UNCHANGED <<bucketCount, size>>
  <2> DEFINE i == calculateIndex(bucketCount, k)
             e == buckets[i][Find(k)]
             n == [key |-> e.key, value |-> v]
             N == (E \ {e}) \cup {n}
  <2>1. /\ i \in 0 .. bucketCount - 1 /\ Find(k) \in 1 .. Len(buckets[i])
        /\ e \in E /\ e.key = k /\ Holds(bucketCount, buckets, E)
        /\ IsFiniteSet(E) /\ size = Cardinality(E)
    BY <1>3, FindFinds DEF MapHolds
  <2>2. Holds(bucketCount, buckets', N)
    BY <1>3, <2>1, EntryChanged
  <2>3. Unique(E) /\ Abstract = MapOf(E) /\ Service!ValueAt(k) = e.value
    BY <1>3, ValueFound DEF Chain
  <2>4. n.key = k /\ n.value = v
    BY <2>1
  <2> HIDE DEF i, e, n
  <2>5. Unique(N) /\ \A d \in E : d \in E \ {e} \/ d.key = n.key
    BY <2>1, <2>3, <2>4 DEF Unique
  <2>6. IsFiniteSet(N) /\ Cardinality(N) = Cardinality(E)
    <3>1. IsFiniteSet(E \ {e}) /\ Cardinality(E \ {e}) = Cardinality(E) - 1
      BY <2>1, FS_RemoveElement
    <3>2. n \notin E \ {e}
      BY <2>1, <2>3, <2>4 DEF Unique
    <3>3. Cardinality(E) \in Nat
      BY <2>1, FS_CardinalityType
    <3> DEFINE D == E \ {e}
    <3> HIDE DEF D
    <3>4. IsFiniteSet(D \cup {n}) /\ Cardinality(D \cup {n}) = Cardinality(D) + 1
      BY <3>1, <3>2, FS_AddElement DEF D
    <3> QED
      BY <3>1, <3>3, <3>4 DEF D
  <2>7. MapOf(N) = Service!hashmapPut(MapOf(E), n.key, n.value)
    BY <2>3, <2>5, MapPut
  <2> HIDE DEF N
  <2>0. PICK M : M = N
    OBVIOUS
  <2>8. CountOK' /\ MapHolds(M)'
    BY <1>3, <2>0, <2>1, <2>2, <2>6 DEF CountOK, MapHolds
  <2>9. Abstract' = Service!hashmapPut(Abstract, k, v)
    BY <2>0, <2>3, <2>4, <2>7, <2>8, AbstractIsNext
  <2>10. result' = <<"put", k, v, Service!ValueAt(k)>>
    BY <1>3, <2>3 DEF Chain, i, e
  <2> QED
    BY <2>8, <2>9, <2>10 DEF Keeps, Service!Put
<1> QED
  BY <1>1, <1>2, <1>3 DEF hashmapPut

\* Each instance of a module has its own Cardinality.
LEMMA SameCardinality ==
  \A S : Service!Cardinality(S) = Cardinality(S) /\ Service!Seqs!Cardinality(S) = Cardinality(S)
BY DEF Service!Cardinality, Service!Seqs!Cardinality, Cardinality

LEMMA MemoizeImplements ==
  ASSUME CountOK, NEW E, MapHolds(E), NEW k \in Keys, NEW v \in Values, hashmapMemoize(k, v)
  PROVE  Keeps /\ (Service!Memoize(k, v) \/ Service!NoMemory(k, v))
<1>1. CASE OutOfMemory(k) /\ result' = <<"memoize", k, v, NULL>>
  <2>1. Keeps /\ Abstract' = Abstract /\ ~Service!hashmapContainsKey(Abstract, k)
    BY <1>1, SameImplements, ValueFound DEF OutOfMemory
  <2> QED
    BY <1>1, <2>1 DEF Service!NoMemory
<1>2. CASE Find(k) = 0 /\ AddEntry(k, v) /\ result' = <<"memoize", k, v, v>>
  <2>1. /\ Keeps /\ Abstract' = Service!hashmapPut(Abstract, k, v)
        /\ ~Service!hashmapContainsKey(Abstract, k)
    BY <1>2, AddImplements, ValueFound
  <2> QED
    BY <1>2, <2>1 DEF Service!Memoize
<1>3. CASE Find(k) # 0 /\ Answer(<<"memoize", k, v, Chain(k)[Find(k)].value>>)
  <2>1. result' = <<"memoize", k, v, Abstract[k]>> /\ Service!hashmapContainsKey(Abstract, k)
    BY <1>3, ValueFound DEF Answer
  <2>2. Keeps /\ Abstract' = Abstract
    BY <1>3, SameImplements DEF Answer
  <2> QED
    BY <2>1, <2>2 DEF Service!Memoize
<1> QED
  BY <1>1, <1>2, <1>3 DEF hashmapMemoize

LEMMA RemoveImplements ==
  ASSUME CountOK, NEW E, MapHolds(E), NEW k \in Keys, hashmapRemove(k)
  PROVE  Keeps /\ Service!Remove(k)
<1>1. CASE Find(k) = 0
  <2>1. result' = <<"remove", k, NULL>> /\ Keeps /\ Abstract' = Abstract
    BY <1>1, SameImplements DEF hashmapRemove, Answer
  <2>2. Service!ValueAt(k) = NULL /\ k \notin DOMAIN Abstract /\ Abstract = MapOf(E)
    BY <1>1, ValueFound DEF Service!hashmapContainsKey
  <2>3. Service!hashmapRemove(Abstract, k) = Abstract
    BY <2>2 DEF Service!hashmapRemove, MapOf, Chosen
  <2> QED
    BY <2>1, <2>2, <2>3 DEF Service!Remove
<1>2. CASE Find(k) # 0
  <2> DEFINE i == calculateIndex(bucketCount, k)
             e == buckets[i][Find(k)]
             N == E \ {e}
  <2>1. /\ i \in 0 .. bucketCount - 1 /\ Find(k) \in 1 .. Len(buckets[i])
        /\ e \in E /\ e.key = k /\ Holds(bucketCount, buckets, E)
        /\ IsFiniteSet(E) /\ size = Cardinality(E)
    BY <1>2, FindFinds DEF MapHolds
  <2>2. /\ result' = <<"remove", k, e.value>>
        /\ buckets' = [buckets EXCEPT ![i] = RemoveAt(@, Find(k))]
        /\ size' = size - 1 /\ bucketCount' = bucketCount
    BY <1>2 DEF hashmapRemove, Chain
  <2>3. Unique(E) /\ Abstract = MapOf(E) /\ Service!ValueAt(k) = e.value
    BY <1>2, ValueFound DEF Chain
  <2>4. Holds(bucketCount, buckets', N)
    BY <2>1, <2>2, EntryChanged
  <2> HIDE DEF i, e
  <2>5. IsFiniteSet(N) /\ Cardinality(N) = Cardinality(E) - 1
    BY <2>1, FS_RemoveElement
  <2>6. MapOf(N) = Service!hashmapRemove(MapOf(E), k)
    BY <2>1, <2>3, MapRemove
  <2> HIDE DEF N
  <2>7. PICK M : M = N
    OBVIOUS
  <2>8. CountOK' /\ MapHolds(M)'
    BY <2>1, <2>2, <2>4, <2>5, <2>7 DEF CountOK, MapHolds
  <2>9. Abstract' = Service!hashmapRemove(Abstract, k)
    BY <2>3, <2>6, <2>7, <2>8, AbstractIsNext
  <2> QED
    BY <2>2, <2>3, <2>8, <2>9 DEF Keeps, Service!Remove
<1> QED
  BY <1>1, <1>2

LEMMA QueryImplements ==
  ASSUME CountOK, NEW E, MapHolds(E)
  PROVE  /\ hashmapSize => Keeps /\ Service!Size
         /\ \A k \in Keys : hashmapGet(k) => Keeps /\ Service!Get(k)
         /\ \A k \in Keys : hashmapContainsKey(k) => Keeps /\ Service!ContainsKey(k)
<1>1. ASSUME hashmapSize PROVE Keeps /\ Service!Size
  <2>1. Keeps /\ Abstract' = Abstract /\ result' = <<"size", size>>
    BY <1>1, SameImplements DEF hashmapSize, Answer
  <2>2. DOMAIN Abstract = {e.key : e \in E}
    BY AbstractIs DEF MapOf, Chosen
  <2>3. Cardinality(DOMAIN Abstract) = size
    BY <2>2, HeldIsCounted
  <2> QED
    BY <2>1, <2>3, SameCardinality DEF Service!Size
<1>2. ASSUME NEW k \in Keys, hashmapGet(k) PROVE Keeps /\ Service!Get(k)
  <2>1. Keeps /\ Abstract' = Abstract
    BY <1>2, SameImplements DEF hashmapGet, Answer
  <2>2. result' = <<"get", k, Service!ValueAt(k)>>
    BY <1>2, ValueFound DEF hashmapGet, Answer
  <2> QED
    BY <2>1, <2>2 DEF Service!Get
<1>3. ASSUME NEW k \in Keys, hashmapContainsKey(k) PROVE Keeps /\ Service!ContainsKey(k)
  <2>1. Keeps /\ Abstract' = Abstract
    BY <1>3, SameImplements DEF hashmapContainsKey, Answer
  <2>2. (Find(k) # 0) = Service!hashmapContainsKey(Abstract, k)
    BY ValueFound DEF Service!hashmapContainsKey
  <2>3. result' = <<"contains", k, Find(k) # 0>>
    BY <1>3 DEF hashmapContainsKey, Answer
  <2> QED
    BY <2>1, <2>2, <2>3 DEF Service!ContainsKey
<1> QED
  BY <1>1, <1>2, <1>3

\* A walk is an order of the keys, and stops where the callback says so.
LEMMA EachImplements ==
  ASSUME CountOK, NEW E, MapHolds(E), NEW last \in Keys, hashmapForEach(last)
  PROVE  Keeps /\ Service!ForEach(last)
<1> DEFINE all == Walk(bucketCount, buckets)
           stop == SelectInSeq(all, LAMBDA e : e.key = last)
           said == IF stop = 0 THEN all ELSE SubSeq(all, 1, stop)
           D == {e.key : e \in E}
           order == [j \in 1 .. Len(all) |-> all[j].key]
           calls == IF last \in D THEN CHOOSE j \in 1 .. Len(all) : order[j] = last
                    ELSE Len(all)
<1>1. Keeps /\ Abstract' = Abstract /\ result' = <<"each", last, said>>
  BY SameImplements DEF hashmapForEach, Answer
<1>2. Lists(all, E)
  BY WalkLists DEF MapHolds
<1>3. /\ Unique(E) /\ Abstract = MapOf(E) /\ DOMAIN Abstract = D
      /\ Cardinality(D) = Len(all)
  <2>1. Unique(E) /\ Abstract = MapOf(E)
    BY HeldIsCounted, AbstractIs DEF Unique
  <2>2. DOMAIN Abstract = D
    BY <2>1 DEF MapOf, Chosen
  <2> QED
    BY <2>1, <2>2, HeldIsCounted
<1>4. IsFirst(stop, all, last)
  <2> HIDE DEF all
  <2> QED
    BY <1>2, FirstWithKey DEF Lists
<1> HIDE DEF all, stop
<1>5. /\ all \in Seq(Entries) /\ Len(all) \in Nat
      /\ \A j \in 1 .. Len(all) : all[j] \in E /\ all[j] \in Entries
      /\ \A e \in E : \E j \in 1 .. Len(all) : all[j] = e
      /\ \A i, j \in 1 .. Len(all) : all[i].key = all[j].key => i = j
  BY <1>2 DEF Lists
<1>6. /\ order \in [1 .. Cardinality(DOMAIN Abstract) -> DOMAIN Abstract]
      /\ \A i, j \in 1 .. Cardinality(DOMAIN Abstract) : i # j => order[i] # order[j]
  BY <1>3, <1>5
<1>7. \A j \in 1 .. Len(all) :
        all[j] = [key |-> order[j], value |-> Abstract[order[j]]]
  <2> SUFFICES ASSUME NEW j \in 1 .. Len(all)
               PROVE  all[j] = [key |-> order[j], value |-> Abstract[order[j]]]
    OBVIOUS
  <2>1. all[j] = [key |-> all[j].key, value |-> all[j].value] /\ order[j] = all[j].key
    BY <1>5, EntryFields
  <2>2. Abstract[all[j].key] = all[j].value
    BY <1>3, <1>5, MapAt
  <2> HIDE DEF order
  <2> QED
    BY <2>1, <2>2
<1>8. /\ calls \in 0 .. Len(all) /\ Len(said) = calls
      /\ said = [j \in 1 .. calls |-> all[j]]
  <2>1. CASE stop = 0
    <3>1. last \notin D
      BY <1>4, <1>5, <2>1 DEF IsFirst
    <3>2. all = [j \in 1 .. Len(all) |-> all[j]]
      BY <1>5
    <3> QED
      BY <1>5, <2>1, <3>1, <3>2
  <2>2. CASE stop # 0
    <3>1. stop \in 1 .. Len(all) /\ all[stop].key = last
      BY <1>4, <2>2 DEF IsFirst
    <3>2. last \in D
      BY <1>5, <3>1
    <3>3. \A j \in 1 .. Len(all) : order[j] = last <=> j = stop
      BY <1>5, <3>1
    <3> HIDE DEF order
    <3>4. calls = stop
      BY <3>1, <3>2, <3>3
    <3>5. said = SubSeq(all, 1, stop) /\ stop \in Nat /\ stop <= Len(all)
      BY <1>5, <2>2, <3>1
    <3>6. Len(said) = stop /\ said = [j \in 1 .. stop |-> all[j]]
      BY <1>5, <3>1, <3>5
    <3> HIDE DEF calls, said
    <3> QED
      BY <1>5, <3>1, <3>4, <3>6
  <2> QED
    BY <2>1, <2>2
<1>9. said = [j \in 1 .. calls |-> [key |-> order[j], value |-> Abstract[order[j]]]]
  <2> HIDE DEF said, calls, order
  <2>1. \A j \in 1 .. calls : j \in 1 .. Len(all)
    BY <1>5, <1>8
  <2> QED
    BY <1>7, <1>8, <2>1
<1>10. order \in Service!Seqs!SetToSeqs(DOMAIN Abstract)
  <2> HIDE DEF order
  <2> QED
    BY <1>6, SameCardinality DEF Service!Seqs!SetToSeqs
<1>11. DOMAIN order = 1 .. Len(all)
  OBVIOUS
<1> HIDE DEF said, order, D
<1>12. result' = <<"each", last, [j \in 1 .. calls |->
                     [key |-> order[j], value |-> Abstract[order[j]]]]>>
  <2> HIDE DEF calls
  <2> QED
    BY <1>1, <1>9
<1>13. calls = IF last \in DOMAIN Abstract
               THEN CHOOSE j \in DOMAIN order : order[j] = last
               ELSE Cardinality(DOMAIN Abstract)
  BY <1>3, <1>11
<1> HIDE DEF calls
<1> QED
  BY <1>1, <1>10, <1>12, <1>13, SameCardinality DEF Service!ForEach

-----------------------------------------------------------------------------
LEMMA StepImplements ==
  ASSUME MapInv, [Next]_vars
  PROVE  MapInv' /\ [Service!Next]_<<Abstract, result>>
<1>1. CountOK
  BY DEF MapInv
<1>2. PICK E : MapHolds(E)
  BY DEF MapInv
<1>3. CASE hashmapSize
  BY <1>1, <1>2, <1>3, QueryImplements DEF Keeps, MapInv, Service!Next
<1>4. ASSUME NEW k \in Keys,
             hashmapGet(k) \/ hashmapContainsKey(k) \/ hashmapRemove(k) \/ hashmapForEach(k)
      PROVE  MapInv' /\ Service!Next
  <2>1. Keeps /\ (Service!Get(k) \/ Service!ContainsKey(k) \/ Service!Remove(k)
                    \/ Service!ForEach(k))
    BY <1>1, <1>2, <1>4, QueryImplements, RemoveImplements, EachImplements
  <2> QED
    BY <2>1 DEF Keeps, MapInv, Service!Next
<1>5. ASSUME NEW k \in Keys, NEW v \in Values, hashmapPut(k, v) \/ hashmapMemoize(k, v)
      PROVE  MapInv' /\ Service!Next
  <2>1. Keeps /\ (Service!Put(k, v) \/ Service!NoMemory(k, v) \/ Service!Memoize(k, v))
    BY <1>1, <1>2, <1>5, PutImplements, MemoizeImplements
  <2> QED
    BY <2>1 DEF Keeps, MapInv, Service!Next
<1>6. CASE UNCHANGED vars
  <2>1. UNCHANGED <<bucketCount, buckets, size>> /\ result' = result
    BY <1>6 DEF vars
  <2>2. Keeps /\ Abstract' = Abstract
    BY <1>1, <1>2, <2>1, SameImplements
  <2> QED
    BY <2>1, <2>2 DEF Keeps, MapInv
<1> QED
  BY <1>3, <1>4, <1>5, <1>6 DEF Next

LEMMA InitImplements == Init => MapInv /\ Service!Init
<1> SUFFICES ASSUME Init PROVE MapInv /\ Service!Init
  OBVIOUS
<1>1. MapHolds({}) /\ CountOK
  BY InitHolds, InitCount
<1>2. Abstract = Service!EmptyMap
  BY <1>1, AbstractIs, MapIsEmpty
<1>3. result = <<"create", NULL>>
  BY DEF Init
<1> QED
  BY <1>1, <1>2, <1>3 DEF MapInv, Service!Init

LEMMA MapInvariant == Spec => []MapInv
<1>1. MapInv /\ [Next]_vars => MapInv'
  BY StepImplements
<1> QED
  BY <1>1, InitImplements, PTL DEF Spec

LEMMA HoldsIsTyped == MapInv => HashmapTypeOK
<1> SUFFICES ASSUME MapInv PROVE HashmapTypeOK
  OBVIOUS
<1>1. PICK E : MapHolds(E)
  BY DEF MapInv
<1>2. size \in 0 .. Cardinality(Keys)
  BY <1>1, HeldIsCounted
<1>3. buckets \in [0 .. bucketCount - 1 -> Seq(Entries)]
  BY <1>1 DEF MapHolds, Holds
<1> QED
  BY <1>2, <1>3 DEF MapInv, CountOK, HashmapTypeOK

LEMMA HoldsIsPlaced == MapInv => WellPlaced
<1> SUFFICES ASSUME MapInv PROVE WellPlaced
  OBVIOUS
<1>1. PICK E : MapHolds(E)
  BY DEF MapInv
<1>2. Holds(bucketCount, buckets, E) /\ E \subseteq Entries
  BY <1>1 DEF MapHolds, Holds
<1>3. DOMAIN buckets = 0 .. bucketCount - 1
  BY <1>2 DEF Holds
<1>4. ASSUME NEW i \in DOMAIN buckets, NEW j \in DOMAIN buckets[i]
      PROVE  /\ calculateIndex(bucketCount, buckets[i][j].key) = i
             /\ Find(buckets[i][j].key) = j
  <2> DEFINE e == buckets[i][j]
  <2>1. Lists(buckets[i], InBucket(bucketCount, E, i)) /\ j \in 1 .. Len(buckets[i])
    BY <1>2, <1>3 DEF Holds
  <2>2. e \in E /\ calculateIndex(bucketCount, e.key) = i /\ e.key \in Keys
    <3>1. e \in E /\ calculateIndex(bucketCount, e.key) = i
      BY <1>2, <1>3, <2>1 DEF Lists, InBucket
    <3> QED
      BY <1>2, <3>1, EntryFields
  <2>3. /\ Find(e.key) \in 1 .. Len(buckets[i])
        /\ buckets[i][Find(e.key)].key = e.key
    BY <1>2, <2>2, FindFinds
  <2>4. Find(e.key) = j
    BY <2>1, <2>3 DEF Lists
  <2> QED
    BY <2>2, <2>4
<1>5. size = Len(Walk(bucketCount, buckets))
  BY <1>1, HeldIsCounted
<1> QED
  BY <1>4, <1>5 DEF WellPlaced

\* The number of buckets is a power of 2 that the keys in the map account for,
\* every bucket is a chain of entries, and `size' counts no more than the keys:
\* what the loops of hashmap.c rely on.
THEOREM MapTypeCorrect == Spec => []HashmapTypeOK
BY MapInvariant, HoldsIsTyped, PTL

\* An entry stands in the bucket in which hashmapGet looks for its key, no key
\* has two entries, and `size' is the number of entries that a walk meets,
\* after any sequence of puts, removals, doublings and failed allocations.
THEOREM EntriesAreWellPlaced == Spec => []WellPlaced
BY MapInvariant, HoldsIsPlaced, PTL

\* What hashmap.c returns is what hashmap.h promises of one map.
THEOREM HashmapImplementsMap == Spec => ImplementsMap
<1>1. MapInv /\ [Next]_vars => [Service!Next]_<<Abstract, result>>
  BY StepImplements
<1> QED
  BY <1>1, InitImplements, MapInvariant, PTL DEF Spec, ImplementsMap, Service!Spec

=============================================================================
