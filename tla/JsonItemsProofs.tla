--------------------------- MODULE JsonItemsProofs ---------------------------
(***************************************************************************)
(* Theorems about cJSON's items, for every heap, all names and every       *)
(* failing allocation: the pointers are well linked, and no caller can     *)
(* tell the items from the trees of cJSON.h.  K says which items each item *)
(* holds; pointers m fit K when following child and next gives K.          *)
(***************************************************************************)

EXTENDS JsonItems, FiniteSetTheorems, SequenceTheorems, WellFoundedInduction, TLAPS

-----------------------------------------------------------------------------
(***************************************************************************)
(* Numbers.                                                                *)
(***************************************************************************)

\* A set of numbers has a least one, and a bounded one a greatest.
LEMMA LeastOf ==
  ASSUME NEW T, T \subseteq Nat, T # {}
  PROVE  \E n \in T : \A m \in T : n <= m
<1> DEFINE R == OpToRel(<, Nat)
<1>1. IsWellFoundedOn(R, Nat)
  BY NatLessThanWellFounded
<1>2. \A x, y \in Nat : x < y => <<x, y>> \in R
  BY DEF OpToRel
<1> HIDE DEF R
<1>3. PICK n \in T : \A m \in T : ~(<<m, n>> \in R)
  BY <1>1, WFMin
<1>4. ASSUME NEW m \in T PROVE n <= m
  <2>1. n \in Nat /\ m \in Nat /\ ~(m < n)
    BY <1>2, <1>3
  <2> QED
    BY <2>1
<1> QED
  BY <1>4

LEMMA GreatestOf ==
  ASSUME NEW N \in Nat, NEW T, T \subseteq 0 .. N, T # {}
  PROVE  \E n \in T : \A m \in T : m <= n
<1> DEFINE U == {N - n : n \in T}
<1>0. \A n \in T : n \in Nat /\ n <= N /\ N - n \in Nat
  OBVIOUS
<1>1. U \subseteq Nat /\ U # {}
  BY <1>0
<1>2. PICK u \in U : \A v \in U : u <= v
  <2> HIDE DEF U
  <2> QED
    BY <1>1, LeastOf
<1>3. PICK n \in T : u = N - n
  OBVIOUS
<1>4. ASSUME NEW m \in T PROVE m <= n
  <2>1. N - m \in U /\ m \in Nat /\ n \in Nat
    OBVIOUS
  <2> QED
    BY <1>2, <1>3, <2>1
<1> QED
  BY <1>4

-----------------------------------------------------------------------------
(***************************************************************************)
(* What is reached from an item when each leads to the items succ gives.   *)
(***************************************************************************)

Closed(succ, S) == \A p \in S : succ[p] \subseteq S

Reach(succ, i) ==
  {j \in DOMAIN succ : \A S \in SUBSET DOMAIN succ : i \in S /\ Closed(succ, S) => j \in S}

\* Nothing leads back to itself, and no way goes on for ever.
Grounded(succ) ==
  \A S \in SUBSET DOMAIN succ : S # {} => \E i \in S : succ[i] \cap S = {}

\* What is reached is in every closed set that i is in.
LEMMA ReachLeast ==
  ASSUME NEW succ, NEW i, NEW S \in SUBSET DOMAIN succ, i \in S, Closed(succ, S)
  PROVE  Reach(succ, i) \subseteq S
BY DEF Reach

\* What is reached is itself closed.
LEMMA ReachCloses ==
  ASSUME NEW D, NEW succ \in [D -> SUBSET D], NEW i \in D
  PROVE  i \in Reach(succ, i) /\ Reach(succ, i) \subseteq D /\ Closed(succ, Reach(succ, i))
<1>1. i \in Reach(succ, i) /\ Reach(succ, i) \subseteq D
  BY DEF Reach
<1>2. ASSUME NEW p \in Reach(succ, i), NEW k \in succ[p] PROVE k \in Reach(succ, i)
  <2>1. p \in D /\ k \in D
    BY <1>1
  <2>2. ASSUME NEW S \in SUBSET D, i \in S, Closed(succ, S) PROVE k \in S
    <3>1. p \in S
      BY <2>2 DEF Reach
    <3> QED
      BY <2>2, <3>1 DEF Closed
  <2> QED
    BY <2>1, <2>2 DEF Reach
<1> QED
  BY <1>1, <1>2 DEF Closed

\* Whatever an item that is reached reaches, is reached.
LEMMA ReachFurther ==
  ASSUME NEW D, NEW succ \in [D -> SUBSET D], NEW i \in D, NEW k \in Reach(succ, i)
  PROVE  Reach(succ, k) \subseteq Reach(succ, i)
BY ReachCloses, ReachLeast

\* The recursive equation of what is reached.
LEMMA ReachStep ==
  ASSUME NEW D, NEW succ \in [D -> SUBSET D], NEW i \in D
  PROVE  Reach(succ, i) = {i} \cup UNION {Reach(succ, k) : k \in succ[i]}
<1> DEFINE S == {i} \cup UNION {Reach(succ, k) : k \in succ[i]}
<1>1. \A k \in succ[i] : k \in D /\ k \in Reach(succ, i)
  BY ReachCloses DEF Closed
<1>2. S \subseteq Reach(succ, i)
  BY <1>1, ReachCloses, ReachFurther
<1>3. Closed(succ, S)
  <2> SUFFICES ASSUME NEW p \in S, NEW j \in succ[p] PROVE j \in S
    BY DEF Closed
  <2>1. CASE p = i
    <3>1. j \in Reach(succ, j)
      BY <1>1, <2>1, ReachCloses
    <3> QED
      BY <2>1, <3>1
  <2>2. CASE p # i
    <3>1. PICK k \in succ[i] : p \in Reach(succ, k)
      BY <2>2
    <3>2. j \in Reach(succ, k)
      BY <1>1, <3>1, ReachCloses DEF Closed
    <3> QED
      BY <3>2
  <2> QED
    BY <2>1, <2>2
<1>4. S \in SUBSET DOMAIN succ /\ i \in S
  BY <1>2, ReachCloses
<1> HIDE DEF S
<1>5. Reach(succ, i) \subseteq S
  BY <1>3, <1>4, ReachLeast
<1> QED
  BY <1>2, <1>5 DEF S

\* A recursion along succ that collects what it meets has collected this.
LEMMA CollectsReach ==
  ASSUME NEW D, NEW succ \in [D -> SUBSET D], Grounded(succ),
         NEW f, \A i \in D : f[i] = {i} \cup UNION {f[k] : k \in succ[i]}
  PROVE  \A i \in D : f[i] = Reach(succ, i)
<1> DEFINE S == {i \in D : f[i] # Reach(succ, i)}
<1> SUFFICES ASSUME S # {} PROVE FALSE
  OBVIOUS
<1>1. PICK i \in S : succ[i] \cap S = {}
  BY DEF Grounded
<1>2. \A k \in succ[i] : f[k] = Reach(succ, k)
  BY <1>1
<1>3. UNION {f[k] : k \in succ[i]} = UNION {Reach(succ, k) : k \in succ[i]}
  BY <1>2
<1>4. f[i] = {i} \cup UNION {f[k] : k \in succ[i]}
  BY <1>1
<1>5. Reach(succ, i) = {i} \cup UNION {Reach(succ, k) : k \in succ[i]}
  BY <1>1, ReachStep
<1> QED
  BY <1>1, <1>3, <1>4, <1>5

\* Nothing leads back.
LEMMA NoWayBack ==
  ASSUME NEW D, NEW succ \in [D -> SUBSET D], Grounded(succ), NEW i \in D, NEW k \in succ[i]
  PROVE  i \notin Reach(succ, k)
<1> SUFFICES ASSUME i \in Reach(succ, k) PROVE FALSE
  OBVIOUS
<1> DEFINE S == {j \in Reach(succ, k) : i \in Reach(succ, j)}
<1>1. k \in D /\ k \in S /\ S \subseteq D /\ i \in Reach(succ, i)
  BY ReachCloses
<1>2. ASSUME NEW j \in S PROVE succ[j] \cap S # {}
  <2>1. CASE j = i
    BY <1>1, <2>1
  <2>2. CASE j # i
    <3>1. PICK h \in succ[j] : i \in Reach(succ, h)
      BY <1>1, <2>2, ReachStep
    <3>2. h \in Reach(succ, k)
      BY <1>1, ReachCloses DEF Closed
    <3> QED
      BY <3>1, <3>2
  <2> QED
    BY <2>1, <2>2
<1> QED
  BY <1>1, <1>2 DEF Grounded

\* What is reached is the start or led to by something that is reached.
LEMMA ReachedFrom ==
  ASSUME NEW D, NEW succ \in [D -> SUBSET D], NEW i \in D, NEW j \in Reach(succ, i), j # i
  PROVE  \E p \in Reach(succ, i) : j \in succ[p]
<1> DEFINE S == {h \in Reach(succ, i) : h = i \/ \E p \in Reach(succ, i) : h \in succ[p]}
<1>1. i \in S /\ S \in SUBSET DOMAIN succ /\ Closed(succ, S)
  BY ReachCloses DEF Closed
<1> HIDE DEF S
<1>2. j \in S
  BY <1>1, ReachLeast
<1> QED
  BY <1>2 DEF S

\* What is reached depends on the successors of what is reached only.
LEMMA ReachIsLocal ==
  ASSUME NEW D, NEW succ \in [D -> SUBSET D], NEW more \in [D -> SUBSET D], NEW i \in D,
         \A p \in Reach(succ, i) : more[p] = succ[p]
  PROVE  Reach(more, i) = Reach(succ, i)
<1> DEFINE S == Reach(succ, i)
<1>1. i \in S /\ S \in SUBSET D /\ Closed(succ, S) /\ Closed(more, S)
  BY ReachCloses DEF Closed
<1>2. Reach(more, i) \subseteq S
  BY <1>1, ReachLeast
<1>3. Closed(succ, Reach(more, i)) /\ i \in Reach(more, i)
  BY <1>2, ReachCloses DEF Closed
<1>4. S \subseteq Reach(more, i)
  BY <1>1, <1>2, <1>3, ReachLeast
<1> QED
  BY <1>2, <1>4

-----------------------------------------------------------------------------
(***************************************************************************)
(* Pointers that hold lists of children.                                   *)
(***************************************************************************)

\* A pointer, and what a block holds.
Pointer == Items \cup {NULL}
Node == [next : Pointer, prev : Pointer, child : Pointer, string : Names \cup {NULL}]

\* What each item holds, where its pointers lead, and what nothing holds.
Held(K) == [p \in DOMAIN K |-> Range(K[p])]
Links(m) == [i \in DOMAIN m |-> {m[i].child, m[i].next} \ {NULL}]
Top(K, c) == \A p \in DOMAIN K : c \notin Range(K[p])

\* Each item is in one of the lists of K, once, or in none.
Once(K) ==
  \A p, q \in DOMAIN K : \A i \in 1 .. Len(K[p]), j \in 1 .. Len(K[q]) :
    K[p][i] = K[q][j] => p = q /\ i = j

\* The pointers, by their places in the lists.
Placed(m, K) ==
  /\ \A p \in DOMAIN m : m[p].child = At(K[p], 1)
  /\ \A p \in DOMAIN m : \A j \in 1 .. Len(K[p]) :
       m[K[p][j]].next = At(K[p], j + 1) /\ m[K[p][j]].prev = At(K[p], j - 1)
  /\ \A c \in DOMAIN m : Top(K, c) => m[c].next = NULL /\ m[c].prev = NULL

\* The pointers in m are those of the lists of children that K gives.
Fits(m, K) ==
  /\ DOMAIN m \subseteq Items
  /\ m \in [DOMAIN m -> Node]
  /\ K \in [DOMAIN m -> Seq(DOMAIN m)]
  /\ Placed(m, K)
  /\ Once(K)
  /\ Grounded(Held(K))

\* The items of a sequence.
LEMMA SeqItems ==
  ASSUME NEW D, NEW s \in Seq(D)
  PROVE  /\ Len(s) \in Nat /\ DOMAIN s = 1 .. Len(s)
         /\ \A j \in 1 .. Len(s) : s[j] \in D /\ s[j] \in Range(s)
         /\ \A c \in Range(s) : c \in D /\ \E j \in 1 .. Len(s) : c = s[j]
<1>1. Len(s) \in Nat /\ DOMAIN s = 1 .. Len(s) /\ \A j \in 1 .. Len(s) : s[j] \in D
  OBVIOUS
<1> QED
  BY <1>1 DEF Range

Typed(m, K) ==
  /\ DOMAIN K = DOMAIN m /\ NULL \notin DOMAIN m
  /\ \A i \in DOMAIN m : m[i] \in Node
  /\ \A p \in DOMAIN m : /\ K[p] \in Seq(DOMAIN m) /\ Len(K[p]) \in Nat
                         /\ DOMAIN K[p] = 1 .. Len(K[p])
                         /\ Held(K)[p] = Range(K[p])
                         /\ Range(K[p]) \subseteq DOMAIN m
  /\ \A p \in DOMAIN m : \A j \in 1 .. Len(K[p]) : /\ K[p][j] \in DOMAIN m
                                                   /\ K[p][j] \in Range(K[p])
  /\ \A p \in DOMAIN m : \A c \in Range(K[p]) : \E j \in 1 .. Len(K[p]) : c = K[p][j]
  /\ Held(K) \in [DOMAIN m -> SUBSET DOMAIN m]
  /\ Grounded(Held(K))

\* The types, in the form that the proofs use.
LEMMA FitsTypes ==
  ASSUME NEW m, NEW K, Fits(m, K)
  PROVE  Typed(m, K)
<1>1. DOMAIN K = DOMAIN m /\ NULL \notin DOMAIN m /\ \A i \in DOMAIN m : m[i] \in Node
  BY JsonItemsAssumption DEF Fits
<1>2. \A p \in DOMAIN m : K[p] \in Seq(DOMAIN m)
  BY DEF Fits
<1>3. \A p \in DOMAIN m : /\ Len(K[p]) \in Nat
                          /\ DOMAIN K[p] = 1 .. Len(K[p])
                          /\ \A j \in 1 .. Len(K[p]) : K[p][j] \in DOMAIN m /\ K[p][j] \in Range(K[p])
                          /\ \A c \in Range(K[p]) : c \in DOMAIN m /\ \E j \in 1 .. Len(K[p]) : c = K[p][j]
  BY <1>2, SeqItems
<1>4. \A p \in DOMAIN m : Held(K)[p] = Range(K[p])
  BY <1>1 DEF Held
<1>5. Held(K) \in [DOMAIN m -> SUBSET DOMAIN m]
  BY <1>1, <1>3 DEF Held
<1>6. Grounded(Held(K))
  BY DEF Fits
<1> QED
  BY <1>1, <1>2, <1>3, <1>4, <1>5, <1>6 DEF Typed

\* What next and child of an item can be.
LEMMA LinkIs ==
  ASSUME NEW m, NEW K, Fits(m, K), NEW i \in DOMAIN m
  PROVE  /\ m[i].child # NULL => m[i].child \in Range(K[i])
         /\ m[i].next # NULL => \E p \in DOMAIN m : /\ i \in Range(K[p])
                                                    /\ m[i].next \in Range(K[p])
         /\ Links(m)[i] = {m[i].child, m[i].next} \ {NULL}
<1>0. Typed(m, K) /\ Placed(m, K)
  BY FitsTypes DEF Fits
<1>1. ASSUME m[i].child # NULL PROVE m[i].child \in Range(K[i])
  <2>1. m[i].child = At(K[i], 1)
    BY <1>0 DEF Placed
  <2>2. 1 \in DOMAIN K[i] /\ m[i].child = K[i][1]
    BY <1>1, <2>1 DEF At
  <2> QED
    BY <2>2, <1>0 DEF Typed
<1>2. ASSUME m[i].next # NULL
      PROVE  \E p \in DOMAIN m : i \in Range(K[p]) /\ m[i].next \in Range(K[p])
  <2>1. PICK p \in DOMAIN m : i \in Range(K[p])
    BY <1>2, <1>0 DEF Top, Typed, Placed
  <2>2. PICK j \in 1 .. Len(K[p]) : i = K[p][j]
    BY <2>1, <1>0 DEF Typed
  <2>3. m[i].next = At(K[p], j + 1)
    BY <2>2, <1>0 DEF Placed
  <2>4. j + 1 \in DOMAIN K[p] /\ m[i].next = K[p][j + 1]
    BY <1>2, <2>3 DEF At
  <2> QED
    BY <2>1, <2>4, <1>0 DEF Typed
<1> QED
  BY <1>1, <1>2 DEF Links

\* Following child and next comes to an end.
LEMMA LinksGrounded ==
  ASSUME NEW m, NEW K, Fits(m, K)
  PROVE  Links(m) \in [DOMAIN m -> SUBSET DOMAIN m] /\ Grounded(Links(m))
<1> DEFINE D == DOMAIN m
<1>0. Typed(m, K) /\ Placed(m, K)
  BY FitsTypes DEF Fits
<1>1. \A i \in D : Links(m)[i] \subseteq D
  BY LinkIs, <1>0 DEF Typed
<1>2. Links(m) \in [D -> SUBSET D]
  BY <1>1 DEF Links
<1>3. ASSUME NEW S \in SUBSET D, S # {} PROVE \E i \in S : Links(m)[i] \cap S = {}
  <2> DEFINE T == {p \in D : Range(K[p]) \cap S # {}}
  <2>1. CASE T = {}
    <3>1. PICK i \in S : TRUE
      BY <1>3
    <3>2. \A p \in D : Range(K[p]) \cap S = {}
      BY <2>1
    <3>3. m[i].next = NULL
      BY <3>2, LinkIs
    <3>4. m[i].child = NULL \/ m[i].child \notin S
      BY <3>2, LinkIs
    <3> QED
      BY <3>3, <3>4, LinkIs
  <2>2. CASE T # {}
    <3>1. PICK p \in T : Held(K)[p] \cap T = {}
      <4>1. T \in SUBSET D
        OBVIOUS
      <4> HIDE DEF T
      <4> QED
        BY <2>2, <4>1, <1>0 DEF Grounded, Typed
    <3> DEFINE J == {j \in 1 .. Len(K[p]) : K[p][j] \in S}
    <3>0. /\ p \in D /\ Len(K[p]) \in Nat /\ Held(K)[p] = Range(K[p])
          /\ \A c \in Range(K[p]) : \E j \in 1 .. Len(K[p]) : c = K[p][j]
          /\ \A j \in 1 .. Len(K[p]) : K[p][j] \in Range(K[p])
      BY <1>0 DEF Typed
    <3>2. J # {} /\ J \subseteq 0 .. Len(K[p]) /\ Len(K[p]) \in Nat
      BY <3>0
    <3>3. PICK j \in J : \A k \in J : k <= j
      <4> HIDE DEF J
      <4> QED
        BY <3>2, GreatestOf
    <3> DEFINE i == K[p][j]
    <3>4. i \in S /\ i \in Held(K)[p] /\ m[i].next = At(K[p], j + 1)
      BY <3>0, <3>3, <1>0 DEF Placed
    <3>5. m[i].next = NULL \/ m[i].next \notin S
      <4>1. ASSUME m[i].next # NULL, m[i].next \in S PROVE FALSE
        <5>1. j + 1 \in 1 .. Len(K[p]) /\ m[i].next = K[p][j + 1]
          BY <3>1, <3>4, <4>1, <1>0 DEF At, Typed
        <5>2. j + 1 \in J /\ j \in Nat
          BY <3>2, <4>1, <5>1
        <5> QED
          BY <3>3, <5>2
      <4> QED
        BY <4>1
    <3>6. m[i].child = NULL \/ m[i].child \notin S
      BY <3>1, <3>4, LinkIs
    <3> QED
      BY <3>4, <3>5, <3>6, LinkIs
  <2> QED
    BY <2>1, <2>2
<1> QED
  BY <1>2, <1>3 DEF Grounded

\* Who follows the links from the first child on meets all children.
LEMMA WholeList ==
  ASSUME NEW m, NEW K, Fits(m, K), NEW S \in SUBSET DOMAIN m, Closed(Links(m), S),
         NEW p \in DOMAIN m, m[p].child \in S \cup {NULL}
  PROVE  Range(K[p]) \subseteq S
<1>0. Typed(m, K) /\ Placed(m, K)
  BY FitsTypes DEF Fits
<1> DEFINE J == {j \in 1 .. Len(K[p]) : K[p][j] \notin S}
<1>6. \A c \in Range(K[p]) : \E j \in 1 .. Len(K[p]) : c = K[p][j]
  BY <1>0 DEF Typed
<1> SUFFICES ASSUME J # {} PROVE FALSE
  BY <1>6
<1>1. J \subseteq Nat
  OBVIOUS
<1>2. PICK j \in J : \A k \in J : j <= k
  <2> HIDE DEF J
  <2> QED
    BY <1>1, LeastOf
<1>3. m[p].child = At(K[p], 1) /\ NULL \notin DOMAIN m /\ DOMAIN K[p] = 1 .. Len(K[p]) /\ Len(K[p]) \in Nat
  BY <1>0 DEF Typed, Placed
<1>4. CASE j = 1
  <2>1. m[p].child = K[p][1] /\ K[p][1] \in DOMAIN m
    BY <1>2, <1>3, <1>4, <1>0 DEF At, Typed
  <2> QED
    BY <1>2, <1>3, <1>4, <2>1
<1>5. CASE j # 1
  <2>1. j - 1 \in 1 .. Len(K[p]) /\ j - 1 \notin J
    BY <1>2, <1>3, <1>5
  <2> DEFINE i == K[p][j - 1]
  <2>2. i \in S /\ i \in DOMAIN m
    BY <2>1, <1>0 DEF Typed
  <2>3. m[i].next = At(K[p], (j - 1) + 1)
    BY <2>1, <1>0 DEF Placed
  <2>4. m[i].next = K[p][j] /\ K[p][j] \in DOMAIN m
    BY <1>2, <1>3, <2>3, <1>0 DEF At, Typed
  <2>5. K[p][j] \in Links(m)[i]
    BY <1>3, <2>2, <2>4, LinkIs
  <2> QED
    BY <1>2, <2>2, <2>5 DEF Closed
<1> QED
  BY <1>4, <1>5

-----------------------------------------------------------------------------
(***************************************************************************)
(* The recursions over next and child.                                     *)
(***************************************************************************)

\* The place of an item in the lists.
HolderOf(K, i) == CHOOSE p \in DOMAIN K : i \in Range(K[p])
IndexIn(s, i) == CHOOSE j \in 1 .. Len(s) : s[j] = i

\* An item of a list has one holder and one index.
LEMMA PlaceFound ==
  ASSUME NEW m, NEW K, Fits(m, K), NEW p \in DOMAIN m, NEW j \in 1 .. Len(K[p])
  PROVE  HolderOf(K, K[p][j]) = p /\ IndexIn(K[p], K[p][j]) = j
<1>1. Typed(m, K) /\ Once(K)
  BY FitsTypes DEF Fits
<1> DEFINE i == K[p][j]
           q == HolderOf(K, i)
           k == IndexIn(K[p], i)
<1>2. p \in DOMAIN K /\ i \in Range(K[p])
  BY <1>1 DEF Typed
<1>3. q \in DOMAIN K /\ i \in Range(K[q])
  BY <1>2 DEF HolderOf
<1>4. q = p
  <2>1. PICK h \in 1 .. Len(K[q]) : i = K[q][h]
    BY <1>1, <1>3 DEF Typed
  <2> QED
    BY <1>1, <1>2, <1>3, <2>1 DEF Once
<1>5. k \in 1 .. Len(K[p]) /\ K[p][k] = i
  BY DEF IndexIn
<1>6. k = j
  BY <1>1, <1>2, <1>5 DEF Once
<1> QED
  BY <1>4, <1>6

\* The items of a list from one of them on.
Rest(K, i) ==
  IF Top(K, i) THEN <<i>>
  ELSE LET s == K[HolderOf(K, i)] IN SubSeq(s, IndexIn(s, i), Len(s))

\* The list from an item on obeys the equation of List.
LEMMA RestIs ==
  ASSUME NEW m, NEW K, Fits(m, K), NEW i \in DOMAIN m
  PROVE  /\ m[i].next = NULL => Rest(K, i) = <<i>> \o <<>>
         /\ m[i].next # NULL => Rest(K, i) = <<i>> \o Rest(K, m[i].next) /\ m[i].next \in DOMAIN m
<1>0. Typed(m, K) /\ Placed(m, K)
  BY FitsTypes DEF Fits
<1>1. CASE Top(K, i)
  <2>1. m[i].next = NULL /\ Rest(K, i) = <<i>>
    BY <1>0, <1>1 DEF Placed, Rest
  <2> QED
    BY <2>1
<1>2. CASE ~Top(K, i)
  <2>1. PICK p \in DOMAIN m : i \in Range(K[p])
    BY <1>0, <1>2 DEF Top, Typed
  <2> DEFINE s == K[p]
  <2>2. /\ s \in Seq(DOMAIN m) /\ Len(s) \in Nat /\ DOMAIN s = 1 .. Len(s)
        /\ \A j \in 1 .. Len(s) : s[j] \in Range(s) /\ s[j] \in DOMAIN m
        /\ NULL \notin DOMAIN m /\ DOMAIN K = DOMAIN m
    BY <1>0 DEF Typed
  <2>3. PICK j \in 1 .. Len(s) : i = s[j]
    BY <1>0, <2>1 DEF Typed
  <2>4. m[i].next = At(s, j + 1)
    BY <1>0, <2>3 DEF Placed
  <2>5. \A k \in 1 .. Len(s) : ~Top(K, s[k])
    BY <2>2 DEF Top
  <2>6. \A k \in 1 .. Len(s) : Rest(K, s[k]) = SubSeq(s, k, Len(s))
    <3> SUFFICES ASSUME NEW k \in 1 .. Len(s) PROVE Rest(K, s[k]) = SubSeq(s, k, Len(s))
      OBVIOUS
    <3>1. HolderOf(K, s[k]) = p /\ IndexIn(s, s[k]) = k
      BY PlaceFound
    <3> QED
      BY <2>5, <3>1 DEF Rest
  <2> HIDE DEF s
  <2>7. SubSeq(s, j, Len(s)) = <<s[j]>> \o SubSeq(s, j + 1, Len(s))
    <3>1. Len(s) \in j .. Len(s)
      BY <2>2
    <3> QED
      BY <2>2, <3>1, SubSeqRecursiveFirst
  <2>8. CASE j + 1 \in 1 .. Len(s)
    BY <2>2, <2>3, <2>4, <2>6, <2>7, <2>8 DEF At
  <2>9. CASE j + 1 \notin 1 .. Len(s)
    <3>1. Len(s) < j + 1 /\ j + 1 \in Int /\ Len(s) \in Int
      BY <2>2, <2>9
    <3>2. SubSeq(s, j + 1, Len(s)) = <<>>
      BY <3>1, SubSeqEmpty
    <3>3. m[i].next = NULL
      BY <2>2, <2>4, <2>9 DEF At
    <3> QED
      BY <2>3, <2>6, <2>7, <3>2, <3>3
  <2> QED
    BY <2>8, <2>9
<1> QED
  BY <1>1, <1>2

\* Following next from the first child on gives the list of children.
LEMMA ListIs ==
  ASSUME NEW m, NEW K, Fits(m, K), NEW p \in DOMAIN m
  PROVE  List(m, m[p].child) = K[p]
<1>0. Typed(m, K) /\ Placed(m, K)
  BY FitsTypes DEF Fits
<1> DEFINE D == DOMAIN m
           Is(f) == f = [i \in D \cup {NULL} |->
                           IF i = NULL THEN <<>> ELSE <<i>> \o f[m[i].next]]
           g == [i \in D \cup {NULL} |-> IF i = NULL THEN <<>> ELSE Rest(K, i)]
           from == CHOOSE f : Is(f)
<1>1. NULL \notin D
  BY <1>0 DEF Typed
<1>2. g[NULL] = <<>> /\ \A i \in D : g[i] = Rest(K, i)
  BY <1>1
<1>3. \A i \in D : g[i] = <<i>> \o g[m[i].next]
  BY <1>1, <1>2, RestIs
<1>4. Is(g)
  <2>1. \A i \in D \cup {NULL} : g[i] = IF i = NULL THEN <<>> ELSE <<i>> \o g[m[i].next]
    BY <1>1, <1>2, <1>3
  <2>2. g = [i \in D \cup {NULL} |-> g[i]]
    OBVIOUS
  <2> HIDE DEF g
  <2>3. [i \in D \cup {NULL} |-> g[i]] =
          [i \in D \cup {NULL} |-> IF i = NULL THEN <<>> ELSE <<i>> \o g[m[i].next]]
    BY <2>1
  <2> QED
    BY <2>2, <2>3
<1>5. List(m, m[p].child) = from[m[p].child]
  BY DEF List
<1> HIDE DEF g
<1>6. Is(from)
  <2> HIDE DEF Is
  <2> QED
    BY <1>4
<1> HIDE DEF from
<1>7. from[NULL] = <<>> /\ \A i \in D : from[i] = <<i>> \o from[m[i].next]
  BY <1>1, <1>6
<1>8. \A i \in D : from[i] = g[i]
  <2> DEFINE S == {i \in D : from[i] # g[i]}
  <2> SUFFICES ASSUME S # {} PROVE FALSE
    OBVIOUS
  <2>1. PICK i \in S : Links(m)[i] \cap S = {}
    <3>1. Links(m) \in [D -> SUBSET D] /\ Grounded(Links(m))
      BY LinksGrounded
    <3>2. S \in SUBSET D /\ DOMAIN Links(m) = D
      BY <3>1
    <3> HIDE DEF S
    <3> QED
      BY <3>1, <3>2 DEF Grounded
  <2>2. m[i].next = NULL \/ (m[i].next \in D /\ m[i].next \notin S)
    <3>1. Links(m)[i] = {m[i].child, m[i].next} \ {NULL}
      BY LinkIs
    <3>2. m[i].next # NULL => m[i].next \in D
      BY RestIs
    <3> QED
      BY <2>1, <3>1, <3>2
  <2>3. from[m[i].next] = g[m[i].next]
    BY <1>2, <1>7, <2>2
  <2> QED
    BY <1>3, <1>7, <2>1, <2>3
<1>9. CASE m[p].child = NULL
  <2>1. /\ 1 \notin DOMAIN K[p] \/ K[p][1] = NULL
        /\ DOMAIN K[p] = 1 .. Len(K[p]) /\ Len(K[p]) \in Nat /\ K[p] \in Seq(D)
        /\ \A j \in 1 .. Len(K[p]) : K[p][j] \in D
    BY <1>0, <1>9 DEF Typed, Placed, At
  <2>2. Len(K[p]) = 0
    BY <1>1, <2>1
  <2>3. K[p] = <<>>
    BY <2>1, <2>2
  <2> QED
    BY <1>5, <1>7, <1>9, <2>3
<1>10. CASE m[p].child # NULL
  <2>1. /\ m[p].child = K[p][1] /\ 1 \in 1 .. Len(K[p]) /\ K[p] \in Seq(D) /\ K[p][1] \in D
        /\ K[p][1] \in Range(K[p])
    BY <1>0, <1>10 DEF Typed, Placed, At
  <2>2. ~Top(K, K[p][1])
    BY <1>0, <2>1 DEF Typed, Top
  <2>3. Rest(K, K[p][1]) = SubSeq(K[p], 1, Len(K[p]))
    BY <2>1, <2>2, PlaceFound DEF Rest
  <2>4. SubSeq(K[p], 1, Len(K[p])) = K[p]
    BY <2>1, SubSeqFull
  <2> QED
    BY <1>2, <1>5, <1>8, <2>1, <2>3, <2>4
<1> QED
  BY <1>9, <1>10

\* An item with all that is below it.
Below(K, i) == Reach(Held(K), i)

\* The same, as JsonTree collects it.
Collected(K, i) ==
  LET below[j \in DOMAIN K] == {j} \cup UNION {below[c] : c \in Range(K[j])} IN below[i]

\* What the tree collects is what is reached.
LEMMA CollectedIs ==
  ASSUME NEW D, NEW K, DOMAIN K = D, Held(K) \in [D -> SUBSET D], Grounded(Held(K)), NEW i \in D
  PROVE  Collected(K, i) = Below(K, i)
<1> DEFINE Is(f) == f = [j \in D |-> {j} \cup UNION {f[c] : c \in Range(K[j])}]
           g == [j \in D |-> Below(K, j)]
           below == CHOOSE f : Is(f)
<1>1. \A j \in D : Held(K)[j] = Range(K[j]) /\ Range(K[j]) \subseteq D
  <2>1. \A j \in D : Held(K)[j] = Range(K[j])
    BY DEF Held
  <2> QED
    BY <2>1
<1>2. Is(g)
  <2> SUFFICES ASSUME NEW j \in D PROVE g[j] = {j} \cup UNION {g[c] : c \in Range(K[j])}
    OBVIOUS
  <2>1. g[j] = {j} \cup UNION {Reach(Held(K), c) : c \in Held(K)[j]}
    BY ReachStep DEF Below
  <2>2. \A c \in Range(K[j]) : g[c] = Reach(Held(K), c)
    BY <1>1 DEF Below
  <2>3. {g[c] : c \in Range(K[j])} = {Reach(Held(K), c) : c \in Held(K)[j]}
    BY <1>1, <2>2
  <2> QED
    BY <2>1, <2>3
<1> HIDE DEF g
<1>3. Is(below)
  <2> HIDE DEF Is
  <2> QED
    BY <1>2
<1>4. Collected(K, i) = below[i]
  BY DEF Collected
<1> HIDE DEF below
<1>5. \A j \in D : below[j] = {j} \cup UNION {below[c] : c \in Held(K)[j]}
  <2> SUFFICES ASSUME NEW j \in D PROVE below[j] = {j} \cup UNION {below[c] : c \in Held(K)[j]}
    OBVIOUS
  <2>1. below[j] = {j} \cup UNION {below[c] : c \in Range(K[j])}
    BY <1>3
  <2> QED
    BY <1>1, <2>1
<1>6. \A j \in D : below[j] = Reach(Held(K), j)
  BY <1>5, CollectsReach
<1> QED
  BY <1>4, <1>6 DEF Below

\* cJSON_Delete frees what it reaches.
LEMMA FreedIs ==
  ASSUME NEW m, NEW K, Fits(m, K)
  PROVE  /\ FreedWith(m, NULL) = {}
         /\ \A c \in DOMAIN m : FreedWith(m, c) = Reach(Links(m), c)
<1> DEFINE D == DOMAIN m
           Is(f) == f = [i \in D \cup {NULL} |->
                           IF i = NULL THEN {} ELSE {i} \cup f[m[i].child] \cup f[m[i].next]]
           g == [i \in D \cup {NULL} |-> IF i = NULL THEN {} ELSE Reach(Links(m), i)]
           freed == CHOOSE f : Is(f)
<1>0. NULL \notin D /\ Links(m) \in [D -> SUBSET D] /\ Grounded(Links(m))
  BY FitsTypes, LinksGrounded DEF Typed
<1>1. \A i \in D : /\ Links(m)[i] = {m[i].child, m[i].next} \ {NULL}
                   /\ Links(m)[i] \subseteq D
                   /\ m[i].child \in D \cup {NULL} /\ m[i].next \in D \cup {NULL}
  <2>1. \A i \in D : Links(m)[i] = {m[i].child, m[i].next} \ {NULL}
    BY LinkIs
  <2>2. \A i \in D : Links(m)[i] \subseteq D
    BY <1>0
  <2> QED
    BY <2>1, <2>2
\* A set for each of the two pointers is a set for each item they lead to.
<1>2. ASSUME NEW f, f[NULL] = {}, NEW i \in D
      PROVE  f[m[i].child] \cup f[m[i].next] = UNION {f[k] : k \in Links(m)[i]}
  <2> DEFINE a == m[i].child
             b == m[i].next
  <2>1. Links(m)[i] = {a, b} \ {NULL}
    BY <1>1
  <2> HIDE DEF a, b
  <2>2. f[a] \cup f[b] = UNION {f[k] : k \in {a, b} \ {NULL}}
    BY <1>2
  <2> QED
    BY <2>1, <2>2 DEF a, b
<1>3. g[NULL] = {} /\ \A i \in D : g[i] = Reach(Links(m), i)
  BY <1>0
<1>4. Is(g)
  <2>1. ASSUME NEW i \in D PROVE g[i] = {i} \cup g[m[i].child] \cup g[m[i].next]
    <3>1. g[i] = {i} \cup UNION {Reach(Links(m), k) : k \in Links(m)[i]}
      BY <1>0, <1>3, ReachStep
    <3>2. {g[k] : k \in Links(m)[i]} = {Reach(Links(m), k) : k \in Links(m)[i]}
      <4>1. \A k \in Links(m)[i] : g[k] = Reach(Links(m), k)
        BY <1>1, <1>3
      <4> HIDE DEF g
      <4> QED
        BY <4>1
    <3>3. g[m[i].child] \cup g[m[i].next] = UNION {g[k] : k \in Links(m)[i]}
      <4> HIDE DEF g
      <4> QED
        BY <1>2, <1>3
    <3> QED
      BY <3>1, <3>2, <3>3
  <2>2. \A i \in D \cup {NULL} :
          g[i] = IF i = NULL THEN {} ELSE {i} \cup g[m[i].child] \cup g[m[i].next]
    BY <1>0, <1>3, <2>1
  <2>3. g = [i \in D \cup {NULL} |-> g[i]]
    OBVIOUS
  <2> HIDE DEF g
  <2>4. [i \in D \cup {NULL} |-> g[i]] =
          [i \in D \cup {NULL} |->
             IF i = NULL THEN {} ELSE {i} \cup g[m[i].child] \cup g[m[i].next]]
    BY <2>2
  <2> QED
    BY <2>3, <2>4
<1>5. \A c \in D \cup {NULL} : FreedWith(m, c) = freed[c]
  BY DEF FreedWith
<1> HIDE DEF g
<1>6. Is(freed)
  <2> HIDE DEF Is
  <2> QED
    BY <1>4
<1> HIDE DEF freed
<1>7. freed[NULL] = {} /\ \A i \in D : freed[i] = {i} \cup freed[m[i].child] \cup freed[m[i].next]
  BY <1>0, <1>6
<1>8. \A i \in D : freed[i] = {i} \cup UNION {freed[k] : k \in Links(m)[i]}
  <2> SUFFICES ASSUME NEW i \in D PROVE freed[i] = {i} \cup UNION {freed[k] : k \in Links(m)[i]}
    OBVIOUS
  <2>1. freed[m[i].child] \cup freed[m[i].next] = UNION {freed[k] : k \in Links(m)[i]}
    BY <1>2, <1>7
  <2> QED
    BY <1>7, <2>1
<1>9. \A i \in D : freed[i] = Reach(Links(m), i)
  BY <1>0, <1>8, CollectsReach
<1> QED
  BY <1>5, <1>7, <1>9

\* What is below an item is closed under its pointers, but for its own next.
LEMMA BelowHolds ==
  ASSUME NEW m, NEW K, Fits(m, K), NEW i \in DOMAIN m
  PROVE  /\ i \in Below(K, i) /\ Below(K, i) \subseteq DOMAIN m
         /\ \A p \in Below(K, i) : Range(K[p]) \subseteq Below(K, i)
         /\ \A p \in Below(K, i) : i \notin Range(K[p])
         /\ \A j \in Below(K, i) : m[j].child \in (Below(K, i) \ {i}) \cup {NULL}
         /\ \A j \in Below(K, i) \ {i} : m[j].next \in (Below(K, i) \ {i}) \cup {NULL}
<1>0. Typed(m, K) /\ Placed(m, K) /\ Once(K)
  BY FitsTypes DEF Fits
<1> DEFINE B == Below(K, i)
           D == DOMAIN m
<1>1. i \in B /\ B \subseteq D /\ Closed(Held(K), B)
  BY <1>0, ReachCloses DEF Typed, Below
<1>2. \A p \in D : Held(K)[p] = Range(K[p])
  BY <1>0 DEF Typed
<1>3. \A p \in B : Range(K[p]) \subseteq B
  BY <1>1, <1>2 DEF Closed
<1>4. ASSUME NEW p \in B, i \in Range(K[p]) PROVE FALSE
  <2>1. p \in D /\ i \in Held(K)[p]
    BY <1>1, <1>2, <1>4
  <2>2. p \notin Reach(Held(K), i)
    BY <1>0, <2>1, NoWayBack DEF Typed
  <2> QED
    BY <2>2 DEF Below
<1>5. ASSUME NEW j \in B, m[j].child # NULL PROVE m[j].child \in B \ {i}
  <2>1. m[j].child \in Range(K[j])
    BY <1>1, <1>5, LinkIs
  <2> QED
    BY <1>3, <1>4, <2>1
<1>6. ASSUME NEW j \in B \ {i}, m[j].next # NULL PROVE m[j].next \in B \ {i}
  <2>1. PICK p \in B : j \in Held(K)[p]
    <3>1. Held(K) \in [D -> SUBSET D] /\ j \in Reach(Held(K), i) /\ j # i
      BY <1>0, <1>6 DEF Typed, Below
    <3>2. \E p \in Reach(Held(K), i) : j \in Held(K)[p]
      BY <3>1, ReachedFrom
    <3> QED
      BY <3>2 DEF Below
  <2>2. j \in Range(K[p]) /\ p \in D
    BY <1>1, <1>2, <2>1
  <2>3. PICK q \in D : j \in Range(K[q]) /\ m[j].next \in Range(K[q])
    BY <1>1, <1>6, LinkIs
  <2>4. q = p
    <3>1. PICK h \in 1 .. Len(K[p]) : j = K[p][h]
      BY <1>0, <2>2 DEF Typed
    <3>2. PICK k \in 1 .. Len(K[q]) : j = K[q][k]
      BY <1>0, <2>3 DEF Typed
    <3>3. DOMAIN K = D
      BY <1>0 DEF Typed
    <3> QED
      BY <1>0, <2>2, <3>1, <3>2, <3>3 DEF Once
  <2> QED
    BY <1>3, <1>4, <2>3, <2>4
<1> HIDE DEF B
<1> QED
  BY <1>1, <1>3, <1>4, <1>5, <1>6 DEF B

\* A set closed under the pointers is closed under children.
LEMMA LinksCloseHeld ==
  ASSUME NEW m, NEW K, Fits(m, K), NEW S \in SUBSET DOMAIN m, Closed(Links(m), S)
  PROVE  \A p \in S : Range(K[p]) \subseteq S
<1> SUFFICES ASSUME NEW p \in S PROVE Range(K[p]) \subseteq S
  OBVIOUS
<1>1. m[p].child \in S \cup {NULL}
  BY LinkIs DEF Closed
<1> QED
  BY <1>1, WholeList

\* An item that is followed by none is freed with what is below it.
LEMMA FreedTop ==
  ASSUME NEW m, NEW K, Fits(m, K), NEW c \in DOMAIN m, m[c].next = NULL
  PROVE  FreedWith(m, c) = Below(K, c)
<1> DEFINE R == Reach(Links(m), c)
           B == Below(K, c)
<1>1. FreedWith(m, c) = R
  BY FreedIs
<1>2. Links(m) \in [DOMAIN m -> SUBSET DOMAIN m] /\ Typed(m, K)
  BY LinksGrounded, FitsTypes
<1>3. R \subseteq B
  <2>1. c \in B /\ B \subseteq DOMAIN m
    BY BelowHolds
  <2>2. ASSUME NEW j \in B PROVE Links(m)[j] \subseteq B
    <3>1. m[j].child \in B \cup {NULL} /\ m[j].next \in B \cup {NULL}
      BY BelowHolds
    <3> QED
      BY <2>1, <3>1, LinkIs
  <2> HIDE DEF B
  <2>3. Closed(Links(m), B)
    BY <2>2 DEF Closed
  <2> QED
    BY <1>2, <2>1, <2>3, ReachLeast
<1>4. B \subseteq R
  <2>1. c \in R /\ R \subseteq DOMAIN m /\ Closed(Links(m), R)
    BY <1>2, ReachCloses
  <2> HIDE DEF R
  <2>2. \A p \in R : Range(K[p]) \subseteq R
    BY <2>1, LinksCloseHeld
  <2>3. Closed(Held(K), R) /\ DOMAIN Held(K) = DOMAIN m
    BY <1>2, <2>1, <2>2 DEF Closed, Typed
  <2> QED
    BY <2>1, <2>3, ReachLeast DEF Below
<1> QED
  BY <1>1, <1>3, <1>4

\* An item and what is freed with its first child: all below it.
LEMMA FreedChildren ==
  ASSUME NEW m, NEW K, Fits(m, K), NEW i \in DOMAIN m
  PROVE  {i} \cup FreedWith(m, m[i].child) = Below(K, i)
<1> DEFINE c == m[i].child
           F == FreedWith(m, c)
           B == Below(K, i)
<1>1. Links(m) \in [DOMAIN m -> SUBSET DOMAIN m] /\ Typed(m, K)
  BY LinksGrounded, FitsTypes
<1>2. i \in B /\ B \subseteq DOMAIN m /\ c \in (B \ {i}) \cup {NULL}
  BY BelowHolds
<1>3. /\ F \subseteq B /\ F \subseteq DOMAIN m
      /\ \A p \in {i} \cup F : Range(K[p]) \subseteq F
  <2>1. CASE c = NULL
    <3>1. F = {}
      BY <2>1, FreedIs
    <3>2. Closed(Links(m), {})
      BY DEF Closed
    <3>3. Range(K[i]) \subseteq {}
      BY <2>1, <3>2, WholeList
    <3> QED
      BY <3>1, <3>3
  <2>2. CASE c # NULL
    <3>1. c \in DOMAIN m /\ F = Reach(Links(m), c)
      BY <1>2, <2>2, FreedIs
    <3>2. c \in F /\ F \subseteq DOMAIN m /\ Closed(Links(m), F)
      BY <1>1, <3>1, ReachCloses
    <3>3. F \subseteq B \ {i}
      <4>1. ASSUME NEW j \in B \ {i} PROVE Links(m)[j] \subseteq B \ {i}
        <5>1. m[j].child \in (B \ {i}) \cup {NULL} /\ m[j].next \in (B \ {i}) \cup {NULL}
          BY BelowHolds
        <5>2. j \in DOMAIN m
          BY <1>2
        <5> QED
          BY <5>1, <5>2, LinkIs
      <4>2. Closed(Links(m), B \ {i})
        BY <4>1 DEF Closed
      <4>3. c \in B \ {i} /\ B \ {i} \in SUBSET DOMAIN Links(m)
        BY <1>1, <1>2, <2>2
      <4> QED
        BY <3>1, <4>2, <4>3, ReachLeast
    <3>4. Range(K[i]) \subseteq F
      BY <3>2, WholeList
    <3>5. \A p \in F : Range(K[p]) \subseteq F
      BY <3>2, LinksCloseHeld
    <3> QED
      BY <3>2, <3>3, <3>4, <3>5
  <2> QED
    BY <2>1, <2>2
<1> HIDE DEF F
<1>4. B \subseteq {i} \cup F
  <2>1. Closed(Held(K), {i} \cup F) /\ {i} \cup F \in SUBSET DOMAIN Held(K)
    BY <1>1, <1>3 DEF Closed, Typed
  <2> QED
    BY <2>1, ReachLeast DEF Below
<1> QED
  BY <1>2, <1>3, <1>4 DEF F

-----------------------------------------------------------------------------
(***************************************************************************)
(* One pointer changes.                                                    *)
(***************************************************************************)

\* Blocks that agree in one of their fields.
SameNext(n, m) == \A i \in DOMAIN m : n[i].next = m[i].next
SamePrev(n, m) == \A i \in DOMAIN m : n[i].prev = m[i].prev
SameChild(n, m) == \A i \in DOMAIN m : n[i].child = m[i].child
SameString(n, m) == \A i \in DOMAIN m : n[i].string = m[i].string
Blocks(m) == m \in [DOMAIN m -> Node] /\ NULL \notin DOMAIN m

\* n is m with the next, or the prev, of the item p being x.
NextIs(n, m, p, x) ==
  /\ Blocks(n) /\ DOMAIN n = DOMAIN m
  /\ \A i \in DOMAIN m : n[i].next = IF i = p THEN x ELSE m[i].next
  /\ SamePrev(n, m) /\ SameChild(n, m) /\ SameString(n, m)
PrevIs(n, m, p, x) ==
  /\ Blocks(n) /\ DOMAIN n = DOMAIN m
  /\ \A i \in DOMAIN m : n[i].prev = IF i = p THEN x ELSE m[i].prev
  /\ SameNext(n, m) /\ SameChild(n, m) /\ SameString(n, m)
NextPrevIs(n, m, p, x, y) ==
  /\ Blocks(n) /\ DOMAIN n = DOMAIN m
  /\ \A i \in DOMAIN m : n[i].next = IF i = p THEN x ELSE m[i].next
  /\ \A i \in DOMAIN m : n[i].prev = IF i = p THEN y ELSE m[i].prev
  /\ SameChild(n, m) /\ SameString(n, m)

\* SetNext, SetPrev and the assignments to single pointers.
LEMMA NextSet ==
  ASSUME NEW m, Blocks(m), NEW p \in DOMAIN m \cup {NULL}, NEW x \in Pointer
  PROVE  NextIs(SetNext(m, p, x), m, p, x)
BY DEF NextIs, SetNext, Blocks, Node, SamePrev, SameChild, SameString

LEMMA PrevSet ==
  ASSUME NEW m, Blocks(m), NEW p \in DOMAIN m \cup {NULL}, NEW x \in Pointer
  PROVE  PrevIs(SetPrev(m, p, x), m, p, x)
BY DEF PrevIs, SetPrev, Blocks, Node, SameNext, SameChild, SameString

LEMMA ChildSet ==
  ASSUME NEW m, Blocks(m), NEW p \in DOMAIN m, NEW x \in Pointer
  PROVE  LET n == [m EXCEPT ![p].child = x]
         IN /\ Blocks(n) /\ DOMAIN n = DOMAIN m
            /\ \A i \in DOMAIN m : n[i].child = IF i = p THEN x ELSE m[i].child
            /\ SameNext(n, m) /\ SamePrev(n, m) /\ SameString(n, m)
BY DEF Blocks, Node, SameNext, SamePrev, SameString

LEMMA StringSet ==
  ASSUME NEW m, Blocks(m), NEW p \in DOMAIN m, NEW x \in Names \cup {NULL}
  PROVE  LET n == [m EXCEPT ![p].string = x]
         IN /\ Blocks(n) /\ DOMAIN n = DOMAIN m
            /\ \A i \in DOMAIN m : n[i].string = IF i = p THEN x ELSE m[i].string
            /\ SameNext(n, m) /\ SamePrev(n, m) /\ SameChild(n, m)
BY DEF Blocks, Node, SameNext, SamePrev, SameChild

LEMMA NextPrevSet ==
  ASSUME NEW m, Blocks(m), NEW p \in DOMAIN m, NEW x \in Pointer, NEW y \in Pointer
  PROVE  NextPrevIs([m EXCEPT ![p].next = x, ![p].prev = y], m, p, x, y)
BY DEF NextPrevIs, Blocks, Node, SameChild, SameString

LEMMA PrevNextSet ==
  ASSUME NEW m, Blocks(m), NEW p \in DOMAIN m, NEW x \in Pointer, NEW y \in Pointer
  PROVE  NextPrevIs([m EXCEPT ![p].prev = y, ![p].next = x], m, p, x, y)
BY DEF NextPrevIs, Blocks, Node, SameChild, SameString

\* The link to c, which is in the array or in the item before it, is x.
LinkedAs(n, m, a, c, x) ==
  /\ Blocks(n) /\ DOMAIN n = DOMAIN m
  /\ \A i \in DOMAIN m : n[i].child = IF i = a /\ c = m[a].child THEN x ELSE m[i].child
  /\ \A i \in DOMAIN m : n[i].next = IF i = m[c].prev THEN x ELSE m[i].next
  /\ SamePrev(n, m) /\ SameString(n, m)

\* The link to c is the child of a, or the next of the item before c.
LEMMA LinkSet ==
  ASSUME NEW m, Blocks(m), NEW a \in DOMAIN m, NEW c \in DOMAIN m, NEW x \in Pointer,
         m[c].prev \in DOMAIN m \cup {NULL},
         c = m[a].child => m[c].prev = NULL
  PROVE  LinkedAs(SetLink(m, a, c, x), m, a, c, x)
<1>1. CASE c = m[a].child
  <2> DEFINE n == [m EXCEPT ![a].child = x]
  <2>1. /\ Blocks(n) /\ DOMAIN n = DOMAIN m
        /\ \A i \in DOMAIN m : n[i].child = IF i = a THEN x ELSE m[i].child
        /\ SameNext(n, m) /\ SamePrev(n, m) /\ SameString(n, m)
    BY ChildSet
  <2>2. SetLink(m, a, c, x) = n
    BY <1>1 DEF SetLink
  <2> HIDE DEF n
  <2> QED
    BY <1>1, <2>1, <2>2 DEF SameNext, Blocks, LinkedAs
<1>2. CASE c # m[a].child
  <2> DEFINE n == SetNext(m, m[c].prev, x)
  <2>1. /\ Blocks(n) /\ DOMAIN n = DOMAIN m
        /\ \A i \in DOMAIN m : n[i].next = IF i = m[c].prev THEN x ELSE m[i].next
        /\ SamePrev(n, m) /\ SameChild(n, m) /\ SameString(n, m)
    <3>1. NextIs(n, m, m[c].prev, x)
      BY NextSet
    <3> HIDE DEF n
    <3> QED
      BY <3>1 DEF NextIs
  <2>2. SetLink(m, a, c, x) = n
    BY <1>2 DEF SetLink
  <2> HIDE DEF n
  <2> QED
    BY <1>2, <2>1, <2>2 DEF SameChild, LinkedAs
<1> QED
  BY <1>1, <1>2

-----------------------------------------------------------------------------
(***************************************************************************)
(* The list of one array changes: some of its items are taken out, and an  *)
(* item that was in no array may come in.                                  *)
(***************************************************************************)

Free(K, a, item) == Top(K, item) /\ a \notin Below(K, item)

\* What the new list t of the array a is made of.
MadeOf(K, a, item, t) ==
  /\ \A i, j \in 1 .. Len(t) : t[i] = t[j] => i = j
  /\ \A j \in 1 .. Len(t) : t[j] \in Range(K[a]) \/ (t[j] = item /\ Free(K, a, item))

\* The pointers of n are those of m but for what the new list changes.
Relinked(m, n, K, a, t) ==
  /\ Blocks(n) /\ DOMAIN n = DOMAIN m
  /\ \A p \in DOMAIN m : n[p].child = IF p = a THEN At(t, 1) ELSE m[p].child
  /\ \A j \in 1 .. Len(t) : n[t[j]].next = At(t, j + 1) /\ n[t[j]].prev = At(t, j - 1)
  /\ \A c \in DOMAIN m \ Range(t) :
       /\ c \notin Range(K[a]) => n[c].next = m[c].next /\ n[c].prev = m[c].prev
       /\ c \in Range(K[a]) => n[c].next = NULL /\ n[c].prev = NULL

\* No item gets below itself.
LEMMA ChangeGrounded ==
  ASSUME NEW m, NEW K, Fits(m, K), NEW a \in DOMAIN m, NEW item \in DOMAIN m,
         NEW t \in Seq(DOMAIN m), MadeOf(K, a, item, t)
  PROVE  Grounded(Held([K EXCEPT ![a] = t]))
<1> DEFINE D == DOMAIN m
           L == [K EXCEPT ![a] = t]
<1>0. Typed(m, K)
  BY FitsTypes
<1>1. /\ DOMAIN L = D /\ DOMAIN Held(L) = D /\ DOMAIN Held(K) = D
      /\ \A p \in D : Held(L)[p] = Range(L[p]) /\ Held(K)[p] = Range(K[p])
      /\ L[a] = t /\ \A p \in D : p # a => L[p] = K[p]
  BY <1>0 DEF Typed, Held
<1>2. \A c \in Range(t) : c \in Range(K[a]) \/ (c = item /\ Free(K, a, item))
  BY SeqItems DEF MadeOf
<1> SUFFICES Grounded(Held(L))
  OBVIOUS
<1> HIDE DEF L
<1> SUFFICES ASSUME NEW S \in SUBSET D, S # {}, \A i \in S : Held(L)[i] \cap S # {}
             PROVE  FALSE
  BY <1>1 DEF Grounded
<1>3. \A i \in S : Held(K)[i] \cap S # {} \/ (i = a /\ item \in S /\ Free(K, a, item))
  BY <1>1, <1>2
<1>4. PICK i \in S : Held(K)[i] \cap S = {}
  BY <1>0, <1>1 DEF Typed, Grounded
<1>5. a \in S /\ item \in S /\ a \notin Below(K, item)
  BY <1>3, <1>4 DEF Free
<1> DEFINE T == S \cap Below(K, item)
<1>6. item \in T /\ T \in SUBSET D
  BY <1>5, BelowHolds
<1>7. ASSUME NEW j \in T PROVE Held(K)[j] \cap T # {}
  <2>1. j \in S /\ j # a /\ j \in D
    BY <1>5
  <2>2. PICK k \in Held(K)[j] : k \in S
    BY <1>3, <2>1
  <2>3. k \in Below(K, item)
    BY <1>1, <2>1, <2>2, BelowHolds
  <2> QED
    BY <2>2, <2>3
<1> HIDE DEF T
<1> QED
  BY <1>0, <1>1, <1>6, <1>7 DEF Typed, Grounded

\* One list changes, the pointers with it: they fit the new lists.
LEMMA ChangeFits ==
  ASSUME NEW m, NEW K, Fits(m, K), NEW a \in DOMAIN m, NEW item \in DOMAIN m,
         NEW t \in Seq(DOMAIN m), MadeOf(K, a, item, t), NEW n, Relinked(m, n, K, a, t)
  PROVE  Fits(n, [K EXCEPT ![a] = t])
<1> DEFINE D == DOMAIN m
           L == [K EXCEPT ![a] = t]
<1>0. Typed(m, K) /\ Placed(m, K) /\ Once(K) /\ D \subseteq Items
  BY FitsTypes DEF Fits
<1>1. DOMAIN n = D /\ n \in [D -> Node]
  BY DEF Relinked, Blocks
<1>2. L \in [D -> Seq(D)] /\ DOMAIN L = D /\ L[a] = t /\ \A p \in D : p # a => L[p] = K[p]
  BY <1>0 DEF Typed
<1>3. /\ \A j \in 1 .. Len(t) : t[j] \in D /\ t[j] \in Range(t)
      /\ \A c \in Range(t) : \E j \in 1 .. Len(t) : c = t[j]
  BY SeqItems
<1>4. \A p \in D : \A c \in Range(K[p]) : p # a => c \notin Range(K[a]) /\ c \notin Range(t)
  <2> SUFFICES ASSUME NEW p \in D, NEW c \in Range(K[p]), p # a
               PROVE  c \notin Range(K[a]) /\ c \notin Range(t)
    OBVIOUS
  <2>1. c \notin Range(K[a])
    <3> SUFFICES ASSUME c \in Range(K[a]) PROVE FALSE
      OBVIOUS
    <3>1. PICK i \in 1 .. Len(K[p]) : c = K[p][i]
      BY <1>0 DEF Typed
    <3>2. PICK j \in 1 .. Len(K[a]) : c = K[a][j]
      BY <1>0 DEF Typed
    <3>3. p \in DOMAIN K /\ a \in DOMAIN K
      BY <1>0 DEF Typed
    <3>4. p = a
      BY <1>0, <3>1, <3>2, <3>3 DEF Once
    <3> QED
      BY <3>4
  <2>2. ~Top(K, c)
    BY <1>0 DEF Top, Typed
  <2>3. \A j \in 1 .. Len(t) : t[j] # c
    BY <2>1, <2>2 DEF MadeOf, Free
  <2> QED
    BY <1>3, <2>1, <2>3
<1> HIDE DEF L
<1>5. Placed(n, L)
  <2>1. ASSUME NEW p \in D PROVE n[p].child = At(L[p], 1)
    BY <1>0, <1>2 DEF Placed, Relinked
  <2>2. ASSUME NEW p \in D, NEW j \in 1 .. Len(L[p])
        PROVE  n[L[p][j]].next = At(L[p], j + 1) /\ n[L[p][j]].prev = At(L[p], j - 1)
    <3>1. CASE p = a
      BY <1>2, <3>1 DEF Relinked
    <3>2. CASE p # a
      <4>1. L[p] = K[p] /\ K[p][j] \in Range(K[p]) /\ K[p][j] \in D
        BY <1>0, <1>2, <3>2 DEF Typed
      <4>2. n[K[p][j]].next = m[K[p][j]].next /\ n[K[p][j]].prev = m[K[p][j]].prev
        BY <1>4, <3>2, <4>1 DEF Relinked
      <4> QED
        BY <1>0, <4>1, <4>2 DEF Placed
    <3> QED
      BY <3>1, <3>2
  <2>3. ASSUME NEW c \in D, Top(L, c) PROVE n[c].next = NULL /\ n[c].prev = NULL
    <3>1. c \notin Range(t) /\ \A p \in D : p # a => c \notin Range(K[p])
      BY <1>2, <2>3 DEF Top
    <3>2. CASE c \in Range(K[a])
      BY <3>1, <3>2 DEF Relinked
    <3>3. CASE c \notin Range(K[a])
      <4>1. Top(K, c)
        BY <1>0, <3>1, <3>3 DEF Top, Typed
      <4> QED
        BY <1>0, <3>1, <3>3, <4>1 DEF Placed, Relinked
    <3> QED
      BY <3>2, <3>3
  <2> QED
    BY <1>1, <2>1, <2>2, <2>3 DEF Placed
<1>6. Once(L)
  <2> SUFFICES ASSUME NEW p \in D, NEW q \in D, NEW i \in 1 .. Len(L[p]), NEW j \in 1 .. Len(L[q]),
                      L[p][i] = L[q][j]
               PROVE  p = q /\ i = j
    BY <1>2 DEF Once
  <2>1. CASE p = a /\ q = a
    BY <1>2, <2>1 DEF MadeOf
  <2>2. CASE p # a /\ q # a
    <3>1. L[p] = K[p] /\ L[q] = K[q] /\ DOMAIN K = D
      BY <1>0, <1>2, <2>2 DEF Typed
    <3> QED
      BY <1>0, <3>1 DEF Once
  <2>3. CASE p = a /\ q # a
    <3>1. L[q] = K[q] /\ K[q][j] \in Range(K[q]) /\ L[p] = t /\ t[i] \in Range(t)
      BY <1>0, <1>2, <1>3, <2>3 DEF Typed
    <3> QED
      BY <1>4, <2>3, <3>1
  <2>4. CASE p # a /\ q = a
    <3>1. L[p] = K[p] /\ K[p][i] \in Range(K[p]) /\ L[q] = t /\ t[j] \in Range(t)
      BY <1>0, <1>2, <1>3, <2>4 DEF Typed
    <3> QED
      BY <1>4, <2>4, <3>1
  <2> QED
    BY <2>1, <2>2, <2>3, <2>4
<1>7. Grounded(Held(L))
  BY ChangeGrounded DEF L
<1>8. Fits(n, L)
  BY <1>0, <1>1, <1>2, <1>5, <1>6, <1>7 DEF Fits
<1> QED
  BY <1>8 DEF L

-----------------------------------------------------------------------------
(***************************************************************************)
(* The lists with an item added, taken out, inserted or replaced.          *)
(***************************************************************************)

\* A sequence of N items of D, item k being e(k); At gives them and NULL.
IsList(t, D, N) ==
  /\ t \in Seq(D) /\ Len(t) = N /\ N \in Nat /\ DOMAIN t = 1 .. N
  /\ \A k \in 1 .. N : t[k] \in D /\ t[k] \in Range(t) /\ At(t, k) = t[k]
  /\ \A k \in Int \ 1 .. N : At(t, k) = NULL
  /\ \A c \in Range(t) : c \in D /\ \E k \in 1 .. N : c = t[k]

\* A sequence is a list, in the form that the proofs use.
LEMMA ListOf ==
  ASSUME NEW D, NEW t \in Seq(D)
  PROVE  IsList(t, D, Len(t))
BY SeqItems DEF IsList, At

\* What the operations on sequences return.
LEMMA AppendIs ==
  ASSUME NEW D, NEW s \in Seq(D), NEW e \in D
  PROVE  /\ IsList(Append(s, e), D, Len(s) + 1)
         /\ \A k \in 1 .. Len(s) : Append(s, e)[k] = s[k]
         /\ Append(s, e)[Len(s) + 1] = e
<1>1. /\ Append(s, e) \in Seq(D) /\ Len(Append(s, e)) = Len(s) + 1
      /\ \A k \in 1 .. Len(s) : Append(s, e)[k] = s[k]
      /\ Append(s, e)[Len(s) + 1] = e
  BY AppendProperties
<1>2. IsList(Append(s, e), D, Len(s) + 1)
  BY <1>1, ListOf
<1> QED
  BY <1>1, <1>2

LEMMA RemoveAtIs ==
  ASSUME NEW D, NEW s \in Seq(D), NEW j \in 1 .. Len(s)
  PROVE  /\ IsList(RemoveAt(s, j), D, Len(s) - 1)
         /\ \A k \in 1 .. Len(s) - 1 : RemoveAt(s, j)[k] = IF k < j THEN s[k] ELSE s[k + 1]
<1> DEFINE a == SubSeq(s, 1, j - 1)
           b == SubSeq(s, j + 1, Len(s))
<1>0. Len(s) \in Nat /\ \A k \in 1 .. Len(s) : s[k] \in D
  BY ListOf DEF IsList
<1>1. a \in Seq(D) /\ Len(a) = j - 1 /\ \A k \in 1 .. j - 1 : a[k] = s[k]
  <2>1. 1 \in Int /\ j - 1 \in Int /\ \A k \in 1 .. j - 1 : s[k] \in D
    BY <1>0
  <2>2. /\ a \in Seq(D) /\ Len(a) = IF 1 <= j - 1 THEN (j - 1) - 1 + 1 ELSE 0
        /\ \A k \in 1 .. (j - 1) - 1 + 1 : a[k] = s[1 + k - 1]
    BY <2>1, SubSeqProperties
  <2> QED
    BY <1>0, <2>2
<1>2. b \in Seq(D) /\ Len(b) = Len(s) - j /\ \A k \in 1 .. Len(s) - j : b[k] = s[j + k]
  <2>1. j + 1 \in Int /\ Len(s) \in Int /\ \A k \in j + 1 .. Len(s) : s[k] \in D
    BY <1>0
  <2>2. /\ b \in Seq(D) /\ Len(b) = IF j + 1 <= Len(s) THEN Len(s) - (j + 1) + 1 ELSE 0
        /\ \A k \in 1 .. Len(s) - (j + 1) + 1 : b[k] = s[(j + 1) + k - 1]
    BY <2>1, SubSeqProperties
  <2> QED
    BY <1>0, <2>2
<1>3. RemoveAt(s, j) = a \o b
  BY DEF RemoveAt
<1> HIDE DEF a, b
<1>4. /\ a \o b \in Seq(D) /\ Len(a \o b) = Len(s) - 1
      /\ \A k \in 1 .. Len(s) - 1 : (a \o b)[k] = IF k <= j - 1 THEN a[k] ELSE b[k - (j - 1)]
  <2>1. /\ a \o b \in Seq(D) /\ Len(a \o b) = Len(a) + Len(b)
        /\ \A k \in 1 .. Len(a) + Len(b) : (a \o b)[k] = IF k <= Len(a) THEN a[k] ELSE b[k - Len(a)]
    BY <1>1, <1>2, ConcatProperties
  <2> QED
    BY <1>0, <1>1, <1>2, <2>1
<1>5. IsList(a \o b, D, Len(s) - 1)
  BY <1>4, ListOf
<1>6. ASSUME NEW k \in 1 .. Len(s) - 1
      PROVE  (a \o b)[k] = IF k < j THEN s[k] ELSE s[k + 1]
  <2>1. CASE k < j
    BY <1>0, <1>1, <1>4, <2>1
  <2>2. CASE ~(k < j)
    <3>1. k - (j - 1) \in 1 .. Len(s) - j /\ j + (k - (j - 1)) = k + 1
      BY <1>0, <2>2
    <3> QED
      BY <1>0, <1>2, <1>4, <2>2, <3>1
  <2> QED
    BY <2>1, <2>2
<1> QED
  BY <1>3, <1>5, <1>6

LEMMA InsertAtIs ==
  ASSUME NEW D, NEW s \in Seq(D), NEW j \in 1 .. Len(s), NEW e \in D
  PROVE  /\ IsList(InsertAt(s, j, e), D, Len(s) + 1)
         /\ \A k \in 1 .. Len(s) + 1 :
              InsertAt(s, j, e)[k] = IF k < j THEN s[k] ELSE IF k = j THEN e ELSE s[k - 1]
<1> DEFINE a == SubSeq(s, 1, j - 1)
           b == SubSeq(s, j, Len(s))
           ae == a \o <<e>>
<1>0. Len(s) \in Nat /\ \A k \in 1 .. Len(s) : s[k] \in D
  BY ListOf DEF IsList
<1>1. a \in Seq(D) /\ Len(a) = j - 1 /\ \A k \in 1 .. j - 1 : a[k] = s[k]
  <2>1. 1 \in Int /\ j - 1 \in Int /\ \A k \in 1 .. j - 1 : s[k] \in D
    BY <1>0
  <2>2. /\ a \in Seq(D) /\ Len(a) = IF 1 <= j - 1 THEN (j - 1) - 1 + 1 ELSE 0
        /\ \A k \in 1 .. (j - 1) - 1 + 1 : a[k] = s[1 + k - 1]
    BY <2>1, SubSeqProperties
  <2> QED
    BY <1>0, <2>2
<1>2. b \in Seq(D) /\ Len(b) = Len(s) - j + 1 /\ \A k \in 1 .. Len(s) - j + 1 : b[k] = s[j + k - 1]
  <2>1. j \in Int /\ Len(s) \in Int /\ \A k \in j .. Len(s) : s[k] \in D
    BY <1>0
  <2>2. /\ b \in Seq(D) /\ Len(b) = IF j <= Len(s) THEN Len(s) - j + 1 ELSE 0
        /\ \A k \in 1 .. Len(s) - j + 1 : b[k] = s[j + k - 1]
    BY <2>1, SubSeqProperties
  <2> QED
    BY <1>0, <2>2
<1>3. InsertAt(s, j, e) = ae \o b
  BY DEF InsertAt
<1> HIDE DEF a, b
<1>4. ae \in Seq(D) /\ Len(ae) = j /\ ae[j] = e /\ \A k \in 1 .. j - 1 : ae[k] = s[k]
  <2>1. Append(a, e) = ae
    BY <1>1, AppendIsConcat
  <2>2. /\ Append(a, e) \in Seq(D) /\ Len(Append(a, e)) = Len(a) + 1
        /\ \A k \in 1 .. Len(a) : Append(a, e)[k] = a[k]
        /\ Append(a, e)[Len(a) + 1] = e
    BY <1>1, AppendProperties
  <2> QED
    BY <1>0, <1>1, <2>1, <2>2
<1> HIDE DEF ae
<1>5. /\ ae \o b \in Seq(D) /\ Len(ae \o b) = Len(s) + 1
      /\ \A k \in 1 .. Len(s) + 1 : (ae \o b)[k] = IF k <= j THEN ae[k] ELSE b[k - j]
  <2>1. /\ ae \o b \in Seq(D) /\ Len(ae \o b) = Len(ae) + Len(b)
        /\ \A k \in 1 .. Len(ae) + Len(b) : (ae \o b)[k] = IF k <= Len(ae) THEN ae[k] ELSE b[k - Len(ae)]
    BY <1>2, <1>4, ConcatProperties
  <2> QED
    BY <1>0, <1>2, <1>4, <2>1
<1>6. IsList(ae \o b, D, Len(s) + 1)
  BY <1>5, ListOf
<1>7. ASSUME NEW k \in 1 .. Len(s) + 1
      PROVE  (ae \o b)[k] = IF k < j THEN s[k] ELSE IF k = j THEN e ELSE s[k - 1]
  <2>1. CASE k <= j
    BY <1>0, <1>4, <1>5, <2>1
  <2>2. CASE ~(k <= j)
    <3>1. k - j \in 1 .. Len(s) - j + 1 /\ j + (k - j) - 1 = k - 1
      BY <1>0, <2>2
    <3> QED
      BY <1>0, <1>2, <1>5, <2>2, <3>1
  <2> QED
    BY <2>1, <2>2
<1> QED
  BY <1>3, <1>6, <1>7

LEMMA ReplaceAtIs ==
  ASSUME NEW D, NEW s \in Seq(D), NEW j \in 1 .. Len(s), NEW e \in D
  PROVE  /\ IsList(ReplaceAt(s, j, e), D, Len(s))
         /\ \A k \in 1 .. Len(s) : ReplaceAt(s, j, e)[k] = IF k = j THEN e ELSE s[k]
<1> DEFINE t == [s EXCEPT ![j] = e]
<1>1. t \in Seq(D) /\ Len(t) = Len(s)
  OBVIOUS
<1>2. \A k \in 1 .. Len(s) : t[k] = IF k = j THEN e ELSE s[k]
  BY SeqItems
<1>3. IsList(t, D, Len(s))
  BY <1>1, ListOf
<1> QED
  BY <1>2, <1>3 DEF ReplaceAt

-----------------------------------------------------------------------------
(***************************************************************************)
(* What the calls do to the pointers is what they do to the lists.         *)
(***************************************************************************)

ListFacts(m, s, a) ==
  LET D == DOMAIN m IN
  /\ IsList(s, D, Len(s)) /\ NULL \notin D
  /\ \A i, k \in 1 .. Len(s) : s[i] = s[k] => i = k
  /\ m[a].child = At(s, 1)
  /\ \A k \in 1 .. Len(s) : m[s[k]].next = At(s, k + 1) /\ m[s[k]].prev = At(s, k - 1)
  /\ Blocks(m) /\ D \subseteq Pointer

\* The facts about one list.
LEMMA FitsList ==
  ASSUME NEW m, NEW K, Fits(m, K), NEW a \in DOMAIN m
  PROVE  ListFacts(m, K[a], a) /\ K[a] \in Seq(DOMAIN m)
<1>1. Typed(m, K)
  BY FitsTypes
<1>2. K[a] \in Seq(DOMAIN m) /\ DOMAIN K = DOMAIN m /\ NULL \notin DOMAIN m
  BY <1>1 DEF Typed
<1>3. IsList(K[a], DOMAIN m, Len(K[a]))
  BY <1>2, ListOf
<1>4. \A i, k \in 1 .. Len(K[a]) : K[a][i] = K[a][k] => i = k
  BY <1>2 DEF Fits, Once
<1>5. /\ m[a].child = At(K[a], 1)
      /\ \A k \in 1 .. Len(K[a]) : /\ m[K[a][k]].next = At(K[a], k + 1)
                                   /\ m[K[a][k]].prev = At(K[a], k - 1)
  BY DEF Fits, Placed
<1>6. Blocks(m) /\ DOMAIN m \subseteq Pointer
  BY <1>2 DEF Fits, Blocks, Pointer
<1> QED
  BY <1>2, <1>3, <1>4, <1>5, <1>6 DEF ListFacts

\* An item that may be added is in no list and has no siblings.
LEMMA FreeFacts ==
  ASSUME NEW m, NEW K, Fits(m, K), NEW a \in DOMAIN m, NEW item \in DOMAIN m, Free(K, a, item)
  PROVE  /\ item # a /\ item \notin Range(K[a]) /\ \A k \in 1 .. Len(K[a]) : K[a][k] # item
         /\ m[item].next = NULL /\ m[item].prev = NULL
<1>1. item \in Below(K, item)
  BY BelowHolds
<1>2. Typed(m, K) /\ Placed(m, K)
  BY FitsTypes DEF Fits
<1>3. item \notin Range(K[a])
  BY <1>2 DEF Free, Top, Typed
<1>4. \A k \in 1 .. Len(K[a]) : K[a][k] \in Range(K[a])
  BY <1>2 DEF Typed
<1> QED
  BY <1>1, <1>2, <1>3, <1>4 DEF Free, Placed

\* An item is added: it is the last of its list.
LEMMA AddedFits ==
  ASSUME NEW m, NEW K, Fits(m, K), NEW a \in DOMAIN m, NEW item \in DOMAIN m, Free(K, a, item)
  PROVE  /\ Fits(Added(m, a, item), [K EXCEPT ![a] = Append(K[a], item)])
         /\ DOMAIN Added(m, a, item) = DOMAIN m /\ SameString(Added(m, a, item), m)
<1> DEFINE D == DOMAIN m
           s == K[a]
           N == Len(s)
           t == Append(s, item)
           n == Added(m, a, item)
<1>1. ListFacts(m, s, a) /\ s \in Seq(D)
  BY FitsList
<1>2. /\ item # a /\ item \notin Range(s) /\ \A k \in 1 .. N : s[k] # item
      /\ m[item].next = NULL /\ m[item].prev = NULL
  BY FreeFacts
<1>3. List(m, m[a].child) = s
  BY ListIs
<1>4. IsList(t, D, N + 1) /\ (\A k \in 1 .. N : t[k] = s[k]) /\ t[N + 1] = item
  BY <1>1, AppendIs
<1>0. /\ item \in Pointer /\ NULL \in Pointer /\ N \in Nat
  BY <1>1 DEF ListFacts, IsList, Pointer
<1> HIDE DEF s, t
<1>5. MadeOf(K, a, item, t)
  <2>1. ASSUME NEW i \in 1 .. Len(t), NEW j \in 1 .. Len(t), t[i] = t[j] PROVE i = j
    BY <1>0, <1>1, <1>2, <1>4, <2>1 DEF ListFacts, IsList
  <2>2. ASSUME NEW j \in 1 .. Len(t) PROVE t[j] \in Range(s) \/ (t[j] = item /\ Free(K, a, item))
    BY <1>0, <1>1, <1>4 DEF ListFacts, IsList
  <2> QED
    BY <2>1, <2>2 DEF MadeOf, s
<1>6. CASE m[a].child = NULL
  <2> DEFINE n1 == [m EXCEPT ![a].child = item]
  <2>1. n = n1
    BY <1>6 DEF Added
  <2>0. /\ Blocks(n1) /\ DOMAIN n1 = D
        /\ \A i \in D : n1[i].child = IF i = a THEN item ELSE m[i].child
        /\ SameNext(n1, m) /\ SamePrev(n1, m) /\ SameString(n1, m)
    BY <1>0, <1>1, ChildSet DEF ListFacts
  <2> HIDE DEF n, n1
  <2>2. /\ Blocks(n) /\ DOMAIN n = D
        /\ \A i \in D : n[i].child = IF i = a THEN item ELSE m[i].child
        /\ SameNext(n, m) /\ SamePrev(n, m) /\ SameString(n, m)
    BY <2>0, <2>1
  <2>3. N = 0
    BY <1>0, <1>1, <1>6 DEF ListFacts, IsList
  <2>4. Relinked(m, n, K, a, t)
    <3>1. \A p \in D : n[p].child = IF p = a THEN At(t, 1) ELSE m[p].child
      BY <1>4, <2>2, <2>3 DEF IsList
    <3>2. \A j \in 1 .. Len(t) : n[t[j]].next = At(t, j + 1) /\ n[t[j]].prev = At(t, j - 1)
      BY <1>2, <1>4, <2>2, <2>3 DEF IsList, SameNext, SamePrev
    <3>3. \A c \in D \ Range(t) : c \notin Range(s) /\ n[c].next = m[c].next /\ n[c].prev = m[c].prev
      BY <1>1, <1>4, <2>2, <2>3 DEF IsList, SameNext, SamePrev, ListFacts
    <3> QED
      BY <2>2, <3>1, <3>2, <3>3 DEF Relinked, s
  <2>5. Fits(n, [K EXCEPT ![a] = t])
    BY <1>4, <1>5, <2>4, ChangeFits DEF IsList
  <2> QED
    BY <2>2, <2>5 DEF n, s, t
<1>7. CASE m[a].child # NULL
  <2> DEFINE z == s[N]
             n1 == SetNext(m, z, item)
  <2>1. N \in 1 .. N /\ z \in D /\ z # item /\ N + 1 \in Int /\ N + 1 \notin 1 .. N
    <3>1. N # 0
      BY <1>0, <1>1, <1>7 DEF ListFacts, IsList
    <3> QED
      BY <1>0, <1>1, <1>2, <3>1 DEF ListFacts, IsList
  <2>2. n = SetPrev(n1, item, z)
    BY <1>3, <1>7 DEF Added, suffix_object, Last
  <2>3. z \in Pointer
    BY <1>1, <2>1 DEF ListFacts
  <2> HIDE DEF n, z
  <2>4. /\ Blocks(n1) /\ DOMAIN n1 = D
        /\ \A i \in D : n1[i].next = IF i = z THEN item ELSE m[i].next
        /\ SamePrev(n1, m) /\ SameChild(n1, m) /\ SameString(n1, m)
    <3>1. Blocks(m)
      BY <1>1 DEF ListFacts
    <3>2. NextIs(n1, m, z, item)
      BY <1>0, <2>1, <3>1, NextSet
    <3> HIDE DEF n1
    <3> QED
      BY <3>2 DEF NextIs
  <2> HIDE DEF n1
  <2>5. /\ Blocks(n) /\ DOMAIN n = D
        /\ \A i \in D : n[i].prev = IF i = item THEN z ELSE n1[i].prev
        /\ SameNext(n, n1) /\ SameChild(n, n1) /\ SameString(n, n1)
    <3>1. PrevIs(n, n1, item, z)
      BY <2>2, <2>3, <2>4, PrevSet
    <3> QED
      BY <2>4, <3>1 DEF PrevIs
  <2>6. /\ \A i \in D : n[i].next = IF i = z THEN item ELSE m[i].next
        /\ \A i \in D : n[i].prev = IF i = item THEN z ELSE m[i].prev
        /\ SameChild(n, m) /\ SameString(n, m)
    BY <2>4, <2>5 DEF SamePrev, SameNext, SameChild, SameString
  <2>7. Relinked(m, n, K, a, t)
    <3>1. \A p \in D : n[p].child = IF p = a THEN At(t, 1) ELSE m[p].child
      <4>1. At(t, 1) = m[a].child
        BY <1>0, <1>1, <1>4, <2>1 DEF IsList, ListFacts
      <4> QED
        BY <2>6, <4>1 DEF SameChild
    <3>2. ASSUME NEW j \in 1 .. Len(t)
          PROVE  n[t[j]].next = At(t, j + 1) /\ n[t[j]].prev = At(t, j - 1)
      <4>1. CASE j = N + 1
        <5>1. t[j] = item /\ item # z
          BY <1>4, <2>1, <4>1
        <5>2. n[item].next = NULL /\ n[item].prev = z
          BY <1>2, <2>6, <5>1
        <5>3. At(t, j + 1) = NULL /\ At(t, j - 1) = z
          BY <1>0, <1>4, <2>1, <4>1 DEF IsList, z
        <5> QED
          BY <5>1, <5>2, <5>3
      <4>2. CASE j = N
        <5>1. t[j] = z /\ z # item /\ At(t, j + 1) = item /\ At(t, j - 1) = At(s, j - 1)
          BY <1>0, <1>1, <1>4, <2>1, <4>2 DEF IsList, z, ListFacts
        <5>2. m[z].prev = At(s, j - 1)
          BY <1>1, <2>1, <4>2 DEF ListFacts, z
        <5> QED
          BY <2>1, <2>6, <5>1, <5>2
      <4>3. CASE j \in 1 .. N - 1
        <5>1. /\ t[j] = s[j] /\ j \in 1 .. N /\ At(t, j + 1) = At(s, j + 1)
              /\ At(t, j - 1) = At(s, j - 1) /\ s[j] # z /\ s[j] # item /\ s[j] \in D
          BY <1>0, <1>1, <1>2, <1>4, <2>1, <4>3 DEF IsList, z, ListFacts
        <5>2. m[s[j]].next = At(s, j + 1) /\ m[s[j]].prev = At(s, j - 1)
          BY <1>1, <5>1 DEF ListFacts
        <5> QED
          BY <2>6, <5>1, <5>2
      <4> QED
        BY <1>0, <1>4, <4>1, <4>2, <4>3 DEF IsList
    <3>3. \A c \in D \ Range(t) : c \notin Range(s) /\ n[c].next = m[c].next /\ n[c].prev = m[c].prev
      <4> SUFFICES ASSUME NEW c \in D \ Range(t)
                   PROVE  c \notin Range(s) /\ n[c].next = m[c].next /\ n[c].prev = m[c].prev
        OBVIOUS
      <4>1. \A k \in 1 .. N + 1 : t[k] # c
        BY <1>4 DEF IsList
      <4>2. \A k \in 1 .. N : s[k] # c
        BY <1>0, <1>4, <4>1
      <4>3. c # item /\ c # z /\ c \notin Range(s)
        BY <1>0, <1>1, <1>4, <2>1, <4>1, <4>2 DEF IsList, z, ListFacts
      <4> QED
        BY <2>6, <4>3
    <3> QED
      BY <2>5, <3>1, <3>2, <3>3 DEF Relinked, s
  <2>8. Fits(n, [K EXCEPT ![a] = t])
    BY <1>4, <1>5, <2>7, ChangeFits DEF IsList
  <2> QED
    BY <2>5, <2>6, <2>8 DEF n, s, t
<1> QED
  BY <1>6, <1>7

\* The item c at place j of a list, and its neighbours.
Between(m, s, a, j, c) ==
  /\ Len(s) \in Nat /\ j \in 1 .. Len(s) /\ c = s[j] /\ c \in DOMAIN m
  /\ m[c].next = At(s, j + 1) /\ m[c].prev = At(s, j - 1)
  /\ m[c].next \in DOMAIN m \cup {NULL} /\ m[c].prev \in DOMAIN m \cup {NULL}
  /\ m[c].next \in Pointer /\ m[c].prev \in Pointer /\ NULL \in Pointer
  /\ c = m[a].child <=> j = 1
  /\ c = m[a].child => m[c].prev = NULL
  /\ \A k \in 1 .. Len(s) : /\ s[k] = m[c].next <=> k = j + 1
                            /\ s[k] = m[c].prev <=> k = j - 1

\* The items before and behind an item of a list.
LEMMA NeighbourFacts ==
  ASSUME NEW m, NEW a \in DOMAIN m, NEW s, ListFacts(m, s, a), NEW j \in 1 .. Len(s)
  PROVE  Between(m, s, a, j, s[j])
<1>1. /\ Len(s) \in Nat /\ s[j] \in DOMAIN m
      /\ m[s[j]].next = At(s, j + 1) /\ m[s[j]].prev = At(s, j - 1)
  BY DEF ListFacts, IsList
<1>2. \A k \in Int : At(s, k) \in DOMAIN m \cup {NULL}
  BY <1>1 DEF ListFacts, IsList
<1>3. m[s[j]].next \in DOMAIN m \cup {NULL} /\ m[s[j]].prev \in DOMAIN m \cup {NULL}
  BY <1>1, <1>2
<1>4. m[s[j]].next \in Pointer /\ m[s[j]].prev \in Pointer /\ NULL \in Pointer
  BY <1>3 DEF ListFacts, Pointer
<1>5. s[j] = m[a].child <=> j = 1
  BY <1>1 DEF ListFacts, IsList
<1>6. s[j] = m[a].child => m[s[j]].prev = NULL
  BY <1>1, <1>5 DEF ListFacts, IsList
<1>7. ASSUME NEW k \in 1 .. Len(s)
      PROVE  (s[k] = m[s[j]].next <=> k = j + 1) /\ (s[k] = m[s[j]].prev <=> k = j - 1)
  <2>1. s[k] # NULL /\ k \in Int
    BY DEF ListFacts, IsList
  <2>2. \A i \in Int : At(s, i) = s[k] <=> i = k
    BY <1>1, <2>1 DEF ListFacts, IsList
  <2> QED
    BY <1>1, <2>2
<1> QED
  BY <1>1, <1>3, <1>4, <1>5, <1>6, <1>7 DEF Between

\* Who has no place in the list, and is not NULL, is not beside one that has.
LEMMA NoNeighbour ==
  ASSUME NEW m, NEW a \in DOMAIN m, NEW s, ListFacts(m, s, a), NEW j, NEW c,
         Between(m, s, a, j, c), NEW i \in DOMAIN m \ Range(s)
  PROVE  i # c /\ i # m[c].next /\ i # m[c].prev
<1>1. /\ i # NULL /\ Len(s) \in Nat /\ j \in 1 .. Len(s) /\ c = s[j]
      /\ m[c].next = At(s, j + 1) /\ m[c].prev = At(s, j - 1)
  BY DEF ListFacts, Between
<1>2. \A k \in Int : At(s, k) = NULL \/ At(s, k) \in Range(s)
  BY DEF ListFacts, IsList
<1>3. s[j] \in Range(s)
  BY <1>1 DEF ListFacts, IsList
<1> QED
  BY <1>1, <1>2, <1>3

\* The list t of N - 1 items is s without its item j.
Without(s, t, D, N, j) ==
  /\ t \in Seq(D) /\ Len(t) = N - 1
  /\ \A i, k \in 1 .. N - 1 : t[i] = t[k] => i = k
  /\ \A k \in 1 .. N - 1 : t[k] \in Range(s) /\ t[k] = IF k < j THEN s[k] ELSE s[k + 1]
  /\ \A i \in Range(s) : i = s[j] \/ i \in Range(t)
  /\ s[j] \notin Range(t)
  /\ \A k \in Int : At(t, k) = IF k < j THEN At(s, k) ELSE At(s, k + 1)

\* Removing an item gives the list without it.
LEMMA WithoutIs ==
  ASSUME NEW D, NEW s, NEW N, NEW j \in 1 .. N, IsList(s, D, N), NULL \notin D,
         \A i, k \in 1 .. N : s[i] = s[k] => i = k,
         NEW t, IsList(t, D, N - 1),
         \A k \in 1 .. N - 1 : t[k] = IF k < j THEN s[k] ELSE s[k + 1]
  PROVE  Without(s, t, D, N, j)
<1> DEFINE up(k) == IF k < j THEN k ELSE k + 1
<1>1. N \in Nat /\ N - 1 \in Nat
  BY DEF IsList
<1>2. \A k \in 1 .. N - 1 : up(k) \in 1 .. N /\ t[k] = s[up(k)]
  BY <1>1
<1>3. \A i, k \in 1 .. N - 1 : up(i) = up(k) => i = k
  BY <1>1
<1>4. \A k \in 1 .. N : k # j => \E i \in 1 .. N - 1 : up(i) = k
  <2> SUFFICES ASSUME NEW k \in 1 .. N, k # j PROVE \E i \in 1 .. N - 1 : up(i) = k
    OBVIOUS
  <2>1. CASE k < j
    <3>1. k \in 1 .. N - 1 /\ up(k) = k
      BY <1>1, <2>1
    <3> QED
      BY <3>1
  <2>2. CASE ~(k < j)
    <3>1. k - 1 \in 1 .. N - 1 /\ up(k - 1) = k
      BY <1>1, <2>2
    <3> QED
      BY <3>1
  <2> QED
    BY <2>1, <2>2
<1>a. \A k \in 1 .. N - 1 : up(k) # j
  BY <1>1
<1>5. \A k \in Int : up(k) \in Int /\ (k \in 1 .. N - 1 <=> up(k) \in 1 .. N)
  BY <1>1
<1> HIDE DEF up
<1>6. \A i, k \in 1 .. N - 1 : t[i] = t[k] => i = k
  BY <1>2, <1>3
<1>7. \A k \in 1 .. N - 1 : t[k] \in Range(s)
  BY <1>2 DEF IsList
<1>8. ASSUME NEW i \in Range(s), i # s[j] PROVE i \in Range(t)
  <2>1. PICK k \in 1 .. N : i = s[k]
    BY DEF IsList
  <2>2. PICK h \in 1 .. N - 1 : up(h) = k
    BY <1>4, <1>8, <2>1
  <2>3. t[h] \in Range(t)
    BY DEF IsList
  <2> QED
    BY <1>2, <2>1, <2>2, <2>3
<1>9. ASSUME NEW k \in Int PROVE At(t, k) = At(s, up(k))
  <2>1. CASE k \in 1 .. N - 1
    <3>1. At(t, k) = t[k] /\ At(s, up(k)) = s[up(k)]
      BY <1>2, <2>1 DEF IsList
    <3> QED
      BY <1>2, <2>1, <3>1
  <2>2. CASE k \notin 1 .. N - 1
    <3>1. At(t, k) = NULL /\ At(s, up(k)) = NULL
      BY <1>5, <2>2 DEF IsList
    <3> QED
      BY <3>1
  <2> QED
    BY <2>1, <2>2
<1>10. t \in Seq(D) /\ Len(t) = N - 1
  BY DEF IsList
<1>11. s[j] \notin Range(t)
  <2> SUFFICES ASSUME s[j] \in Range(t) PROVE FALSE
    OBVIOUS
  <2>1. PICK k \in 1 .. N - 1 : s[j] = t[k]
    BY DEF IsList
  <2> QED
    BY <1>2, <1>a, <2>1
<1> QED
  BY <1>2, <1>11, <1>6, <1>7, <1>8, <1>9, <1>10 DEF up, Without

\* The pointers after c was cut out of the array a.
CutOut(m, n, a, c) ==
  /\ Blocks(n) /\ DOMAIN n = DOMAIN m
  /\ \A i \in DOMAIN m : n[i].child = IF i = a /\ c = m[a].child THEN m[c].next ELSE m[i].child
  /\ \A i \in DOMAIN m : n[i].next = IF i = c THEN NULL
                                     ELSE IF i = m[c].prev THEN m[c].next ELSE m[i].next
  /\ \A i \in DOMAIN m : n[i].prev = IF i = c THEN NULL
                                     ELSE IF i = m[c].next THEN m[c].prev ELSE m[i].prev

\* They are those of the list without c.
LEMMA CutOutRelinks ==
  ASSUME NEW m, NEW K, NEW a \in DOMAIN m, NEW s, ListFacts(m, s, a), s = K[a],
         NEW D, D = DOMAIN m, NEW N \in Nat, N = Len(s),
         NEW j \in 1 .. N, NEW c, Between(m, s, a, j, c), NEW n, CutOut(m, n, a, c),
         NEW t, Without(s, t, D, N, j)
  PROVE  t \in Seq(DOMAIN m) /\ MadeOf(K, a, a, t) /\ Relinked(m, n, K, a, t)
<1>2. /\ N \in Nat /\ j \in 1 .. N /\ c = s[j] /\ c \in D
      /\ m[c].next = At(s, j + 1) /\ m[c].prev = At(s, j - 1)
      /\ (c = m[a].child <=> j = 1)
      /\ \A k \in 1 .. N : (s[k] = m[c].next <=> k = j + 1) /\ (s[k] = m[c].prev <=> k = j - 1)
  BY DEF Between
<1>3. \A k \in 1 .. N - 1 : t[k] = IF k < j THEN s[k] ELSE s[k + 1]
  BY DEF Without
<1>4. /\ IsList(s, D, N) /\ NULL \notin D
      /\ \A i, k \in 1 .. N : s[i] = s[k] => i = k
      /\ \A k \in 1 .. N : s[k] \in D
      /\ m[a].child = At(s, 1)
      /\ \A k \in 1 .. N : m[s[k]].next = At(s, k + 1) /\ m[s[k]].prev = At(s, k - 1)
  BY DEF ListFacts, IsList
<1>5. /\ t \in Seq(D) /\ Len(t) = N - 1
      /\ \A i, k \in 1 .. N - 1 : t[i] = t[k] => i = k
      /\ \A k \in 1 .. N - 1 : t[k] \in Range(s)
      /\ \A i \in Range(s) : i = s[j] \/ i \in Range(t)
  BY DEF Without
<1>6. \A k \in Int : At(t, k) = IF k < j THEN At(s, k) ELSE At(s, k + 1)
  BY DEF Without
<1>7. MadeOf(K, a, a, t)
  BY <1>5 DEF MadeOf
<1>c. /\ Blocks(n) /\ DOMAIN n = D
      /\ \A i \in D : n[i].child = IF i = a /\ c = m[a].child THEN m[c].next ELSE m[i].child
      /\ \A i \in D : n[i].next = IF i = c THEN NULL
                                         ELSE IF i = m[c].prev THEN m[c].next ELSE m[i].next
      /\ \A i \in D : n[i].prev = IF i = c THEN NULL
                                         ELSE IF i = m[c].next THEN m[c].prev ELSE m[i].prev
  BY DEF CutOut
<1>8. ASSUME NEW k \in 1 .. N, k # j
      PROVE  /\ n[s[k]].next = IF k = j - 1 THEN At(s, j + 1) ELSE At(s, k + 1)
             /\ n[s[k]].prev = IF k = j + 1 THEN At(s, j - 1) ELSE At(s, k - 1)
  <2>1. s[k] # c /\ s[k] \in D
    BY <1>2, <1>4, <1>8
  <2>2. /\ n[s[k]].next = IF s[k] = m[c].prev THEN m[c].next ELSE m[s[k]].next
        /\ n[s[k]].prev = IF s[k] = m[c].next THEN m[c].prev ELSE m[s[k]].prev
    BY <1>c, <2>1
  <2>3. /\ s[k] = m[c].prev <=> k = j - 1
        /\ s[k] = m[c].next <=> k = j + 1
        /\ m[s[k]].next = At(s, k + 1) /\ m[s[k]].prev = At(s, k - 1)
    BY <1>2, <1>4
  <2> QED
    BY <1>2, <2>2, <2>3
<1>9. ASSUME NEW p \in D PROVE n[p].child = IF p = a THEN At(t, 1) ELSE m[p].child
  <2>1. At(t, 1) = IF 1 < j THEN At(s, 1) ELSE At(s, 1 + 1)
    BY <1>6
  <2>2. At(t, 1) = IF j = 1 THEN At(s, j + 1) ELSE At(s, 1)
    BY <1>2, <2>1
  <2> QED
    BY <1>2, <1>4, <1>c, <2>2
<1>10. ASSUME NEW k \in 1 .. N - 1
       PROVE  n[t[k]].next = At(t, k + 1) /\ n[t[k]].prev = At(t, k - 1)
  <2>0. /\ At(t, k + 1) = IF k + 1 < j THEN At(s, k + 1) ELSE At(s, (k + 1) + 1)
        /\ At(t, k - 1) = IF k - 1 < j THEN At(s, k - 1) ELSE At(s, (k - 1) + 1)
    <3>1. k + 1 \in Int /\ k - 1 \in Int
      BY <1>2
    <3> QED
      BY <1>6, <3>1
  <2>1. CASE k < j
    <3>1. t[k] = s[k] /\ k \in 1 .. N /\ k # j /\ k # j + 1
      BY <1>2, <1>3, <2>1
    <3>2. At(t, k + 1) = (IF k = j - 1 THEN At(s, j + 1) ELSE At(s, k + 1))
      BY <1>2, <2>0, <2>1
    <3>3. At(t, k - 1) = At(s, k - 1)
      BY <1>2, <2>0, <2>1
    <3> QED
      BY <1>8, <3>1, <3>2, <3>3
  <2>2. CASE ~(k < j)
    <3>1. t[k] = s[k + 1] /\ k + 1 \in 1 .. N /\ k + 1 # j /\ k + 1 # j - 1
      BY <1>2, <1>3, <2>2
    <3>2. At(t, k + 1) = At(s, (k + 1) + 1)
      BY <1>2, <2>0, <2>2
    <3>3. At(t, k - 1) = IF k + 1 = j + 1 THEN At(s, j - 1) ELSE At(s, (k + 1) - 1)
      BY <1>2, <2>0, <2>2
    <3> QED
      BY <1>8, <3>1, <3>2, <3>3
  <2> QED
    BY <2>1, <2>2
<1>11. ASSUME NEW i \in D \ Range(t)
       PROVE  /\ i \notin Range(s) => n[i].next = m[i].next /\ n[i].prev = m[i].prev
              /\ i \in Range(s) => n[i].next = NULL /\ n[i].prev = NULL
  <2>1. i \in Range(s) => i = c
    BY <1>2, <1>5
  <2>2. i \notin Range(s) => i # c /\ i # m[c].next /\ i # m[c].prev
    BY NoNeighbour, <1>2
  <2> QED
    BY <1>c, <2>1, <2>2
<1>12. Relinked(m, n, K, a, t)
  BY <1>5, <1>c, <1>9, <1>10, <1>11 DEF Relinked
<1> QED
  BY <1>5, <1>7, <1>12

\* cJSON_DetachItemFromArray cuts the item out.
LEMMA DetachedCuts ==
  ASSUME NEW m, Blocks(m), NEW a \in DOMAIN m, NEW c \in DOMAIN m, NEW x, NEW y,
         x = m[c].next, y = m[c].prev, x \in DOMAIN m \cup {NULL}, y \in DOMAIN m \cup {NULL},
         x \in Pointer, y \in Pointer, NULL \in Pointer, c = m[a].child => y = NULL
  PROVE  CutOut(m, Detached(m, a, c), a, c) /\ SameString(Detached(m, a, c), m)
<1> DEFINE D == DOMAIN m
           n1 == SetLink(m, a, c, x)
           n2 == SetPrev(n1, x, y)
           n == [n2 EXCEPT ![c].prev = NULL, ![c].next = NULL]
<1>4. Detached(m, a, c) = n
  BY DEF Detached
<1>6. /\ Blocks(n1) /\ DOMAIN n1 = D
      /\ \A i \in D : n1[i].child = IF i = a /\ c = m[a].child THEN x ELSE m[i].child
      /\ \A i \in D : n1[i].next = IF i = y THEN x ELSE m[i].next
      /\ SamePrev(n1, m) /\ SameString(n1, m)
  <2>1. LinkedAs(n1, m, a, c, x)
    BY LinkSet
  <2> HIDE DEF n1
  <2> QED
    BY <2>1 DEF LinkedAs
<1> HIDE DEF n1
<1>7. /\ Blocks(n2) /\ DOMAIN n2 = D
      /\ \A i \in D : n2[i].prev = IF i = x THEN y ELSE n1[i].prev
      /\ SameNext(n2, n1) /\ SameChild(n2, n1) /\ SameString(n2, n1)
  <2>1. PrevIs(n2, n1, x, y)
    BY <1>6, PrevSet
  <2> HIDE DEF n2
  <2> QED
    BY <1>6, <2>1 DEF PrevIs
<1> HIDE DEF n2
<1>8. /\ Blocks(n) /\ DOMAIN n = D
      /\ \A i \in D : n[i].next = IF i = c THEN NULL ELSE n2[i].next
      /\ \A i \in D : n[i].prev = IF i = c THEN NULL ELSE n2[i].prev
      /\ SameChild(n, n2) /\ SameString(n, n2)
  <2>1. NextPrevIs(n, n2, c, NULL, NULL)
    BY <1>7, PrevNextSet
  <2> HIDE DEF n
  <2> QED
    BY <1>7, <2>1 DEF NextPrevIs
<1> HIDE DEF n
<1>9. /\ \A i \in D : n[i].child = IF i = a /\ c = m[a].child THEN x ELSE m[i].child
      /\ \A i \in D : n[i].next = IF i = c THEN NULL ELSE IF i = y THEN x ELSE m[i].next
      /\ \A i \in D : n[i].prev = IF i = c THEN NULL ELSE IF i = x THEN y ELSE m[i].prev
      /\ SameString(n, m)
  BY <1>6, <1>7, <1>8 DEF SamePrev, SameNext, SameChild, SameString
<1> QED
  BY <1>4, <1>8, <1>9 DEF CutOut

\* An item is detached: the others of its list close up.
LEMMA DetachedFits ==
  ASSUME NEW m, NEW K, Fits(m, K), NEW a \in DOMAIN m, NEW j \in 1 .. Len(K[a])
  PROVE  LET n == Detached(m, a, K[a][j])
         IN /\ Fits(n, [K EXCEPT ![a] = RemoveAt(K[a], j)])
            /\ DOMAIN n = DOMAIN m /\ SameString(n, m)
            /\ K[a][j] \notin Range(RemoveAt(K[a], j))
<1> SUFFICES ASSUME NEW s, s = K[a], NEW c, c = s[j]
             PROVE  LET n == Detached(m, a, c)
                    IN /\ Fits(n, [K EXCEPT ![a] = RemoveAt(s, j)])
                       /\ DOMAIN n = DOMAIN m /\ SameString(n, m)
                       /\ c \notin Range(RemoveAt(s, j))
  OBVIOUS
<1> DEFINE n == Detached(m, a, c)
           t == RemoveAt(s, j)
<1>1. ListFacts(m, s, a) /\ s \in Seq(DOMAIN m) /\ j \in 1 .. Len(s) /\ Blocks(m)
  BY FitsList DEF ListFacts
<1>0. Between(m, s, a, j, c)
  BY <1>1, NeighbourFacts
<1>2. /\ c \in DOMAIN m /\ m[c].next \in DOMAIN m \cup {NULL} /\ m[c].prev \in DOMAIN m \cup {NULL}
      /\ m[c].next \in Pointer /\ m[c].prev \in Pointer /\ NULL \in Pointer
      /\ c = m[a].child => m[c].prev = NULL
  BY <1>0 DEF Between
<1>3. CutOut(m, n, a, c) /\ SameString(n, m)
  BY <1>1, <1>2, DetachedCuts
<1>4. Without(s, t, DOMAIN m, Len(s), j)
  <2>1. /\ IsList(t, DOMAIN m, Len(s) - 1)
        /\ \A k \in 1 .. Len(s) - 1 : t[k] = IF k < j THEN s[k] ELSE s[k + 1]
    BY <1>1, RemoveAtIs
  <2>2. /\ IsList(s, DOMAIN m, Len(s)) /\ NULL \notin DOMAIN m
        /\ \A i, k \in 1 .. Len(s) : s[i] = s[k] => i = k
    BY <1>1 DEF ListFacts
  <2> HIDE DEF t
  <2> QED
    BY <1>1, <2>1, <2>2, WithoutIs
<1> HIDE DEF n, t
<1>5. t \in Seq(DOMAIN m) /\ MadeOf(K, a, a, t) /\ Relinked(m, n, K, a, t)
  BY <1>0, <1>1, <1>3, <1>4, CutOutRelinks DEF Between
<1>6. Fits(n, [K EXCEPT ![a] = t])
  BY <1>5, ChangeFits
<1>7. DOMAIN n = DOMAIN m
  BY <1>5 DEF Relinked
<1>8. c \notin Range(t)
  BY <1>4 DEF Without
<1> QED
  BY <1>3, <1>6, <1>7, <1>8 DEF n, t

\* The list t is s with the item e before its item j.
With(s, t, D, N, j, e) ==
  /\ t \in Seq(D) /\ Len(t) = N + 1
  /\ \A i, k \in 1 .. N + 1 : t[i] = t[k] => i = k
  /\ \A k \in 1 .. N + 1 : /\ t[k] \in Range(s) \/ t[k] = e
                           /\ t[k] = IF k < j THEN s[k] ELSE IF k = j THEN e ELSE s[k - 1]
  /\ \A i \in Range(s) : i \in Range(t)
  /\ e \in Range(t)
  /\ \A k \in Int : At(t, k) = IF k < j THEN At(s, k) ELSE IF k = j THEN e ELSE At(s, k - 1)

\* Inserting an item gives the list with it.
LEMMA WithIs ==
  ASSUME NEW D, NEW s, NEW N, NEW j \in 1 .. N, IsList(s, D, N), NULL \notin D,
         \A i, k \in 1 .. N : s[i] = s[k] => i = k,
         NEW e \in D, e \notin Range(s),
         NEW t, IsList(t, D, N + 1),
         \A k \in 1 .. N + 1 : t[k] = IF k < j THEN s[k] ELSE IF k = j THEN e ELSE s[k - 1]
  PROVE  With(s, t, D, N, j, e)
<1> DEFINE down(k) == IF k < j THEN k ELSE k - 1
<1>1. N \in Nat /\ N + 1 \in Nat /\ j \in 1 .. N + 1
  BY DEF IsList
<1>2. /\ t[j] = e
      /\ \A k \in 1 .. N + 1 : k # j => down(k) \in 1 .. N /\ t[k] = s[down(k)]
  BY <1>1
<1>3. \A i, k \in 1 .. N + 1 : i # j /\ k # j /\ down(i) = down(k) => i = k
  BY <1>1
<1>4. \A k \in 1 .. N : \E i \in 1 .. N + 1 : i # j /\ down(i) = k
  <2> SUFFICES ASSUME NEW k \in 1 .. N PROVE \E i \in 1 .. N + 1 : i # j /\ down(i) = k
    OBVIOUS
  <2>1. CASE k < j
    <3>1. k \in 1 .. N + 1 /\ k # j /\ down(k) = k
      BY <1>1, <2>1
    <3> QED
      BY <3>1
  <2>2. CASE ~(k < j)
    <3>1. k + 1 \in 1 .. N + 1 /\ k + 1 # j /\ down(k + 1) = k
      BY <1>1, <2>2
    <3> QED
      BY <3>1
  <2> QED
    BY <2>1, <2>2
<1>5. \A k \in Int : k # j => down(k) \in Int /\ (k \in 1 .. N + 1 <=> down(k) \in 1 .. N)
  BY <1>1
<1> HIDE DEF down
<1>6. ASSUME NEW i \in 1 .. N + 1, NEW k \in 1 .. N + 1, t[i] = t[k] PROVE i = k
  <2>0. \A h \in 1 .. N + 1 : h # j => t[h] \in Range(s)
    BY <1>2 DEF IsList
  <2>1. CASE i = j \/ k = j
    BY <1>2, <1>6, <2>0, <2>1
  <2>2. CASE i # j /\ k # j
    BY <1>2, <1>3, <1>6, <2>2
  <2> QED
    BY <2>1, <2>2
<1>7. \A k \in 1 .. N + 1 : t[k] \in Range(s) \/ t[k] = e
  BY <1>2 DEF IsList
<1>8. ASSUME NEW i \in Range(s) PROVE i \in Range(t)
  <2>1. PICK k \in 1 .. N : i = s[k]
    BY DEF IsList
  <2>2. PICK h \in 1 .. N + 1 : h # j /\ down(h) = k
    BY <1>4
  <2>3. t[h] \in Range(t)
    BY DEF IsList
  <2> QED
    BY <1>2, <2>1, <2>2, <2>3
<1>9. e \in Range(t) /\ At(t, j) = e
  BY <1>1, <1>2 DEF IsList
<1>10. ASSUME NEW k \in Int, k # j PROVE At(t, k) = At(s, down(k))
  <2>1. CASE k \in 1 .. N + 1
    <3>0. down(k) \in 1 .. N
      BY <1>2, <1>10, <2>1
    <3>1. At(t, k) = t[k] /\ At(s, down(k)) = s[down(k)]
      BY <2>1, <3>0 DEF IsList
    <3> QED
      BY <1>2, <1>10, <2>1, <3>1
  <2>2. CASE k \notin 1 .. N + 1
    <3>1. At(t, k) = NULL /\ At(s, down(k)) = NULL
      BY <1>5, <1>10, <2>2 DEF IsList
    <3> QED
      BY <3>1
  <2> QED
    BY <2>1, <2>2
<1>11. \A k \in Int : At(t, k) = IF k < j THEN At(s, k) ELSE IF k = j THEN e ELSE At(s, k - 1)
  BY <1>1, <1>9, <1>10 DEF down
<1>12. t \in Seq(D) /\ Len(t) = N + 1
  BY DEF IsList
<1> QED
  BY <1>6, <1>7, <1>8, <1>9, <1>11, <1>12 DEF With

\* The pointers after item was put into the array a before c.
PutIn(m, n, a, c, item) ==
  /\ Blocks(n) /\ DOMAIN n = DOMAIN m
  /\ \A i \in DOMAIN m : n[i].child = IF i = a /\ c = m[a].child THEN item ELSE m[i].child
  /\ \A i \in DOMAIN m : n[i].next = IF i = item THEN c
                                     ELSE IF i = m[c].prev THEN item ELSE m[i].next
  /\ \A i \in DOMAIN m : n[i].prev = IF i = c THEN item
                                     ELSE IF i = item THEN m[c].prev ELSE m[i].prev

\* Pointers with the item put in are those of the list with it.
LEMMA PutInRelinks ==
  ASSUME NEW m, NEW K, NEW a \in DOMAIN m, NEW s, ListFacts(m, s, a), s = K[a],
         NEW D, D = DOMAIN m, NEW N \in Nat, N = Len(s),
         NEW j \in 1 .. N, NEW c, Between(m, s, a, j, c), NEW item \in D, item \notin Range(s),
         Free(K, a, item), NEW n, PutIn(m, n, a, c, item),
         NEW t, With(s, t, D, N, j, item)
  PROVE  t \in Seq(DOMAIN m) /\ MadeOf(K, a, item, t) /\ Relinked(m, n, K, a, t)
<1>2. /\ c = s[j] /\ c \in D
      /\ m[c].next = At(s, j + 1) /\ m[c].prev = At(s, j - 1)
      /\ (c = m[a].child <=> j = 1)
      /\ \A k \in 1 .. N : (s[k] = m[c].next <=> k = j + 1) /\ (s[k] = m[c].prev <=> k = j - 1)
  BY DEF Between
<1>3. \A k \in 1 .. N + 1 : t[k] = IF k < j THEN s[k] ELSE IF k = j THEN item ELSE s[k - 1]
  BY DEF With
<1>4. /\ \A i, k \in 1 .. N : s[i] = s[k] => i = k
      /\ \A k \in 1 .. N : s[k] \in D /\ s[k] # item /\ At(s, k) = s[k]
      /\ m[a].child = At(s, 1)
      /\ \A k \in 1 .. N : m[s[k]].next = At(s, k + 1) /\ m[s[k]].prev = At(s, k - 1)
  BY DEF ListFacts, IsList
<1>5. /\ t \in Seq(D) /\ Len(t) = N + 1
      /\ \A i, k \in 1 .. N + 1 : t[i] = t[k] => i = k
      /\ \A k \in 1 .. N + 1 : t[k] \in Range(s) \/ t[k] = item
      /\ \A i \in Range(s) : i \in Range(t)
      /\ item \in Range(t)
  BY DEF With
<1>6. \A k \in Int : At(t, k) = IF k < j THEN At(s, k) ELSE IF k = j THEN item ELSE At(s, k - 1)
  BY DEF With
<1>7. MadeOf(K, a, item, t)
  BY <1>5 DEF MadeOf
<1>c. /\ Blocks(n) /\ DOMAIN n = D
      /\ \A i \in D : n[i].child = IF i = a /\ c = m[a].child THEN item ELSE m[i].child
      /\ \A i \in D : n[i].next = IF i = item THEN c
                                  ELSE IF i = m[c].prev THEN item ELSE m[i].next
      /\ \A i \in D : n[i].prev = IF i = c THEN item
                                  ELSE IF i = item THEN m[c].prev ELSE m[i].prev
  BY DEF PutIn
<1>8. ASSUME NEW k \in 1 .. N
      PROVE  /\ n[s[k]].next = IF k = j - 1 THEN item ELSE At(s, k + 1)
             /\ n[s[k]].prev = IF k = j THEN item ELSE At(s, k - 1)
  <2>1. s[k] # item /\ s[k] \in D
    BY <1>4
  <2>2. /\ n[s[k]].next = IF s[k] = m[c].prev THEN item ELSE m[s[k]].next
        /\ n[s[k]].prev = IF s[k] = c THEN item ELSE m[s[k]].prev
    BY <1>c, <2>1
  <2>3. /\ s[k] = m[c].prev <=> k = j - 1
        /\ s[k] = c <=> k = j
        /\ m[s[k]].next = At(s, k + 1) /\ m[s[k]].prev = At(s, k - 1)
    BY <1>2, <1>4
  <2> QED
    BY <2>2, <2>3
<1>9. ASSUME NEW p \in D PROVE n[p].child = IF p = a THEN At(t, 1) ELSE m[p].child
  <2>1. At(t, 1) = IF 1 < j THEN At(s, 1) ELSE IF 1 = j THEN item ELSE At(s, 1 - 1)
    BY <1>6
  <2>2. At(t, 1) = IF j = 1 THEN item ELSE At(s, 1)
    BY <2>1
  <2> QED
    BY <1>2, <1>4, <1>c, <2>2
<1>10. ASSUME NEW k \in 1 .. N + 1
       PROVE  n[t[k]].next = At(t, k + 1) /\ n[t[k]].prev = At(t, k - 1)
  <2>0. /\ At(t, k + 1) = IF k + 1 < j THEN At(s, k + 1) ELSE IF k + 1 = j THEN item ELSE At(s, (k + 1) - 1)
        /\ At(t, k - 1) = IF k - 1 < j THEN At(s, k - 1) ELSE IF k - 1 = j THEN item ELSE At(s, (k - 1) - 1)
    <3>1. k + 1 \in Int /\ k - 1 \in Int
      OBVIOUS
    <3> QED
      BY <1>6, <3>1
  <2>1. CASE k < j
    <3>1. t[k] = s[k] /\ k \in 1 .. N /\ k # j
      BY <1>3, <2>1
    <3>2. At(t, k + 1) = (IF k = j - 1 THEN item ELSE At(s, k + 1))
      BY <2>0, <2>1
    <3>3. At(t, k - 1) = At(s, k - 1)
      BY <2>0, <2>1
    <3> QED
      BY <1>8, <3>1, <3>2, <3>3
  <2>2. CASE k = j
    <3>1. t[k] = item /\ item # c /\ n[item].next = c /\ n[item].prev = m[c].prev
      BY <1>2, <1>3, <1>4, <1>c, <2>2
    <3>2. At(t, k + 1) = At(s, j) /\ At(t, k - 1) = At(s, j - 1)
      BY <2>0, <2>2
    <3> QED
      BY <1>2, <1>4, <3>1, <3>2
  <2>3. CASE k > j
    <3>1. t[k] = s[k - 1] /\ k - 1 \in 1 .. N /\ k - 1 # j - 1
      BY <1>3, <2>3
    <3>2. At(t, k + 1) = At(s, (k - 1) + 1)
      BY <2>0, <2>3
    <3>3. At(t, k - 1) = IF k - 1 = j THEN item ELSE At(s, (k - 1) - 1)
      BY <2>0, <2>3
    <3> QED
      BY <1>8, <3>1, <3>2, <3>3
  <2> QED
    BY <2>1, <2>2, <2>3
<1>11. ASSUME NEW i \in D \ Range(t)
       PROVE  i \notin Range(s) /\ n[i].next = m[i].next /\ n[i].prev = m[i].prev
  <2>1. i \notin Range(s) /\ i # item
    BY <1>5
  <2>2. i # c /\ i # m[c].prev
    BY <2>1, NoNeighbour
  <2> QED
    BY <1>c, <2>1, <2>2
<1>12. Relinked(m, n, K, a, t)
  BY <1>5, <1>c, <1>9, <1>10, <1>11 DEF Relinked
<1> QED
  BY <1>5, <1>7, <1>12

\* cJSON_InsertItemInArray puts the item in.
LEMMA InsertedPuts ==
  ASSUME NEW m, Blocks(m), NEW a \in DOMAIN m, NEW c \in DOMAIN m, NEW item \in DOMAIN m,
         item # c, c \in Pointer, item \in Pointer,
         NEW y \in Pointer, y = m[c].prev, item # y, y \in DOMAIN m \cup {NULL},
         c = m[a].child => y = NULL
  PROVE  PutIn(m, Inserted(m, a, c, item), a, c, item) /\ SameString(Inserted(m, a, c, item), m)
<1> DEFINE D == DOMAIN m
           n1 == [m EXCEPT ![item].next = c, ![item].prev = m[c].prev]
           n2 == SetLink(n1, a, c, item)
           n == SetPrev(n2, c, item)
<1>1. c # NULL
  BY DEF Blocks
<1>2. Inserted(m, a, c, item) = n
  BY <1>1 DEF Inserted, SetPrev
<1>3. /\ Blocks(n1) /\ DOMAIN n1 = D
      /\ \A i \in D : n1[i].next = IF i = item THEN c ELSE m[i].next
      /\ \A i \in D : n1[i].prev = IF i = item THEN m[c].prev ELSE m[i].prev
      /\ SameChild(n1, m) /\ SameString(n1, m)
  <2>1. NextPrevIs(n1, m, item, c, m[c].prev)
    BY NextPrevSet
  <2> HIDE DEF n1
  <2> QED
    BY <2>1 DEF NextPrevIs
<1> HIDE DEF n1
<1>4. n1[c].prev = m[c].prev /\ n1[a].child = m[a].child
  BY <1>3 DEF SameChild
<1>5. /\ Blocks(n2) /\ DOMAIN n2 = D
      /\ \A i \in D : n2[i].child = IF i = a /\ c = m[a].child THEN item ELSE n1[i].child
      /\ \A i \in D : n2[i].next = IF i = m[c].prev THEN item ELSE n1[i].next
      /\ SamePrev(n2, n1) /\ SameString(n2, n1)
  <2>1. LinkedAs(n2, n1, a, c, item)
    BY <1>3, <1>4, LinkSet
  <2> HIDE DEF n2
  <2> QED
    BY <1>3, <1>4, <2>1 DEF LinkedAs
<1> HIDE DEF n2
<1>6. /\ Blocks(n) /\ DOMAIN n = D
      /\ \A i \in D : n[i].prev = IF i = c THEN item ELSE n2[i].prev
      /\ SameNext(n, n2) /\ SameChild(n, n2) /\ SameString(n, n2)
  <2>1. PrevIs(n, n2, c, item)
    BY <1>5, PrevSet
  <2> HIDE DEF n
  <2> QED
    BY <1>5, <2>1 DEF PrevIs
<1> HIDE DEF n
<1>7. /\ \A i \in D : n[i].child = IF i = a /\ c = m[a].child THEN item ELSE m[i].child
      /\ \A i \in D : n[i].next = IF i = item THEN c
                                  ELSE IF i = m[c].prev THEN item ELSE m[i].next
      /\ \A i \in D : n[i].prev = IF i = c THEN item
                                  ELSE IF i = item THEN m[c].prev ELSE m[i].prev
      /\ SameString(n, m)
  BY <1>3, <1>5, <1>6 DEF SamePrev, SameNext, SameChild, SameString
<1> QED
  BY <1>2, <1>6, <1>7 DEF PutIn

\* An item is inserted: those behind it move up.
LEMMA InsertedFits ==
  ASSUME NEW m, NEW K, Fits(m, K), NEW a \in DOMAIN m, NEW j \in 1 .. Len(K[a]),
         NEW item \in DOMAIN m, Free(K, a, item)
  PROVE  LET n == Inserted(m, a, K[a][j], item)
         IN /\ Fits(n, [K EXCEPT ![a] = InsertAt(K[a], j, item)])
            /\ DOMAIN n = DOMAIN m /\ SameString(n, m)
<1> SUFFICES ASSUME NEW s, s = K[a], NEW c, c = s[j]
             PROVE  LET n == Inserted(m, a, c, item)
                    IN /\ Fits(n, [K EXCEPT ![a] = InsertAt(s, j, item)])
                       /\ DOMAIN n = DOMAIN m /\ SameString(n, m)
  OBVIOUS
<1> DEFINE n == Inserted(m, a, c, item)
           t == InsertAt(s, j, item)
<1>1. ListFacts(m, s, a) /\ s \in Seq(DOMAIN m) /\ j \in 1 .. Len(s) /\ Blocks(m)
  BY FitsList DEF ListFacts
<1>0. Between(m, s, a, j, c)
  BY <1>1, NeighbourFacts
<1>2. /\ c \in DOMAIN m /\ m[c].prev \in DOMAIN m \cup {NULL} /\ Len(s) \in Nat
      /\ m[c].prev \in Pointer
      /\ c = m[a].child => m[c].prev = NULL
  BY <1>0 DEF Between
<1>a. item \notin Range(s) /\ item \in Pointer /\ c \in Pointer
  BY <1>1, <1>2, FreeFacts DEF ListFacts
<1>b. item # c /\ item # m[c].prev
  BY <1>0, <1>1, <1>a, NoNeighbour
<1>3. PutIn(m, n, a, c, item) /\ SameString(n, m)
  BY <1>1, <1>2, <1>a, <1>b, InsertedPuts
<1>4. With(s, t, DOMAIN m, Len(s), j, item)
  <2>1. /\ IsList(t, DOMAIN m, Len(s) + 1)
        /\ \A k \in 1 .. Len(s) + 1 :
             t[k] = IF k < j THEN s[k] ELSE IF k = j THEN item ELSE s[k - 1]
    BY <1>1, InsertAtIs
  <2>2. /\ IsList(s, DOMAIN m, Len(s)) /\ NULL \notin DOMAIN m
        /\ \A i, k \in 1 .. Len(s) : s[i] = s[k] => i = k
    BY <1>1 DEF ListFacts
  <2> HIDE DEF t
  <2> QED
    BY <1>1, <1>a, <2>1, <2>2, WithIs
<1> HIDE DEF n, t
<1>5. t \in Seq(DOMAIN m) /\ MadeOf(K, a, item, t) /\ Relinked(m, n, K, a, t)
  BY <1>0, <1>1, <1>2, <1>3, <1>4, <1>a, PutInRelinks
<1>6. Fits(n, [K EXCEPT ![a] = t])
  BY <1>5, ChangeFits
<1>7. DOMAIN n = DOMAIN m
  BY <1>5 DEF Relinked
<1> QED
  BY <1>3, <1>6, <1>7 DEF n, t

\* The list t is s with the item e in the place of its item j.
Instead(s, t, D, N, j, e) ==
  /\ t \in Seq(D) /\ Len(t) = N
  /\ \A i, k \in 1 .. N : t[i] = t[k] => i = k
  /\ \A k \in 1 .. N : (t[k] \in Range(s) \/ t[k] = e) /\ t[k] = IF k = j THEN e ELSE s[k]
  /\ \A i \in Range(s) : i = s[j] \/ i \in Range(t)
  /\ s[j] \notin Range(t) /\ e \in Range(t)
  /\ \A k \in Int : At(t, k) = IF k = j THEN e ELSE At(s, k)

\* Replacing an item gives the list with the other in its place.
LEMMA InsteadIs ==
  ASSUME NEW D, NEW s, NEW N, NEW j \in 1 .. N, IsList(s, D, N), NULL \notin D,
         \A i, k \in 1 .. N : s[i] = s[k] => i = k,
         NEW e \in D, e \notin Range(s),
         NEW t, IsList(t, D, N), \A k \in 1 .. N : t[k] = IF k = j THEN e ELSE s[k]
  PROVE  Instead(s, t, D, N, j, e)
<1>1. N \in Nat /\ \A k \in 1 .. N : s[k] \in Range(s) /\ s[k] # e
  BY DEF IsList
<1>2. \A i, k \in 1 .. N : t[i] = t[k] => i = k
  BY <1>1
<1>3. \A k \in 1 .. N : t[k] \in Range(s) \/ t[k] = e
  BY <1>1
<1>4. ASSUME NEW i \in Range(s), i # s[j] PROVE i \in Range(t)
  <2>1. PICK k \in 1 .. N : i = s[k]
    BY DEF IsList
  <2>2. t[k] = i /\ t[k] \in Range(t)
    BY <1>4, <2>1 DEF IsList
  <2> QED
    BY <2>2
<1>5. e \in Range(t)
  <2>1. t[j] = e /\ t[j] \in Range(t)
    BY DEF IsList
  <2> QED
    BY <2>1
<1>6. s[j] \notin Range(t)
  <2> SUFFICES ASSUME s[j] \in Range(t) PROVE FALSE
    OBVIOUS
  <2>1. PICK k \in 1 .. N : s[j] = t[k]
    BY DEF IsList
  <2> QED
    BY <1>1, <2>1
<1>7. ASSUME NEW k \in Int PROVE At(t, k) = IF k = j THEN e ELSE At(s, k)
  <2>1. CASE k \in 1 .. N
    BY <2>1 DEF IsList
  <2>2. CASE k \notin 1 .. N
    BY <2>2 DEF IsList
  <2> QED
    BY <2>1, <2>2
<1>8. t \in Seq(D) /\ Len(t) = N
  BY DEF IsList
<1> QED
  BY <1>2, <1>3, <1>4, <1>5, <1>6, <1>7, <1>8 DEF Instead

\* The pointers after item took the place of c in the array a and c was cut off.
Swapped(m, n, a, c, item) ==
  /\ Blocks(n) /\ DOMAIN n = DOMAIN m
  /\ \A i \in DOMAIN m : n[i].child = IF i = a /\ c = m[a].child THEN item ELSE m[i].child
  /\ \A i \in DOMAIN m : n[i].next = IF i = c THEN NULL
                                     ELSE IF i = item THEN m[c].next
                                     ELSE IF i = m[c].prev THEN item ELSE m[i].next
  /\ \A i \in DOMAIN m : n[i].prev = IF i = c THEN NULL
                                     ELSE IF i = item THEN m[c].prev
                                     ELSE IF i = m[c].next THEN item ELSE m[i].prev

\* Pointers with the items swapped are those of that list.
LEMMA SwappedRelinks ==
  ASSUME NEW m, NEW K, NEW a \in DOMAIN m, NEW s, ListFacts(m, s, a), s = K[a],
         NEW D, D = DOMAIN m, NEW N \in Nat, N = Len(s),
         NEW j \in 1 .. N, NEW c, Between(m, s, a, j, c), NEW item \in D, item \notin Range(s),
         Free(K, a, item), NEW n, Swapped(m, n, a, c, item),
         NEW t, Instead(s, t, D, N, j, item)
  PROVE  t \in Seq(DOMAIN m) /\ MadeOf(K, a, item, t) /\ Relinked(m, n, K, a, t)
<1>2. /\ c = s[j] /\ c \in D
      /\ m[c].next = At(s, j + 1) /\ m[c].prev = At(s, j - 1)
      /\ (c = m[a].child <=> j = 1)
      /\ \A k \in 1 .. N : (s[k] = m[c].next <=> k = j + 1) /\ (s[k] = m[c].prev <=> k = j - 1)
  BY DEF Between
<1>3. \A k \in 1 .. N : t[k] = IF k = j THEN item ELSE s[k]
  BY DEF Instead
<1>4. /\ \A i, k \in 1 .. N : s[i] = s[k] => i = k
      /\ \A k \in 1 .. N : s[k] \in D /\ s[k] # item
      /\ m[a].child = At(s, 1)
      /\ \A k \in 1 .. N : m[s[k]].next = At(s, k + 1) /\ m[s[k]].prev = At(s, k - 1)
  BY DEF ListFacts, IsList
<1>5. /\ t \in Seq(D) /\ Len(t) = N
      /\ \A i, k \in 1 .. N : t[i] = t[k] => i = k
      /\ \A k \in 1 .. N : t[k] \in Range(s) \/ t[k] = item
      /\ \A i \in Range(s) : i = s[j] \/ i \in Range(t)
      /\ item \in Range(t)
  BY DEF Instead
<1>6. \A k \in Int : At(t, k) = IF k = j THEN item ELSE At(s, k)
  BY DEF Instead
<1>7. MadeOf(K, a, item, t)
  BY <1>5 DEF MadeOf
<1>c. /\ Blocks(n) /\ DOMAIN n = D
      /\ \A i \in D : n[i].child = IF i = a /\ c = m[a].child THEN item ELSE m[i].child
      /\ \A i \in D : n[i].next = IF i = c THEN NULL
                                  ELSE IF i = item THEN m[c].next
                                  ELSE IF i = m[c].prev THEN item ELSE m[i].next
      /\ \A i \in D : n[i].prev = IF i = c THEN NULL
                                  ELSE IF i = item THEN m[c].prev
                                  ELSE IF i = m[c].next THEN item ELSE m[i].prev
  BY DEF Swapped
<1>8. ASSUME NEW k \in 1 .. N, k # j
      PROVE  /\ n[s[k]].next = IF k = j - 1 THEN item ELSE At(s, k + 1)
             /\ n[s[k]].prev = IF k = j + 1 THEN item ELSE At(s, k - 1)
  <2>1. s[k] # item /\ s[k] \in D /\ s[k] # c
    BY <1>2, <1>4, <1>8
  <2>2. /\ n[s[k]].next = IF s[k] = m[c].prev THEN item ELSE m[s[k]].next
        /\ n[s[k]].prev = IF s[k] = m[c].next THEN item ELSE m[s[k]].prev
    BY <1>c, <2>1
  <2>3. /\ s[k] = m[c].prev <=> k = j - 1
        /\ s[k] = m[c].next <=> k = j + 1
        /\ m[s[k]].next = At(s, k + 1) /\ m[s[k]].prev = At(s, k - 1)
    BY <1>2, <1>4
  <2> QED
    BY <2>2, <2>3
<1>9. ASSUME NEW p \in D PROVE n[p].child = IF p = a THEN At(t, 1) ELSE m[p].child
  <2>1. At(t, 1) = IF j = 1 THEN item ELSE At(s, 1)
    BY <1>6
  <2> QED
    BY <1>2, <1>4, <1>c, <2>1
<1>10. ASSUME NEW k \in 1 .. N
       PROVE  n[t[k]].next = At(t, k + 1) /\ n[t[k]].prev = At(t, k - 1)
  <2>0. /\ At(t, k + 1) = IF k + 1 = j THEN item ELSE At(s, k + 1)
        /\ At(t, k - 1) = IF k - 1 = j THEN item ELSE At(s, k - 1)
    <3>1. k + 1 \in Int /\ k - 1 \in Int
      OBVIOUS
    <3> QED
      BY <1>6, <3>1
  <2>1. CASE k # j
    <3>1. t[k] = s[k]
      BY <1>3, <2>1
    <3>2. At(t, k + 1) = IF k = j - 1 THEN item ELSE At(s, k + 1)
      BY <2>0
    <3>3. At(t, k - 1) = IF k = j + 1 THEN item ELSE At(s, k - 1)
      BY <2>0
    <3> QED
      BY <1>8, <2>1, <3>1, <3>2, <3>3
  <2>2. CASE k = j
    <3>1. t[k] = item /\ item # c /\ n[item].next = m[c].next /\ n[item].prev = m[c].prev
      BY <1>2, <1>3, <1>4, <1>c, <2>2
    <3>2. At(t, k + 1) = At(s, j + 1) /\ At(t, k - 1) = At(s, j - 1)
      BY <2>0, <2>2
    <3> QED
      BY <1>2, <3>1, <3>2
  <2> QED
    BY <2>1, <2>2
<1>11. ASSUME NEW i \in D \ Range(t)
       PROVE  /\ i \notin Range(s) => n[i].next = m[i].next /\ n[i].prev = m[i].prev
              /\ i \in Range(s) => n[i].next = NULL /\ n[i].prev = NULL
  <2>1. i # item /\ (i \in Range(s) => i = c)
    BY <1>2, <1>5
  <2>2. i \notin Range(s) => i # c /\ i # m[c].prev /\ i # m[c].next
    BY NoNeighbour
  <2> QED
    BY <1>c, <2>1, <2>2
<1>12. Relinked(m, n, K, a, t)
  BY <1>5, <1>c, <1>9, <1>10, <1>11 DEF Relinked
<1> QED
  BY <1>5, <1>7, <1>12

\* The pointers of Replaced before the old item is deleted.
CutOff(m, array, c, item) ==
  LET filled == [m EXCEPT ![item].next = m[c].next, ![item].prev = m[c].prev]
      linked == SetLink(SetPrev(filled, m[c].next, item), array, c, item)
  IN  [linked EXCEPT ![c].next = NULL, ![c].prev = NULL]

\* cJSON_ReplaceItemInArray swaps them before it deletes the old one.
LEMMA CutOffSwaps ==
  ASSUME NEW m, Blocks(m), NEW a \in DOMAIN m, NEW c \in DOMAIN m, NEW item \in DOMAIN m,
         item # c, item \in Pointer, NULL \in Pointer,
         NEW x \in Pointer, x = m[c].next, item # x, x # c, x \in DOMAIN m \cup {NULL},
         NEW y \in Pointer, y = m[c].prev, item # y, y \in DOMAIN m \cup {NULL},
         c = m[a].child => y = NULL
  PROVE  Swapped(m, CutOff(m, a, c, item), a, c, item) /\ SameString(CutOff(m, a, c, item), m)
<1> DEFINE D == DOMAIN m
           n1 == [m EXCEPT ![item].next = x, ![item].prev = y]
           n2 == SetPrev(n1, x, item)
           n3 == SetLink(n2, a, c, item)
           n == [n3 EXCEPT ![c].next = NULL, ![c].prev = NULL]
<1>1. CutOff(m, a, c, item) = n
  BY DEF CutOff
<1>3. /\ Blocks(n1) /\ DOMAIN n1 = D
      /\ \A i \in D : n1[i].next = IF i = item THEN x ELSE m[i].next
      /\ \A i \in D : n1[i].prev = IF i = item THEN y ELSE m[i].prev
      /\ SameChild(n1, m) /\ SameString(n1, m)
  <2>1. NextPrevIs(n1, m, item, x, y)
    BY NextPrevSet
  <2> HIDE DEF n1
  <2> QED
    BY <2>1 DEF NextPrevIs
<1> HIDE DEF n1
<1>4. /\ Blocks(n2) /\ DOMAIN n2 = D
      /\ \A i \in D : n2[i].prev = IF i = x THEN item ELSE n1[i].prev
      /\ SameNext(n2, n1) /\ SameChild(n2, n1) /\ SameString(n2, n1)
  <2>1. PrevIs(n2, n1, x, item)
    BY <1>3, PrevSet
  <2> HIDE DEF n2
  <2> QED
    BY <1>3, <2>1 DEF PrevIs
<1> HIDE DEF n2
<1>5. n2[c].prev = y /\ n2[a].child = m[a].child
  BY <1>3, <1>4 DEF SameChild
<1>6. /\ Blocks(n3) /\ DOMAIN n3 = D
      /\ \A i \in D : n3[i].child = IF i = a /\ c = m[a].child THEN item ELSE n2[i].child
      /\ \A i \in D : n3[i].next = IF i = y THEN item ELSE n2[i].next
      /\ SamePrev(n3, n2) /\ SameString(n3, n2)
  <2>1. LinkedAs(n3, n2, a, c, item)
    BY <1>4, <1>5, LinkSet
  <2> HIDE DEF n3
  <2> QED
    BY <1>4, <1>5, <2>1 DEF LinkedAs
<1> HIDE DEF n3
<1>7. /\ Blocks(n) /\ DOMAIN n = D
      /\ \A i \in D : n[i].next = IF i = c THEN NULL ELSE n3[i].next
      /\ \A i \in D : n[i].prev = IF i = c THEN NULL ELSE n3[i].prev
      /\ SameChild(n, n3) /\ SameString(n, n3)
  <2>1. NextPrevIs(n, n3, c, NULL, NULL)
    BY <1>6, NextPrevSet
  <2> HIDE DEF n
  <2> QED
    BY <1>6, <2>1 DEF NextPrevIs
<1> HIDE DEF n
<1>8. /\ \A i \in D : n[i].child = IF i = a /\ c = m[a].child THEN item ELSE m[i].child
      /\ SameString(n, m)
  BY <1>3, <1>4, <1>6, <1>7 DEF SameChild, SameString
<1>9. \A i \in D : n[i].next = IF i = c THEN NULL ELSE IF i = item THEN x
                               ELSE IF i = y THEN item ELSE m[i].next
  BY <1>3, <1>4, <1>6, <1>7 DEF SameNext
<1>10. \A i \in D : n[i].prev = IF i = c THEN NULL ELSE IF i = item THEN y
                                ELSE IF i = x THEN item ELSE m[i].prev
  BY <1>3, <1>4, <1>6, <1>7 DEF SamePrev
<1> QED
  BY <1>1, <1>7, <1>8, <1>9, <1>10 DEF Swapped

\* An item is replaced: the other has its place.
LEMMA CutOffFits ==
  ASSUME NEW m, NEW K, Fits(m, K), NEW a \in DOMAIN m, NEW j \in 1 .. Len(K[a]),
         NEW item \in DOMAIN m, Free(K, a, item)
  PROVE  LET n == CutOff(m, a, K[a][j], item)
         IN /\ Fits(n, [K EXCEPT ![a] = ReplaceAt(K[a], j, item)])
            /\ DOMAIN n = DOMAIN m /\ SameString(n, m)
            /\ K[a][j] \notin Range(ReplaceAt(K[a], j, item))
<1> SUFFICES ASSUME NEW s, s = K[a], NEW c, c = s[j]
             PROVE  LET n == CutOff(m, a, c, item)
                    IN /\ Fits(n, [K EXCEPT ![a] = ReplaceAt(s, j, item)])
                       /\ DOMAIN n = DOMAIN m /\ SameString(n, m)
                       /\ c \notin Range(ReplaceAt(s, j, item))
  OBVIOUS
<1> DEFINE n == CutOff(m, a, c, item)
           t == ReplaceAt(s, j, item)
<1>1. ListFacts(m, s, a) /\ s \in Seq(DOMAIN m) /\ j \in 1 .. Len(s) /\ Blocks(m)
  BY FitsList DEF ListFacts
<1>0. Between(m, s, a, j, c)
  BY <1>1, NeighbourFacts
<1>2. /\ c \in DOMAIN m /\ m[c].prev \in DOMAIN m \cup {NULL} /\ Len(s) \in Nat
      /\ m[c].next \in DOMAIN m \cup {NULL} /\ m[c].next \in Pointer
      /\ m[c].prev \in Pointer /\ NULL \in Pointer
      /\ c = m[a].child => m[c].prev = NULL
      /\ c # m[c].next
  BY <1>0 DEF Between
<1>a. item \notin Range(s) /\ item \in Pointer
  BY <1>1, <1>2, FreeFacts DEF ListFacts
<1>b. item # c /\ item # m[c].prev /\ item # m[c].next
  BY <1>0, <1>1, <1>a, NoNeighbour
<1>3. Swapped(m, n, a, c, item) /\ SameString(n, m)
  BY <1>1, <1>2, <1>a, <1>b, CutOffSwaps
<1>4. Instead(s, t, DOMAIN m, Len(s), j, item)
  <2>1. /\ IsList(t, DOMAIN m, Len(s))
        /\ \A k \in 1 .. Len(s) : t[k] = IF k = j THEN item ELSE s[k]
    BY <1>1, ReplaceAtIs
  <2>2. /\ IsList(s, DOMAIN m, Len(s)) /\ NULL \notin DOMAIN m
        /\ \A i, k \in 1 .. Len(s) : s[i] = s[k] => i = k
    BY <1>1 DEF ListFacts
  <2> HIDE DEF t
  <2> QED
    BY <1>1, <1>a, <2>1, <2>2, InsteadIs
<1> HIDE DEF n, t
<1>5. t \in Seq(DOMAIN m) /\ MadeOf(K, a, item, t) /\ Relinked(m, n, K, a, t)
  BY <1>0, <1>1, <1>2, <1>3, <1>4, <1>a, SwappedRelinks
<1>6. Fits(n, [K EXCEPT ![a] = t])
  BY <1>5, ChangeFits
<1>7. DOMAIN n = DOMAIN m
  BY <1>5 DEF Relinked
<1>8. c \notin Range(t)
  BY <1>4 DEF Instead
<1> QED
  BY <1>3, <1>6, <1>7, <1>8 DEF n, t

-----------------------------------------------------------------------------
(***************************************************************************)
(* Items come and go with all that is below them.                          *)
(***************************************************************************)

\* A sequence of fewer items, or of more.
LEMMA NarrowSeq ==
  ASSUME NEW D, NEW s \in Seq(D), NEW R, \A i \in Range(s) : i \in R
  PROVE  s \in Seq(R)
<1>1. /\ Len(s) \in Nat /\ DOMAIN s = 1 .. Len(s)
      /\ \A j \in 1 .. Len(s) : s[j] \in Range(s)
  BY SeqItems
<1>2. s \in [1 .. Len(s) -> R]
  BY <1>1
<1> QED
  BY <1>1, <1>2, SeqDef

\* The items of R, when no list has some of its items in R and others not.
LEMMA PartFits ==
  ASSUME NEW m, NEW K, Fits(m, K), NEW R \in SUBSET DOMAIN m,
         \A p \in R : Range(K[p]) \subseteq R,
         \A p \in DOMAIN m \ R : Range(K[p]) \cap R = {}
  PROVE  Fits(Restrict(m, R), Restrict(K, R))
<1> DEFINE D == DOMAIN m
           n == Restrict(m, R)
           L == Restrict(K, R)
<1>0. Typed(m, K) /\ Placed(m, K) /\ Once(K) /\ m \in [D -> Node] /\ D \subseteq Items
  BY FitsTypes DEF Fits
<1>1. /\ DOMAIN n = R /\ n \in [R -> Node] /\ \A i \in R : n[i] = m[i]
      /\ DOMAIN L = R /\ \A p \in R : L[p] = K[p]
      /\ L = [p \in R |-> K[p]]
  BY <1>0 DEF Restrict
<1>2. \A p \in R : K[p] \in Seq(R)
  BY <1>0, NarrowSeq DEF Typed
<1>3. L \in [R -> Seq(R)]
  BY <1>1, <1>2
<1>4. /\ DOMAIN Held(L) = R /\ \A p \in R : Held(L)[p] = Held(K)[p]
  BY <1>0, <1>1 DEF Held, Typed
<1> HIDE DEF n, L
<1>5. Placed(n, L)
  <2>1. \A p \in R : n[p].child = At(L[p], 1)
    BY <1>0, <1>1 DEF Placed
  <2>2. ASSUME NEW p \in R, NEW j \in 1 .. Len(L[p])
        PROVE  n[L[p][j]].next = At(L[p], j + 1) /\ n[L[p][j]].prev = At(L[p], j - 1)
    <3>1. L[p] = K[p] /\ K[p][j] \in R
      BY <1>0, <1>1 DEF Typed
    <3>2. n[K[p][j]] = m[K[p][j]] /\ p \in D
      BY <1>1, <3>1
    <3> QED
      BY <1>0, <3>1, <3>2 DEF Placed
  <2>3. ASSUME NEW c \in R, Top(L, c) PROVE n[c].next = NULL /\ n[c].prev = NULL
    <3>1. Top(K, c)
      BY <1>0, <1>1, <2>3 DEF Top, Typed
    <3> QED
      BY <1>0, <1>1, <3>1 DEF Placed
  <2> QED
    BY <1>1, <2>1, <2>2, <2>3 DEF Placed
<1>6. Once(L)
  <2>1. R \subseteq DOMAIN K
    BY <1>0 DEF Typed
  <2> QED
    BY <1>0, <1>1, <2>1 DEF Once
<1>7. Grounded(Held(L))
  <2>1. Grounded(Held(K)) /\ DOMAIN Held(K) = D
    BY <1>0 DEF Typed
  <2> QED
    BY <1>4, <2>1 DEF Grounded
<1>8. Fits(n, L)
  BY <1>0, <1>1, <1>3, <1>5, <1>6, <1>7 DEF Fits
<1> QED
  BY <1>8 DEF n, L

\* Deleting an item that is in no array, with all that is below it.
LEMMA DeletedFits ==
  ASSUME NEW m, NEW K, Fits(m, K), NEW c \in DOMAIN m, Top(K, c)
  PROVE  /\ Fits(Deleted(m, c), Restrict(K, DOMAIN m \ Below(K, c)))
         /\ Deleted(m, c) = Restrict(m, DOMAIN m \ Below(K, c))
<1> DEFINE B == Below(K, c)
           R == DOMAIN m \ B
<1>0. Typed(m, K) /\ Placed(m, K) /\ Once(K)
  BY FitsTypes DEF Fits
<1>1. Deleted(m, c) = Restrict(m, R)
  BY <1>0, FreedTop DEF Placed, Deleted
<1>2. c \in B /\ B \subseteq DOMAIN m /\ \A p \in B : Range(K[p]) \subseteq B
  BY BelowHolds
<1>3. ASSUME NEW p \in R, NEW i \in Range(K[p]) PROVE i \in R
  <2>1. i \in DOMAIN m /\ i # c
    BY <1>0 DEF Typed, Top
  <2>2. ASSUME i \in B PROVE FALSE
    <3>1. PICK q \in B : i \in Held(K)[q]
      <4>1. Held(K) \in [DOMAIN m -> SUBSET DOMAIN m]
        BY <1>0 DEF Typed
      <4> QED
        BY <2>1, <2>2, <4>1, ReachedFrom DEF Below
    <3>2. q \in DOMAIN K /\ p \in DOMAIN K /\ i \in Range(K[q]) /\ q # p
      BY <1>0, <1>2, <3>1 DEF Typed
    <3>3. PICK g \in 1 .. Len(K[p]) : i = K[p][g]
      BY <1>0 DEF Typed
    <3>4. PICK h \in 1 .. Len(K[q]) : i = K[q][h]
      BY <1>0, <3>2 DEF Typed
    <3> QED
      BY <1>0, <3>2, <3>3, <3>4 DEF Once
  <2> QED
    BY <2>1, <2>2
<1>4. \A p \in DOMAIN m \ R : Range(K[p]) \cap R = {}
  BY <1>2
<1> HIDE DEF B
<1>5. Fits(Restrict(m, R), Restrict(K, R))
  BY <1>3, <1>4, PartFits
<1> QED
  BY <1>1, <1>5 DEF B

\* What is below an item of a list does not change with the list.
LEMMA BelowElsewhere ==
  ASSUME NEW m, NEW K, Fits(m, K), NEW a \in DOMAIN m, NEW c \in DOMAIN m, a \notin Below(K, c),
         NEW n, DOMAIN n = DOMAIN m, NEW t, Fits(n, [K EXCEPT ![a] = t])
  PROVE  Below([K EXCEPT ![a] = t], c) = Below(K, c)
<1> DEFINE L == [K EXCEPT ![a] = t]
<1>0. Typed(m, K)
  BY FitsTypes
<1>1. DOMAIN K = DOMAIN m /\ Held(K) \in [DOMAIN m -> SUBSET DOMAIN m]
  BY <1>0 DEF Typed
<1>2. DOMAIN L = DOMAIN m /\ \A p \in DOMAIN m : p # a => L[p] = K[p]
  BY <1>1
<1> HIDE DEF L
<1>3. Typed(n, L)
  BY FitsTypes DEF L
<1>4. Held(L) \in [DOMAIN m -> SUBSET DOMAIN m]
  BY <1>3 DEF Typed
<1>5. \A p \in DOMAIN m : p # a => Held(L)[p] = Held(K)[p]
  BY <1>1, <1>2 DEF Held
<1>6. \A p \in Reach(Held(K), c) : Held(L)[p] = Held(K)[p]
  BY <1>1, <1>5, ReachCloses DEF Below
<1>7. Reach(Held(L), c) = Reach(Held(K), c)
  BY <1>1, <1>4, <1>6, ReachIsLocal
<1> QED
  BY <1>7 DEF L, Below

\* An item is not below one of its children.
LEMMA NotBelowOwn ==
  ASSUME NEW m, NEW K, Fits(m, K), NEW a \in DOMAIN m, NEW c \in Range(K[a])
  PROVE  c \in DOMAIN m /\ a \notin Below(K, c)
<1>0. Typed(m, K)
  BY FitsTypes
<1>1. /\ c \in DOMAIN m /\ c \in Held(K)[a]
      /\ Held(K) \in [DOMAIN m -> SUBSET DOMAIN m] /\ Grounded(Held(K))
  BY <1>0 DEF Typed
<1> QED
  BY <1>1, NoWayBack DEF Below

\* An item that only the list of a held is in none when it is not in the new one.
LEMMA TopWithout ==
  ASSUME NEW m, NEW K, Fits(m, K), NEW a \in DOMAIN m, NEW c \in Range(K[a]),
         NEW t, c \notin Range(t)
  PROVE  Top([K EXCEPT ![a] = t], c)
<1>0. Typed(m, K) /\ Once(K)
  BY FitsTypes DEF Fits
<1> DEFINE L == [K EXCEPT ![a] = t]
<1>1. DOMAIN L = DOMAIN K /\ L[a] = t /\ (\A p \in DOMAIN K : p # a => L[p] = K[p]) /\ DOMAIN K = DOMAIN m
  BY <1>0 DEF Typed
<1> HIDE DEF L
<1>2. ASSUME NEW p \in DOMAIN K, p # a PROVE c \notin Range(K[p])
  <2> SUFFICES ASSUME c \in Range(K[p]) PROVE FALSE
    OBVIOUS
  <2>1. PICK g \in 1 .. Len(K[p]) : c = K[p][g]
    BY <1>0, <1>1 DEF Typed
  <2>2. PICK h \in 1 .. Len(K[a]) : c = K[a][h]
    BY <1>0, <1>1 DEF Typed
  <2>3. p \in DOMAIN K /\ a \in DOMAIN K /\ K[p][g] = K[a][h]
    BY <1>1, <2>1, <2>2
  <2>4. Once(K)
    BY <1>0
  <2>5. p = a
    BY <2>3, <2>4 DEF Once
  <2> QED
    BY <1>2, <2>5
<1>3. Top(L, c)
  BY <1>1, <1>2 DEF Top
<1> QED
  BY <1>3 DEF L

\* Two heaps of items that have nothing in common.
LEMMA JoinIs ==
  ASSUME NEW f, NEW g, DOMAIN f \cap DOMAIN g = {}
  PROVE  /\ DOMAIN Grown(f, g) = DOMAIN f \cup DOMAIN g
         /\ \A x \in DOMAIN f : Grown(f, g)[x] = f[x]
         /\ \A x \in DOMAIN g : Grown(f, g)[x] = g[x]
         /\ Grown(f, g) = [x \in DOMAIN f \cup DOMAIN g |-> Grown(f, g)[x]]
BY DEF Grown

\* A sequence of D is one of every larger set.
LEMMA WidenSeq ==
  ASSUME NEW D, NEW s \in Seq(D), NEW E, D \subseteq E
  PROVE  s \in Seq(E)
<1>1. \A i \in Range(s) : i \in E
  BY SeqItems
<1> QED
  BY <1>1, NarrowSeq

\* They fit together when each fits.
LEMMA JoinFits ==
  ASSUME NEW m, NEW K, Fits(m, K), NEW n, NEW L, Fits(n, L), DOMAIN m \cap DOMAIN n = {}
  PROVE  Fits(Grown(m, n), Grown(K, L))
<1> DEFINE D == DOMAIN m
           E == DOMAIN n
           g == Grown(m, n)
           M == Grown(K, L)
<1>0. /\ Typed(m, K) /\ Placed(m, K) /\ Once(K) /\ m \in [D -> Node] /\ D \subseteq Items
      /\ Typed(n, L) /\ Placed(n, L) /\ Once(L) /\ n \in [E -> Node] /\ E \subseteq Items
  BY FitsTypes DEF Fits
<1>d. DOMAIN K = D /\ DOMAIN L = E
  BY <1>0 DEF Typed
<1>1. /\ DOMAIN g = D \cup E
      /\ \A x \in D : g[x] = m[x]
      /\ \A x \in E : g[x] = n[x]
      /\ g = [x \in D \cup E |-> g[x]]
  BY JoinIs
<1>2. /\ DOMAIN M = D \cup E
      /\ \A x \in D : M[x] = K[x]
      /\ \A x \in E : M[x] = L[x]
      /\ M = [x \in D \cup E |-> M[x]]
  <2>1. DOMAIN K \cap DOMAIN L = {}
    BY <1>d
  <2>2. /\ DOMAIN Grown(K, L) = DOMAIN K \cup DOMAIN L
        /\ \A x \in DOMAIN K : Grown(K, L)[x] = K[x]
        /\ \A x \in DOMAIN L : Grown(K, L)[x] = L[x]
        /\ Grown(K, L) = [x \in DOMAIN K \cup DOMAIN L |-> Grown(K, L)[x]]
    BY <2>1, JoinIs
  <2> HIDE DEF M
  <2> QED
    BY <1>d, <2>2 DEF M
<1> HIDE DEF g, M
<1>3. g \in [D \cup E -> Node]
  BY <1>0, <1>1
<1>4. \A x \in D \cup E : M[x] \in Seq(D \cup E)
  <2>1. \A x \in D : K[x] \in Seq(D \cup E)
    BY <1>0, WidenSeq DEF Typed
  <2>2. \A x \in E : L[x] \in Seq(D \cup E)
    BY <1>0, WidenSeq DEF Typed
  <2> QED
    BY <1>2, <2>1, <2>2
<1>5. M \in [D \cup E -> Seq(D \cup E)]
  <2>1. M = [x \in D \cup E |-> M[x]]
    BY <1>2
  <2> QED
    BY <1>4, <2>1
<1>6. /\ \A p \in D : Range(M[p]) \subseteq D /\ M[p] = K[p]
      /\ \A p \in E : Range(M[p]) \subseteq E /\ M[p] = L[p]
  BY <1>0, <1>2 DEF Typed
<1>7. Placed(g, M)
  <2>1. ASSUME NEW p \in D \cup E PROVE g[p].child = At(M[p], 1)
    BY <1>0, <1>1, <1>2 DEF Placed
  <2>2. ASSUME NEW p \in D \cup E, NEW j \in 1 .. Len(M[p])
        PROVE  g[M[p][j]].next = At(M[p], j + 1) /\ g[M[p][j]].prev = At(M[p], j - 1)
    <3>1. CASE p \in D
      <4>1. M[p] = K[p] /\ K[p][j] \in D /\ g[K[p][j]] = m[K[p][j]]
        BY <1>0, <1>1, <1>2, <3>1 DEF Typed
      <4> QED
        BY <1>0, <3>1, <4>1 DEF Placed
    <3>2. CASE p \in E
      <4>1. M[p] = L[p] /\ L[p][j] \in E /\ g[L[p][j]] = n[L[p][j]]
        BY <1>0, <1>1, <1>2, <3>2 DEF Typed
      <4> QED
        BY <1>0, <3>2, <4>1 DEF Placed
    <3> QED
      BY <3>1, <3>2
  <2>3. ASSUME NEW c \in D \cup E, Top(M, c) PROVE g[c].next = NULL /\ g[c].prev = NULL
    <3>1. Top(K, c) /\ Top(L, c)
      BY <1>2, <1>d, <2>3 DEF Top
    <3>2. CASE c \in D
      BY <1>0, <1>1, <3>1, <3>2 DEF Placed
    <3>3. CASE c \in E
      BY <1>0, <1>1, <3>1, <3>3 DEF Placed
    <3> QED
      BY <3>2, <3>3
  <2> QED
    BY <1>1, <2>1, <2>2, <2>3 DEF Placed
<1>8. Once(M)
  <2> SUFFICES ASSUME NEW p \in D \cup E, NEW q \in D \cup E,
                      NEW i \in 1 .. Len(M[p]), NEW j \in 1 .. Len(M[q]), M[p][i] = M[q][j]
               PROVE  p = q /\ i = j
    BY <1>2 DEF Once
  <2>1. CASE p \in D /\ q \in D
    <3>1. Once(K) /\ M[p] = K[p] /\ M[q] = K[q] /\ p \in DOMAIN K /\ q \in DOMAIN K
      BY <1>0, <1>2, <1>d, <2>1
    <3> QED
      BY <3>1 DEF Once
  <2>2. CASE p \in E /\ q \in E
    <3>1. Once(L) /\ M[p] = L[p] /\ M[q] = L[q] /\ p \in DOMAIN L /\ q \in DOMAIN L
      BY <1>0, <1>2, <1>d, <2>2
    <3> QED
      BY <3>1 DEF Once
  <2>3. /\ p \in D => M[p][i] \in D
        /\ p \in E => M[p][i] \in E
        /\ q \in D => M[q][j] \in D
        /\ q \in E => M[q][j] \in E
    BY <1>0, <1>2 DEF Typed
  <2> QED
    BY <2>1, <2>2, <2>3
<1>9. Grounded(Held(M))
  <2>1. /\ DOMAIN Held(M) = D \cup E
        /\ \A p \in D : Held(M)[p] = Held(K)[p] /\ Held(M)[p] \subseteq D
        /\ \A p \in E : Held(M)[p] = Held(L)[p] /\ Held(M)[p] \subseteq E
        /\ DOMAIN Held(K) = D /\ DOMAIN Held(L) = E
    BY <1>2, <1>6, <1>d DEF Held
  <2>2. Grounded(Held(K)) /\ Grounded(Held(L))
    BY <1>0 DEF Typed
  <2> SUFFICES ASSUME NEW S \in SUBSET (D \cup E), S # {}
               PROVE  \E i \in S : Held(M)[i] \cap S = {}
    BY <2>1 DEF Grounded
  <2>3. CASE S \cap D # {}
    <3>1. PICK i \in S \cap D : Held(K)[i] \cap (S \cap D) = {}
      BY <2>1, <2>2, <2>3 DEF Grounded
    <3> QED
      BY <2>1, <3>1
  <2>4. CASE S \cap E # {}
    <3>1. PICK i \in S \cap E : Held(L)[i] \cap (S \cap E) = {}
      BY <2>1, <2>2, <2>4 DEF Grounded
    <3> QED
      BY <2>1, <3>1
  <2> QED
    BY <2>3, <2>4
<1>10. Fits(g, M)
  BY <1>0, <1>1, <1>3, <1>5, <1>7, <1>8, <1>9 DEF Fits
<1> QED
  BY <1>10 DEF g, M

\* The lists of children of the items Array makes.
Lists(a, s) == [c \in {a} \cup Range(s) |-> IF c = a THEN s ELSE <<>>]

\* A new array of new items.
LEMMA NewFits ==
  ASSUME NEW F \in SUBSET Items, NEW a \in F, NEW s \in Seq(F), IsInjective(s), a \notin Range(s)
  PROVE  Fits(Array(a, s), Lists(a, s))
<1> DEFINE R == Range(s)
           E == {a} \cup R
           N == Len(s)
           n == Array(a, s)
           L == Lists(a, s)
           Linked(j) == [New_Item EXCEPT !.next = At(s, j + 1), !.prev = At(s, j - 1)]
           place(i) == CHOOSE j \in 1 .. N : s[j] = i
<1>0. NULL \notin F /\ F \subseteq Pointer /\ NULL \in Pointer
  BY JsonItemsAssumption DEF Pointer
<1>1. IsList(s, F, N)
  BY ListOf
<1>2. /\ N \in Nat /\ DOMAIN s = 1 .. N
      /\ \A k \in 1 .. N : s[k] \in F /\ s[k] \in R /\ At(s, k) = s[k]
      /\ \A k \in Int \ 1 .. N : At(s, k) = NULL
      /\ \A c \in R : c \in F /\ \E k \in 1 .. N : c = s[k]
  BY <1>1 DEF IsList
<1>3. \A i, k \in 1 .. N : s[i] = s[k] => i = k
  BY <1>2 DEF IsInjective
<1>4. \A k \in 1 .. N : place(s[k]) = k
  <2> SUFFICES ASSUME NEW k \in 1 .. N PROVE place(s[k]) = k
    OBVIOUS
  <2>1. place(s[k]) \in 1 .. N /\ s[place(s[k])] = s[k]
    OBVIOUS
  <2> HIDE DEF place
  <2> QED
    BY <1>3, <2>1
<1>5. \A k \in Int : At(s, k) \in Pointer
  BY <1>0, <1>2
<1> HIDE DEF place, R
<1>6. /\ \A j \in Int : /\ Linked(j).next = At(s, j + 1)
                        /\ Linked(j).prev = At(s, j - 1)
                        /\ Linked(j).child = NULL
                        /\ Linked(j) \in Node
  <2> SUFFICES ASSUME NEW j \in Int
               PROVE  /\ Linked(j).next = At(s, j + 1)
                      /\ Linked(j).prev = At(s, j - 1)
                      /\ Linked(j).child = NULL
                      /\ Linked(j) \in Node
    OBVIOUS
  <2>1. At(s, j + 1) \in Pointer /\ At(s, j - 1) \in Pointer
    BY <1>5
  <2> QED
    BY <1>0, <2>1 DEF New_Item, Node
<1> DEFINE head == [New_Item EXCEPT !.child = At(s, 1)]
<1>7. head \in Node /\ head.child = At(s, 1) /\ head.next = NULL /\ head.prev = NULL
  BY <1>0, <1>5 DEF New_Item, Node
<1>8. n = [i \in E |-> IF i = a THEN head ELSE Linked(place(i))]
  BY DEF Array, place, R
<1> HIDE DEF Linked, head, n
<1>16. a \notin R /\ E \subseteq Items
  BY <1>2 DEF R
<1>10. \A k \in 1 .. N : n[s[k]] = Linked(k)
  <2> SUFFICES ASSUME NEW k \in 1 .. N PROVE n[s[k]] = Linked(k)
    OBVIOUS
  <2>1. s[k] \in R /\ place(s[k]) = k
    BY <1>2, <1>4
  <2> QED
    BY <1>8, <1>16, <2>1
<1>h. \A c \in R : n[c] \in Node /\ n[c].child = NULL
  <2> SUFFICES ASSUME NEW c \in R PROVE n[c] \in Node /\ n[c].child = NULL
    OBVIOUS
  <2>1. PICK k \in 1 .. N : c = s[k]
    BY <1>2
  <2>2. n[c] = Linked(k) /\ k \in Int
    BY <1>10, <2>1
  <2> QED
    BY <1>6, <2>2
<1>11. DOMAIN n = E /\ n = [i \in E |-> n[i]] /\ n[a] = head
  BY <1>8
<1>12. /\ DOMAIN L = E /\ L = [i \in E |-> L[i]] /\ L[a] = s
       /\ \A c \in R : L[c] = <<>>
  BY <1>16 DEF Lists, R
<1> HIDE DEF L
<1>13. n \in [E -> Node]
  BY <1>7, <1>11, <1>h
<1>14. s \in Seq(E)
  BY NarrowSeq DEF R
<1>15. L \in [E -> Seq(E)]
  <2>1. <<>> \in Seq(E)
    OBVIOUS
  <2>2. \A i \in E : L[i] \in Seq(E)
    BY <1>12, <1>14, <2>1
  <2> QED
    BY <1>12, <2>2
<1>17. Placed(n, L)
  <2>1. ASSUME NEW p \in E PROVE n[p].child = At(L[p], 1)
    <3>1. At(<<>>, 1) = NULL
      BY DEF At
    <3> QED
      BY <1>7, <1>11, <1>12, <1>h, <3>1
  <2>2. ASSUME NEW p \in E, NEW j \in 1 .. Len(L[p])
        PROVE  n[L[p][j]].next = At(L[p], j + 1) /\ n[L[p][j]].prev = At(L[p], j - 1)
    <3>1. p = a
      BY <1>12
    <3>2. j \in 1 .. N /\ L[p] = s /\ s[j] \in R /\ n[s[j]] = Linked(j)
      BY <1>2, <1>10, <1>12, <3>1
    <3> QED
      BY <1>6, <3>2
  <2>3. ASSUME NEW c \in E, Top(L, c) PROVE n[c].next = NULL /\ n[c].prev = NULL
    <3>1. c = a
      BY <1>12, <2>3 DEF Top, R
    <3> QED
      BY <1>7, <1>11, <3>1
  <2> QED
    BY <1>11, <2>1, <2>2, <2>3 DEF Placed
<1>18. Once(L)
  <2> SUFFICES ASSUME NEW p \in E, NEW q \in E, NEW i \in 1 .. Len(L[p]), NEW j \in 1 .. Len(L[q]),
                      L[p][i] = L[q][j]
               PROVE  p = q /\ i = j
    BY <1>12 DEF Once
  <2>1. p = a /\ q = a
    BY <1>12
  <2> QED
    BY <1>3, <1>12, <2>1
<1>19. Grounded(Held(L))
  <2>1. DOMAIN Held(L) = E /\ Held(L)[a] = R /\ \A c \in R : Held(L)[c] = {}
    BY <1>12 DEF Held, Range, R
  <2> SUFFICES ASSUME NEW S \in SUBSET E, S # {} PROVE \E i \in S : Held(L)[i] \cap S = {}
    BY <2>1 DEF Grounded
  <2>2. CASE S \cap R = {}
    BY <1>16, <2>1, <2>2
  <2>3. CASE S \cap R # {}
    BY <2>1, <2>3
  <2> QED
    BY <2>2, <2>3
<1>20. Fits(n, L)
  BY <1>11, <1>13, <1>15, <1>16, <1>17, <1>18, <1>19 DEF Fits
<1> QED
  BY <1>20 DEF n, L

\* Pointers that lead to an item and back.
LEMMA ThereAndBack ==
  ASSUME NEW m, NEW K, Fits(m, K), NEW i \in DOMAIN m
  PROVE  /\ m[i].next # NULL => m[i].next \in DOMAIN m /\ m[m[i].next].prev = i
         /\ m[i].prev # NULL => m[i].prev \in DOMAIN m /\ m[m[i].prev].next = i
         /\ m[i].child # NULL => m[i].child \in DOMAIN m /\ m[m[i].child].prev = NULL
<1>0. Typed(m, K) /\ Placed(m, K) /\ DOMAIN K = DOMAIN m
  BY FitsTypes DEF Fits, Typed
<1>1. ASSUME m[i].child # NULL PROVE m[i].child \in DOMAIN m /\ m[m[i].child].prev = NULL
  <2>1. IsList(K[i], DOMAIN m, Len(K[i])) /\ m[i].child = At(K[i], 1)
    BY <1>0, ListOf DEF Typed, Placed
  <2>2. 1 \in 1 .. Len(K[i]) /\ m[i].child = K[i][1] /\ At(K[i], 1 - 1) = NULL
    BY <1>1, <2>1 DEF IsList
  <2> QED
    BY <1>0, <2>2 DEF Placed, Typed
<1>2. CASE Top(K, i)
  BY <1>0, <1>1, <1>2 DEF Placed
<1>3. CASE ~Top(K, i)
  <2>1. PICK p \in DOMAIN m : i \in Range(K[p])
    BY <1>0, <1>3 DEF Top
  <2>2. PICK j \in 1 .. Len(K[p]) : i = K[p][j]
    BY <1>0, <2>1 DEF Typed
  <2> SUFFICES ASSUME NEW s, s = K[p], NEW N \in Nat, N = Len(s)
               PROVE  /\ m[i].next # NULL => m[i].next \in DOMAIN m /\ m[m[i].next].prev = i
                      /\ m[i].prev # NULL => m[i].prev \in DOMAIN m /\ m[m[i].prev].next = i
    BY <1>0, <1>1 DEF Typed
  <2>3. /\ j \in 1 .. N /\ i = s[j]
        /\ \A k \in 1 .. N : s[k] \in DOMAIN m /\ At(s, k) = s[k]
        /\ \A k \in Int \ 1 .. N : At(s, k) = NULL
        /\ \A k \in 1 .. N : m[s[k]].next = At(s, k + 1) /\ m[s[k]].prev = At(s, k - 1)
    <3>1. IsList(s, DOMAIN m, N)
      BY <1>0, ListOf DEF Typed
    <3> QED
      BY <1>0, <2>2, <3>1 DEF IsList, Placed
  <2>4. ASSUME m[i].next # NULL PROVE m[i].next \in DOMAIN m /\ m[m[i].next].prev = i
    <3>1. m[i].next = At(s, j + 1)
      BY <2>3
    <3>2. j + 1 \in 1 .. N /\ (j + 1) - 1 = j
      BY <2>3, <2>4, <3>1
    <3>3. m[i].next = s[j + 1] /\ m[s[j + 1]].prev = At(s, (j + 1) - 1) /\ s[j + 1] \in DOMAIN m
      BY <2>3, <3>1, <3>2
    <3> QED
      BY <2>3, <3>2, <3>3
  <2>5. ASSUME m[i].prev # NULL PROVE m[i].prev \in DOMAIN m /\ m[m[i].prev].next = i
    <3>1. m[i].prev = At(s, j - 1)
      BY <2>3
    <3>2. j - 1 \in 1 .. N /\ (j - 1) + 1 = j
      BY <2>3, <2>5, <3>1
    <3>3. m[i].prev = s[j - 1] /\ m[s[j - 1]].next = At(s, (j - 1) + 1) /\ s[j - 1] \in DOMAIN m
      BY <2>3, <3>1, <3>2
    <3> QED
      BY <2>3, <3>2, <3>3
  <2> QED
    BY <2>4, <2>5
<1> QED
  BY <1>2, <1>3

-----------------------------------------------------------------------------
\* The lists of children of the copies, as JsonTree gives them.
CopiedLists(K, S, recurse, copy) ==
  [c \in Range(copy) |->
     LET j == CHOOSE j \in S : copy[j] = c
     IN  IF recurse THEN [k \in DOMAIN K[j] |-> copy[K[j][k]]] ELSE <<>>]

\* Every copy is that of one item.
LEMMA CopyFound ==
  ASSUME NEW S, NEW F, NEW copy \in [S -> F], IsInjective(copy)
  PROVE  /\ \A j \in S : copy[j] \in F /\ copy[j] \in Range(copy)
         /\ \A j \in S : (CHOOSE k \in S : copy[k] = copy[j]) = j
         /\ \A c \in Range(copy) : \E j \in S : c = copy[j]
         /\ \A j, k \in S : copy[j] = copy[k] => j = k
         /\ Range(copy) \subseteq F
<1>1. \A j, k \in S : copy[j] = copy[k] => j = k
  BY DEF IsInjective
<1>2. \A j \in S : copy[j] \in Range(copy)
  BY DEF Range
<1>3. \A c \in Range(copy) : \E j \in S : c = copy[j]
  BY DEF Range
<1>4. ASSUME NEW j \in S PROVE (CHOOSE k \in S : copy[k] = copy[j]) = j
  <2> DEFINE h == CHOOSE k \in S : copy[k] = copy[j]
  <2>1. h \in S /\ copy[h] = copy[j]
    OBVIOUS
  <2> HIDE DEF h
  <2>2. h = j
    BY <1>1, <2>1
  <2> QED
    BY <2>2 DEF h
<1> QED
  BY <1>1, <1>2, <1>3, <1>4

\* The copy of one item stands alone.
LEMMA CopyOfOneFits ==
  ASSUME NEW m, NEW K, Fits(m, K), NEW item \in DOMAIN m, NEW F \in SUBSET Items,
         NEW copy \in [{item} -> F]
  PROVE  Fits(Copies(m, {item}, item, FALSE, copy), CopiedLists(K, {item}, FALSE, copy))
<1> DEFINE c == copy[item]
           n == Copies(m, {item}, item, FALSE, copy)
           L == CopiedLists(K, {item}, FALSE, copy)
           b == [next |-> NULL, prev |-> NULL, child |-> NULL, string |-> m[item].string]
<1>1. Range(copy) = {c} /\ c \in F
  BY DEF Range
<1>2. (CHOOSE j \in {item} : copy[j] = c) = item
  OBVIOUS
<1>3. n = [x \in {c} |-> b]
  <2>1. \A x \in {c} : (CHOOSE j \in {item} : copy[j] = x) = item
    BY <1>2
  <2> HIDE DEF c
  <2> QED
    BY <1>1, <2>1 DEF Copies
<1>4. L = [x \in {c} |-> <<>>]
  BY <1>1 DEF CopiedLists
<1>5. b \in Node
  BY FitsTypes DEF Typed, Node, Pointer
<1> HIDE DEF b, c, n, L
<1>6. DOMAIN n = {c} /\ n \in [{c} -> Node] /\ n[c] = b /\ {c} \subseteq Items
  BY <1>1, <1>3, <1>5
<1>7. DOMAIN L = {c} /\ L[c] = <<>> /\ L \in [{c} -> Seq({c})]
  BY <1>4
<1>8. Range(<<>>) = {} /\ At(<<>>, 1) = NULL
  BY DEF Range, At
<1>9. Placed(n, L)
  BY <1>6, <1>7, <1>8 DEF Placed, b
<1>10. Once(L)
  BY <1>7 DEF Once
<1>11. Grounded(Held(L))
  BY <1>7, <1>8 DEF Grounded, Held
<1>12. Fits(n, L)
  BY <1>6, <1>7, <1>9, <1>10, <1>11 DEF Fits
<1> QED
  BY <1>12 DEF n, L

\* The copy of an item with all below it is like what it is a copy of.
LEMMA CopyOfAllFits ==
  ASSUME NEW m, NEW K, Fits(m, K), NEW item \in DOMAIN m, NEW F \in SUBSET Items,
         NEW S, S = Below(K, item), NEW copy \in [S -> F], IsInjective(copy)
  PROVE  Fits(Copies(m, S, item, TRUE, copy), CopiedLists(K, S, TRUE, copy))
<1> DEFINE n == Copies(m, S, item, TRUE, copy)
           L == CopiedLists(K, S, TRUE, copy)
           E == Range(copy)
           CopyOf(j) == IF j \in S THEN copy[j] ELSE NULL
           Before(j) == {k \in S : m[k].next = j}
<1>0. Typed(m, K) /\ Placed(m, K) /\ Once(K) /\ NULL \notin Items
  BY FitsTypes, JsonItemsAssumption DEF Fits
<1>1. /\ \A j \in S : copy[j] \in F /\ copy[j] \in E
      /\ \A j \in S : (CHOOSE k \in S : copy[k] = copy[j]) = j
      /\ \A c \in E : \E j \in S : c = copy[j]
      /\ \A j, k \in S : copy[j] = copy[k] => j = k
      /\ E \subseteq F
  BY CopyFound
<1>2. /\ item \in S /\ S \subseteq DOMAIN m /\ DOMAIN K = DOMAIN m /\ NULL \notin S
      /\ \A p \in S : Range(K[p]) \subseteq S /\ item \notin Range(K[p])
  <2>1. /\ item \in S /\ S \subseteq DOMAIN m
        /\ \A p \in S : Range(K[p]) \subseteq S /\ item \notin Range(K[p])
    BY BelowHolds
  <2> QED
    BY <1>0, <2>1 DEF Typed
<1>3. DOMAIN n = E /\ n = [c \in E |-> n[c]]
  BY DEF Copies
<1>4. \A j \in S : /\ n[copy[j]].next = IF j = item THEN NULL ELSE CopyOf(m[j].next)
                   /\ n[copy[j]].prev = IF j = item \/ Before(j) = {} THEN NULL
                                        ELSE copy[CHOOSE k \in Before(j) : TRUE]
                   /\ n[copy[j]].child = CopyOf(m[j].child)
                   /\ n[copy[j]] = [next |-> n[copy[j]].next, prev |-> n[copy[j]].prev,
                                    child |-> n[copy[j]].child, string |-> m[j].string]
  <2> DEFINE of(c) == CHOOSE j \in S : copy[j] = c
             block(j) == [next   |-> IF j = item THEN NULL ELSE CopyOf(m[j].next),
                          prev   |-> IF j = item \/ Before(j) = {} THEN NULL
                                     ELSE copy[CHOOSE k \in Before(j) : TRUE],
                          child  |-> CopyOf(m[j].child),
                          string |-> m[j].string]
  <2>1. n = [c \in E |-> block(of(c))]
    BY DEF Copies
  <2>2. \A j \in S : of(copy[j]) = j /\ copy[j] \in E
    BY <1>1
  <2> HIDE DEF n, E, of, block
  <2>3. \A j \in S : n[copy[j]] = block(j)
    BY <2>1, <2>2
  <2> HIDE DEF CopyOf, Before
  <2> DEFINE next(j) == IF j = item THEN NULL ELSE CopyOf(m[j].next)
             prev(j) == IF j = item \/ Before(j) = {} THEN NULL
                        ELSE copy[CHOOSE k \in Before(j) : TRUE]
  <2>4. \A j \in S : n[copy[j]] = [next |-> next(j), prev |-> prev(j),
                                   child |-> CopyOf(m[j].child), string |-> m[j].string]
    BY <2>3 DEF block
  <2> SUFFICES ASSUME NEW j \in S
               PROVE /\ n[copy[j]].next = next(j)
                     /\ n[copy[j]].prev = prev(j)
                     /\ n[copy[j]].child = CopyOf(m[j].child)
                     /\ n[copy[j]] = [next |-> n[copy[j]].next, prev |-> n[copy[j]].prev,
                                      child |-> n[copy[j]].child, string |-> m[j].string]
    OBVIOUS
  <2> HIDE DEF next, prev
  <2>5. n[copy[j]] = [next |-> next(j), prev |-> prev(j),
                      child |-> CopyOf(m[j].child), string |-> m[j].string]
    BY <2>4
  <2>6. n[copy[j]].next = next(j) /\ n[copy[j]].prev = prev(j) /\ n[copy[j]].child = CopyOf(m[j].child)
    BY <2>5
  <2> QED
    BY <2>5, <2>6
<1>5. DOMAIN L = E /\ L = [c \in E |-> L[c]]
  BY DEF CopiedLists
<1>6. \A j \in S : L[copy[j]] = [k \in DOMAIN K[j] |-> copy[K[j][k]]]
  BY <1>1 DEF CopiedLists
<1> HIDE DEF n, L, E
<1>7. \A j \in S : /\ Len(K[j]) \in Nat /\ DOMAIN K[j] = 1 .. Len(K[j])
                   /\ \A k \in 1 .. Len(K[j]) : /\ K[j][k] \in S /\ K[j][k] # item
                                                /\ K[j][k] \in DOMAIN m /\ K[j][k] # NULL
                   /\ \A k \in 1 .. Len(K[j]) : At(K[j], k) = K[j][k]
                   /\ \A k \in Int \ 1 .. Len(K[j]) : At(K[j], k) = NULL
  <2> SUFFICES ASSUME NEW j \in S
               PROVE  /\ Len(K[j]) \in Nat /\ DOMAIN K[j] = 1 .. Len(K[j])
                      /\ \A k \in 1 .. Len(K[j]) : /\ K[j][k] \in S /\ K[j][k] # item
                                                   /\ K[j][k] \in DOMAIN m /\ K[j][k] # NULL
                      /\ \A k \in 1 .. Len(K[j]) : At(K[j], k) = K[j][k]
                      /\ \A k \in Int \ 1 .. Len(K[j]) : At(K[j], k) = NULL
    OBVIOUS
  <2>1. IsList(K[j], DOMAIN m, Len(K[j]))
    BY <1>0, <1>2, ListOf DEF Typed
  <2> QED
    BY <1>2, <2>1 DEF IsList
<1>8. ASSUME NEW j \in S
      PROVE  /\ L[copy[j]] \in Seq(E) /\ Len(L[copy[j]]) = Len(K[j]) /\ DOMAIN L[copy[j]] = 1 .. Len(K[j])
             /\ \A k \in 1 .. Len(K[j]) : L[copy[j]][k] = copy[K[j][k]]
             /\ \A k \in Int : At(L[copy[j]], k) = CopyOf(At(K[j], k))
  <2> SUFFICES ASSUME NEW s, s = K[j], NEW t, t = L[copy[j]], NEW N \in Nat, N = Len(s)
               PROVE  /\ t \in Seq(E) /\ Len(t) = N /\ DOMAIN t = 1 .. N
                      /\ \A k \in 1 .. N : t[k] = copy[s[k]]
                      /\ \A k \in Int : At(t, k) = CopyOf(At(s, k))
    BY <1>7
  <2>1. /\ DOMAIN s = 1 .. N
        /\ \A k \in 1 .. N : s[k] \in S /\ At(s, k) = s[k]
        /\ \A k \in Int \ 1 .. N : At(s, k) = NULL
    BY <1>7
  <2>2. t = [k \in 1 .. N |-> copy[s[k]]]
    BY <1>6, <2>1
  <2>3. t \in [1 .. N -> E]
    BY <1>1, <2>1, <2>2
  <2>4. t \in Seq(E) /\ Len(t) = N /\ DOMAIN t = 1 .. N /\ \A k \in 1 .. N : t[k] = copy[s[k]]
    BY <2>2, <2>3
  <2>5. ASSUME NEW k \in Int PROVE At(t, k) = CopyOf(At(s, k))
    <3>1. CASE k \in 1 .. N
      BY <2>1, <2>4, <3>1 DEF At
    <3>2. CASE k \notin 1 .. N
      BY <1>2, <2>1, <2>4, <3>2 DEF At
    <3> QED
      BY <3>1, <3>2
  <2> QED
    BY <2>4, <2>5
<1>9. ASSUME NEW j \in S, j # item
      PROVE  n[copy[j]].prev = CopyOf(m[j].prev)
  <2>1. \A k \in Before(j) : k = m[j].prev
    <3> SUFFICES ASSUME NEW k \in S, m[k].next = j PROVE k = m[j].prev
      OBVIOUS
    <3>1. m[k].next # NULL /\ k \in DOMAIN m
      BY <1>2
    <3> QED
      BY <3>1, ThereAndBack
  <2>2. m[j].prev \in S => m[j].prev \in Before(j)
    <3> SUFFICES ASSUME m[j].prev \in S PROVE m[m[j].prev].next = j
      OBVIOUS
    <3>1. m[j].prev # NULL /\ j \in DOMAIN m
      BY <1>2
    <3> QED
      BY <3>1, ThereAndBack
  <2>3. n[copy[j]].prev = IF Before(j) = {} THEN NULL ELSE copy[CHOOSE k \in Before(j) : TRUE]
    BY <1>4, <1>9
  <2>4. Before(j) \subseteq S
    OBVIOUS
  <2> HIDE DEF Before
  <2>5. CASE Before(j) = {}
    BY <2>2, <2>3, <2>5
  <2>6. CASE Before(j) # {}
    <3> DEFINE k == CHOOSE k \in Before(j) : TRUE
    <3>1. k \in Before(j)
      BY <2>6
    <3>2. n[copy[j]].prev = copy[k]
      BY <2>3, <2>6
    <3> HIDE DEF k
    <3>3. k = m[j].prev /\ k \in S
      BY <2>1, <2>4, <3>1
    <3> QED
      BY <3>2, <3>3
  <2> QED
    BY <2>5, <2>6
<1>10. \A x : CopyOf(x) \in Pointer
  <2>1. NULL \in Pointer /\ Items \subseteq Pointer
    BY DEF Pointer
  <2> QED
    BY <1>1, <2>1
<1>11. \A c \in E : n[c] \in Node
  <2> SUFFICES ASSUME NEW j \in S PROVE n[copy[j]] \in Node
    BY <1>1
  <2>0. NULL \in Pointer
    BY DEF Pointer
  <2>1. n[copy[j]].next \in Pointer /\ n[copy[j]].child \in Pointer
    BY <1>4, <1>10, <2>0
  <2>2. n[copy[j]].prev \in Pointer
    <3>1. CASE j = item
      BY <1>4, <2>0, <3>1
    <3>2. CASE j # item
      BY <1>9, <1>10, <3>2
    <3> QED
      BY <3>1, <3>2
  <2>3. m[j].string \in Names \cup {NULL}
    BY <1>0, <1>2 DEF Typed, Node
  <2>4. n[copy[j]] = [next |-> n[copy[j]].next, prev |-> n[copy[j]].prev,
                      child |-> n[copy[j]].child, string |-> m[j].string]
    BY <1>4
  <2> QED
    BY <2>1, <2>2, <2>3, <2>4 DEF Node
<1>12. n \in [E -> Node] /\ E \subseteq Items
  BY <1>1, <1>3, <1>11
<1>13. \A c \in E : L[c] \in Seq(E)
  BY <1>1, <1>8
<1>14. L \in [E -> Seq(E)]
  BY <1>5, <1>13
<1>15. Placed(n, L)
  <2>1. ASSUME NEW p \in E PROVE n[p].child = At(L[p], 1)
    <3>1. PICK j \in S : p = copy[j]
      BY <1>1
    <3>2. n[p].child = CopyOf(m[j].child) /\ At(L[p], 1) = CopyOf(At(K[j], 1))
      <4>1. \A k \in Int : At(L[copy[j]], k) = CopyOf(At(K[j], k))
        BY <1>8
      <4> HIDE DEF CopyOf, Before
      <4>2. At(L[copy[j]], 1) = CopyOf(At(K[j], 1))
        BY <4>1
      <4> QED
        BY <1>4, <3>1, <4>2
    <3>3. m[j].child = At(K[j], 1)
      BY <1>0, <1>2 DEF Placed
    <3> QED
      BY <3>2, <3>3
  <2>2. ASSUME NEW p \in E, NEW k \in 1 .. Len(L[p])
        PROVE  n[L[p][k]].next = At(L[p], k + 1) /\ n[L[p][k]].prev = At(L[p], k - 1)
    <3>1. PICK j \in S : p = copy[j]
      BY <1>1
    <3>2. /\ k \in 1 .. Len(K[j]) /\ L[p][k] = copy[K[j][k]] /\ K[j][k] \in S /\ K[j][k] # item
          /\ k + 1 \in Int /\ k - 1 \in Int
      BY <1>7, <1>8, <3>1
    <3>3. /\ At(L[p], k + 1) = CopyOf(At(K[j], k + 1))
          /\ At(L[p], k - 1) = CopyOf(At(K[j], k - 1))
      BY <1>8, <3>1, <3>2
    <3>4. m[K[j][k]].next = At(K[j], k + 1) /\ m[K[j][k]].prev = At(K[j], k - 1)
      BY <1>0, <1>2, <3>2 DEF Placed
    <3>5. n[copy[K[j][k]]].next = CopyOf(m[K[j][k]].next)
      BY <1>4, <3>2
    <3>6. n[copy[K[j][k]]].prev = CopyOf(m[K[j][k]].prev)
      BY <1>9, <3>2
    <3> HIDE DEF CopyOf
    <3> QED
      BY <3>2, <3>3, <3>4, <3>5, <3>6
  <2>3. ASSUME NEW c \in E, Top(L, c) PROVE n[c].next = NULL /\ n[c].prev = NULL
    <3>1. PICK j \in S : c = copy[j]
      BY <1>1
    <3>2. ASSUME j # item PROVE FALSE
      <4>1. PICK p \in S : j \in Held(K)[p]
        <5>1. Held(K) \in [DOMAIN m -> SUBSET DOMAIN m]
          BY <1>0 DEF Typed
        <5> QED
          BY <3>2, <5>1, ReachedFrom DEF Below
      <4>2. PICK k \in 1 .. Len(K[p]) : j = K[p][k]
        <5>1. p \in DOMAIN m /\ j \in Range(K[p])
          BY <1>0, <1>2, <4>1 DEF Typed
        <5> QED
          BY <1>0, <5>1 DEF Typed
      <4>3. L[copy[p]][k] = c /\ k \in DOMAIN L[copy[p]] /\ copy[p] \in E
        BY <1>1, <1>8, <3>1, <4>2
      <4> QED
        BY <1>5, <2>3, <4>3 DEF Top, Range
    <3> QED
      BY <1>4, <3>1, <3>2
  <2> QED
    BY <1>3, <2>1, <2>2, <2>3 DEF Placed
<1>16. Once(L)
  <2> SUFFICES ASSUME NEW p \in E, NEW q \in E, NEW g \in 1 .. Len(L[p]), NEW h \in 1 .. Len(L[q]),
                      L[p][g] = L[q][h]
               PROVE  p = q /\ g = h
    BY <1>5 DEF Once
  <2>1. PICK i \in S : p = copy[i]
    BY <1>1
  <2>2. PICK j \in S : q = copy[j]
    BY <1>1
  <2>3. /\ g \in 1 .. Len(K[i]) /\ L[p][g] = copy[K[i][g]] /\ K[i][g] \in S
        /\ h \in 1 .. Len(K[j]) /\ L[q][h] = copy[K[j][h]] /\ K[j][h] \in S
    BY <1>7, <1>8, <2>1, <2>2
  <2>4. K[i][g] = K[j][h]
    <3>1. copy[K[i][g]] = copy[K[j][h]] /\ K[i][g] \in S /\ K[j][h] \in S
      BY <2>3
    <3>2. \A x, y \in S : copy[x] = copy[y] => x = y
      BY <1>1
    <3> QED
      BY <3>1, <3>2
  <2>5. i \in DOMAIN K /\ j \in DOMAIN K /\ Once(K)
    BY <1>0, <1>2
  <2>6. i = j /\ g = h
    BY <2>3, <2>4, <2>5 DEF Once
  <2> QED
    BY <2>1, <2>2, <2>6
<1>17. Grounded(Held(L))
  <2>1. DOMAIN Held(L) = E /\ \A p \in E : Held(L)[p] = Range(L[p])
    BY <1>5 DEF Held
  <2> SUFFICES ASSUME NEW T \in SUBSET E, T # {} PROVE \E c \in T : Held(L)[c] \cap T = {}
    BY <2>1 DEF Grounded
  <2> DEFINE U == {j \in S : copy[j] \in T}
  <2>2. U # {} /\ U \in SUBSET DOMAIN m
    BY <1>1, <1>2
  <2>3. PICK j \in U : Held(K)[j] \cap U = {}
    <3>1. Grounded(Held(K)) /\ DOMAIN Held(K) = DOMAIN m
      BY <1>0 DEF Typed
    <3> HIDE DEF U
    <3> QED
      BY <2>2, <3>1 DEF Grounded
  <2>4. ASSUME NEW c \in Held(L)[copy[j]], c \in T PROVE FALSE
    <3>1. c \in Range(L[copy[j]])
      BY <1>1, <2>1
    <3>2. PICK k \in 1 .. Len(K[j]) : c = L[copy[j]][k]
      BY <1>8, <3>1 DEF Range
    <3>3. c = copy[K[j][k]] /\ K[j][k] \in S
      BY <1>7, <1>8, <3>2
    <3>4. K[j][k] \in Held(K)[j]
      BY <1>0, <1>2, <3>2 DEF Typed
    <3> QED
      BY <2>3, <2>4, <3>3, <3>4
  <2> QED
    BY <2>3, <2>4
<1>18. Fits(n, L)
  BY <1>3, <1>12, <1>14, <1>15, <1>16, <1>17 DEF Fits
<1> QED
  BY <1>18 DEF n, L

-----------------------------------------------------------------------------
(***************************************************************************)
(* The invariant, and what the calls look at.                              *)
(***************************************************************************)

\* The pointers are those of the lists that following next gives.
ItemsInv == Fits(memory, Kids)

KidsOf(m) == [i \in DOMAIN m |-> List(m, m[i].child)]

\* The lists that fit are the ones that following next gives.
LEMMA KidsAre ==
  ASSUME NEW m, NEW K, Fits(m, K)
  PROVE  KidsOf(m) = K
<1>1. DOMAIN K = DOMAIN m
  BY FitsTypes DEF Typed
<1>2. K = [i \in DOMAIN m |-> K[i]]
  BY <1>1 DEF Fits
<1>3. \A i \in DOMAIN m : List(m, m[i].child) = K[i]
  BY ListIs
<1> QED
  BY <1>2, <1>3 DEF KidsOf

\* It is enough to show of a step that its pointers fit some lists.
LEMMA NextKids ==
  ASSUME NEW L, Fits(memory', L)
  PROVE  Kids' = L /\ ItemsInv'
<1>1. Kids' = KidsOf(memory')
  BY DEF Kids, KidsOf, Live, Children
<1>2. Kids' = L
  BY <1>1, KidsAre
<1> QED
  BY <1>2 DEF ItemsInv

StringsOf(m) == [i \in DOMAIN m |-> m[i].string]

\* The names, before a step and after it.
LEMMA NextStrings == Strings' = StringsOf(memory') /\ Strings = StringsOf(memory)
BY DEF Strings, StringsOf, Live

\* Steps that change no name.
LEMMA SameStrings ==
  ASSUME NEW m, NEW n, DOMAIN n = DOMAIN m, SameString(n, m)
  PROVE  StringsOf(n) = StringsOf(m)
BY DEF StringsOf, SameString

\* The invariant, in the form that the proofs use.
LEMMA State ==
  ASSUME ItemsInv
  PROVE  /\ Fits(memory, Kids) /\ Typed(memory, Kids)
         /\ Live = DOMAIN memory /\ DOMAIN Kids = Live /\ DOMAIN Strings = Live /\ Tree!Live = Live
         /\ NULL \notin Live /\ Live \subseteq Items /\ Tree!Fresh = Fresh
         /\ \A i \in Live : /\ Children(i) = Kids[i] /\ Strings[i] = memory[i].string
                            /\ List(memory, memory[i].child) = Kids[i]
                            /\ IsList(Kids[i], Live, Len(Kids[i]))
<1>1. Fits(memory, Kids) /\ Typed(memory, Kids)
  BY FitsTypes DEF ItemsInv
<1>2. Live = DOMAIN memory /\ DOMAIN Kids = Live /\ DOMAIN Strings = Live
  BY DEF Live, Kids, Strings
<1>3. Tree!Live = Live
  BY <1>2 DEF Tree!Live
<1>4. \A i \in Live : IsList(Kids[i], Live, Len(Kids[i]))
  BY <1>1, <1>2, ListOf DEF Typed
<1>5. \A i \in Live : Children(i) = Kids[i] /\ List(memory, memory[i].child) = Kids[i]
  BY DEF Kids, Children
<1>6. \A i \in Live : Strings[i] = memory[i].string
  BY DEF Strings
<1>7. NULL \notin Live /\ Live \subseteq Items
  BY <1>1, <1>2 DEF Typed, Fits
<1> QED
  BY <1>1, <1>2, <1>3, <1>4, <1>5, <1>6, <1>7 DEF Fresh, Tree!Fresh

\* What the tree says of an item: what is below it, and if it is in an array.
LEMMA TreeBelow ==
  ASSUME ItemsInv, NEW i \in Live
  PROVE  Tree!Below(i) = Below(Kids, i)
<1>1. /\ DOMAIN Kids = Live
      /\ Held(Kids) \in [Live -> SUBSET Live] /\ Grounded(Held(Kids))
  BY State DEF Typed
<1>2. Collected(Kids, i) = Below(Kids, i)
  BY <1>1, CollectedIs
<1>3. Tree!Below(i) = Collected(Kids, i)
  BY DEF Tree!Below, Tree!Live, Tree!Range, Range, Collected
<1> QED
  BY <1>2, <1>3

LEMMA RootsAre ==
  ASSUME ItemsInv
  PROVE  /\ \A i \in Live : Tree!IsRoot(i) <=> Top(Kids, i)
         /\ \A i : i \in Roots <=> i \in Live /\ Top(Kids, i)
<1>1. \A i \in Live : \A j \in Live : Contains(Kids[j], i) <=> i \in Range(Kids[j])
  <2> SUFFICES ASSUME NEW i \in Live, NEW j \in Live
               PROVE  Contains(Kids[j], i) <=> i \in Range(Kids[j])
    OBVIOUS
  <2>1. IsList(Kids[j], Live, Len(Kids[j]))
    BY State
  <2> QED
    BY <2>1 DEF IsList, Contains
<1>2. \A i \in Live : Tree!IsRoot(i) <=> Top(Kids, i)
  BY <1>1, State DEF Tree!IsRoot, Tree!Contains, Contains, Top
<1>3. \A i \in Live : i \in Roots <=> Top(Kids, i)
  BY <1>1, State DEF Roots, Top
<1>4. \A i : i \in Roots => i \in Live
  BY DEF Roots
<1> QED
  BY <1>2, <1>3, <1>4

\* The caller's test of cJSON.h is the tree's.
LEMMA MayHoldIs ==
  ASSUME ItemsInv, NEW array \in Live, NEW item, MayHold(array, item)
  PROVE  item \in Live /\ Free(Kids, array, item) /\ Tree!MayHold(array, item)
<1>1. item \in Live /\ Top(Kids, item) /\ array \notin FreedWith(memory, item)
  BY RootsAre DEF MayHold
<1>2. FreedWith(memory, item) = Below(Kids, item)
  <2>1. item \in DOMAIN memory /\ Fits(memory, Kids)
    BY <1>1, State
  <2>2. memory[item].next = NULL
    BY <1>1, <2>1 DEF Fits, Placed
  <2> QED
    BY <2>1, <2>2, FreedTop
<1>3. Tree!IsRoot(item) /\ Tree!Below(item) = Below(Kids, item)
  BY <1>1, RootsAre, TreeBelow
<1> QED
  BY <1>1, <1>2, <1>3 DEF Free, Tree!MayHold

\* The place that an index or a name means: c is the item there, if any.
Meant(array, which, c) ==
  /\ which \in Int /\ c = At(Kids[array], which + 1)
  /\ Len(Kids[array]) \in Nat
  /\ c = NULL => ~Tree!Has(array, which)
  /\ c # NULL => /\ Tree!Has(array, which) /\ c \in Live
                 /\ which + 1 \in 1 .. Len(Kids[array]) /\ c = Kids[array][which + 1]

\* Any number means a place, or none.
LEMMA PlaceIs ==
  ASSUME ItemsInv, NEW array \in Live, NEW which \in Int
  PROVE  Meant(array, which, At(Kids[array], which + 1))
<1> SUFFICES ASSUME NEW s, s = Kids[array], NEW N \in Nat, N = Len(s), NEW k \in Int, k = which + 1
             PROVE  Meant(array, which, At(s, k))
  <2>1. Len(Kids[array]) \in Nat
    BY State DEF IsList
  <2> QED
    BY <2>1
<1>1. IsList(s, Live, N) /\ NULL \notin Live
  BY State
<1>2. Tree!Has(array, which) <=> k \in 1 .. N
  BY DEF Tree!Has
<1>3. CASE k \in 1 .. N
  <2>1. At(s, k) = s[k] /\ s[k] \in Live /\ s[k] # NULL
    BY <1>1, <1>3 DEF IsList
  <2> QED
    BY <1>2, <1>3, <2>1 DEF Meant
<1>4. CASE k \notin 1 .. N
  <2>1. At(s, k) = NULL
    BY <1>1, <1>4 DEF IsList
  <2> QED
    BY <1>2, <1>4, <2>1 DEF Meant
<1> QED
  BY <1>3, <1>4

\* The item that cJSON_GetArrayItem finds, as the tree sees it.
LEMMA NthIs ==
  ASSUME ItemsInv, NEW array \in Live, NEW which \in Places(array)
  PROVE  /\ Meant(array, which, Nth(memory, memory[array].child, which))
         /\ which \in 0 .. Len(Kids[array]) /\ which \in Nat
         /\ <<which, which>> \in Tree!Places(array)
<1>1. Len(Kids[array]) \in Nat /\ Children(array) = Kids[array]
  BY State DEF IsList
<1>2. which \in 0 .. Len(Kids[array]) /\ which \in Nat
  BY <1>1 DEF Places
<1>3. Nth(memory, memory[array].child, which) = At(Kids[array], which + 1)
  BY State DEF Nth
<1>4. <<which, which>> \in Tree!Places(array)
  BY <1>2 DEF Tree!Places
<1> QED
  BY <1>2, <1>3, <1>4, PlaceIs

\* The item that cJSON_GetObjectItem finds, as the tree sees it.
LEMMA NamedIs ==
  ASSUME ItemsInv, NEW object \in Live, NEW n \in Names
  PROVE  /\ Meant(object, IndexOf(object, n), Named(object, n))
         /\ Tree!IndexOf(object, n) = IndexOf(object, n)
         /\ IndexOf(object, n) < Len(Kids[object])
         /\ <<n, IndexOf(object, n)>> \in Tree!Places(object)
<1> DEFINE s == Kids[object]
           I == {i \in 1 .. Len(s) : memory[s[i]].string = n}
           J == {i \in 1 .. Len(s) : Strings[s[i]] = n}
           k == IF I # {} THEN Min(I) ELSE 0
<1>1. Len(s) \in Nat /\ \A i \in 1 .. Len(s) : s[i] \in Live
  BY State DEF IsList
<1>2. I = J
  BY <1>1, State
<1>3. IndexOf(object, n) = k - 1
  <2>1. Children(object) = s
    BY State
  <2> QED
    BY <2>1 DEF IndexOf, SelectInSeq
<1>4. Tree!IndexOf(object, n) = (IF J # {} THEN Min(J) ELSE 0) - 1
  BY DEF Tree!IndexOf, Tree!SelectInSeq, Tree!Min, Min
<1>5. k \in Nat /\ k <= Len(s)
  <2>1. I \subseteq Nat
    OBVIOUS
  <2> HIDE DEF I
  <2>2. ASSUME I # {} PROVE Min(I) \in I
    <3>1. \E x \in I : \A y \in I : x <= y
      BY <2>1, <2>2, LeastOf
    <3> QED
      BY <3>1 DEF Min
  <2>3. \A i \in I : i <= Len(s)
    BY <1>1 DEF I
  <2>4. CASE I # {}
    <3>1. k = Min(I) /\ Min(I) \in I
      BY <2>2, <2>4
    <3> QED
      BY <2>1, <2>3, <3>1
  <2>5. CASE I = {}
    BY <1>1, <2>5
  <2> QED
    BY <2>4, <2>5
<1> HIDE DEF I, J, k
<1>6. IndexOf(object, n) \in Int /\ IndexOf(object, n) < Len(s)
  BY <1>1, <1>3, <1>5
<1>7. Named(object, n) = At(s, IndexOf(object, n) + 1)
  BY State DEF Named
<1>8. Tree!IndexOf(object, n) = IndexOf(object, n)
  BY <1>2, <1>3, <1>4 DEF k
<1>9. <<n, IndexOf(object, n)>> \in Tree!Places(object)
  BY <1>8 DEF Tree!Places
<1> QED
  BY <1>6, <1>7, <1>8, <1>9, PlaceIs

-----------------------------------------------------------------------------
(***************************************************************************)
(* Each call keeps the invariant and is a step of the tree.                *)
(***************************************************************************)

\* The tree's operators on functions and sequences are those of the items.
LEMMA TreeOperators ==
  ASSUME NEW f, NEW g, NEW S, NEW s, NEW j, NEW e
  PROVE  /\ Tree!Restrict(f, S) = Restrict(f, S)
         /\ Tree!Grown(f, g) = Grown(f, g)
         /\ Tree!RemoveAt(s, j) = RemoveAt(s, j)
         /\ Tree!InsertAt(s, j, e) = InsertAt(s, j, e)
         /\ Tree!ReplaceAt(s, j, e) = ReplaceAt(s, j, e)
         /\ Tree!Range(f) = Range(f)
         /\ Tree!IsInjective(f) <=> IsInjective(f)
<1>1. Tree!Restrict(f, S) = Restrict(f, S)
  BY DEF Tree!Restrict, Restrict
<1>2. Tree!Grown(f, g) = Grown(f, g)
  BY DEF Tree!Grown, Grown
<1>3. Tree!RemoveAt(s, j) = RemoveAt(s, j)
  BY DEF Tree!RemoveAt, RemoveAt
<1>4. Tree!InsertAt(s, j, e) = InsertAt(s, j, e)
  BY DEF Tree!InsertAt, InsertAt
<1>5. Tree!ReplaceAt(s, j, e) = ReplaceAt(s, j, e)
  BY DEF Tree!ReplaceAt, ReplaceAt
<1>6. Tree!Range(f) = Range(f)
  BY DEF Tree!Range, Range
<1>7. Tree!IsInjective(f) <=> IsInjective(f)
  BY DEF Tree!IsInjective, IsInjective
<1> QED
  BY <1>1, <1>2, <1>3, <1>4, <1>5, <1>6, <1>7

\* What every call shows: the invariant again, and a step of the tree.
Kept == ItemsInv' /\ Tree!Next

\* What a call returns is the same for both.
LEMMA TreeReturns ==
  ASSUME NEW call, NEW value, Returns(call, value)
  PROVE  Tree!Returns(call, value)
BY DEF Returns, Tree!Returns

\* cJSON_AddItemToArray.
LEMMA AddItemToArrayKeeps ==
  ASSUME ItemsInv, NEW array \in Live, NEW item \in Roots, AddItemToArray(array, item)
  PROVE  Kept
<1> DEFINE L == [Kids EXCEPT ![array] = Append(Kids[array], item)]
<1>1. MayHold(array, item) /\ memory' = Added(memory, array, item) /\ Returns(<<"add">>, NULL)
  BY DEF AddItemToArray
<1>2. item \in Live /\ Free(Kids, array, item) /\ Tree!MayHold(array, item)
  BY <1>1, MayHoldIs
<1>3. Fits(memory', L) /\ DOMAIN memory' = DOMAIN memory /\ SameString(memory', memory)
  <2>1. Fits(memory, Kids) /\ array \in DOMAIN memory /\ item \in DOMAIN memory
    BY <1>2, State
  <2> QED
    BY <1>1, <1>2, <2>1, AddedFits
<1>4. Kids' = L /\ ItemsInv'
  BY <1>3, NextKids
<1>5. Strings' = Strings
  BY <1>3, NextStrings, SameStrings
<1>6. Tree!AddToArray(array, item)
  BY <1>1, <1>2, <1>4, <1>5, TreeReturns DEF Tree!AddToArray
<1> QED
  BY <1>2, <1>4, <1>6, State DEF Kept, Tree!Next

\* Another name for an item leaves the lists as they are.
LEMMA RenamedFits ==
  ASSUME NEW m, NEW K, Fits(m, K), NEW item \in DOMAIN m, NEW x \in Names \cup {NULL}
  PROVE  LET n == [m EXCEPT ![item].string = x]
         IN Fits(n, K) /\ DOMAIN n = DOMAIN m /\ StringsOf(n) = [StringsOf(m) EXCEPT ![item] = x]
<1> DEFINE n == [m EXCEPT ![item].string = x]
<1>1. Blocks(m)
  BY FitsTypes DEF Fits, Typed, Blocks
<1>2. /\ Blocks(n) /\ DOMAIN n = DOMAIN m
      /\ \A i \in DOMAIN m : n[i].string = IF i = item THEN x ELSE m[i].string
      /\ SameNext(n, m) /\ SamePrev(n, m) /\ SameChild(n, m)
  BY <1>1, StringSet
<1> HIDE DEF n
<1>3. StringsOf(n) = [StringsOf(m) EXCEPT ![item] = x]
  BY <1>2 DEF StringsOf
<1>4. Placed(n, K)
  <2>1. \A p \in DOMAIN m : \A j \in 1 .. Len(K[p]) : K[p][j] \in DOMAIN m
    BY FitsTypes DEF Typed
  <2>2. Placed(m, K)
    BY DEF Fits
  <2> QED
    BY <1>2, <2>1, <2>2 DEF Placed, SameNext, SamePrev, SameChild
<1>5. Fits(n, K)
  BY <1>2, <1>4 DEF Fits, Blocks
<1> QED
  BY <1>2, <1>3, <1>5 DEF n

\* cJSON_AddItemToObject, with a name or without memory for it.
LEMMA AddItemToObjectKeeps ==
  ASSUME ItemsInv, NEW object \in Live, NEW n \in Names, NEW item \in Roots,
         AddItemToObject(object, n, item)
  PROVE  Kept
<1>1. MayHold(object, item) /\ Returns(<<"add">>, NULL)
  BY DEF AddItemToObject
<1>2. PICK x \in {n, NULL} :
        memory' = Added([memory EXCEPT ![item].string = x], object, item)
  BY DEF AddItemToObject, Strdup
<1> DEFINE named == [memory EXCEPT ![item].string = x]
           L == [Kids EXCEPT ![object] = Append(Kids[object], item)]
<1>3. item \in Live /\ Free(Kids, object, item) /\ Tree!MayHold(object, item)
  BY <1>1, MayHoldIs
<1>4. /\ Fits(named, Kids) /\ DOMAIN named = DOMAIN memory
      /\ StringsOf(named) = [StringsOf(memory) EXCEPT ![item] = x]
  <2>1. Fits(memory, Kids) /\ item \in DOMAIN memory /\ x \in Names \cup {NULL}
    BY <1>3, State
  <2> QED
    BY <2>1, RenamedFits
<1> HIDE DEF named
<1>5. /\ Fits(memory', L) /\ DOMAIN memory' = DOMAIN named /\ SameString(memory', named)
  <2>1. object \in DOMAIN named /\ item \in DOMAIN named
    BY <1>3, <1>4, State
  <2>2. memory' = Added(named, object, item)
    BY <1>2 DEF named
  <2> QED
    BY <1>3, <1>4, <2>1, <2>2, AddedFits
<1>6. Kids' = L /\ ItemsInv'
  BY <1>5, NextKids
<1>7. Strings' = [Strings EXCEPT ![item] = x]
  BY <1>4, <1>5, NextStrings, SameStrings
<1>8. Tree!AddToObject(object, n, item)
  BY <1>1, <1>3, <1>6, <1>7, TreeReturns DEF Tree!AddToObject
<1> QED
  BY <1>3, <1>6, <1>8, State DEF Kept, Tree!Next

\* cJSON_InsertItemInArray, before an item or at the end.
LEMMA InsertItemInArrayKeeps ==
  ASSUME ItemsInv, NEW array \in Live, NEW which \in Places(array), NEW item \in Roots,
         InsertItemInArray(array, which, item)
  PROVE  Kept
<1> DEFINE c == Nth(memory, memory[array].child, which)
           s == Kids[array]
           t == IF Tree!Has(array, which) THEN InsertAt(s, which + 1, item) ELSE Append(s, item)
           L == [Kids EXCEPT ![array] = t]
<1>1. /\ MayHold(array, item) /\ Returns(<<"insert", which>>, NULL)
      /\ memory' = IF c = NULL THEN Added(memory, array, item)
                   ELSE Inserted(memory, array, c, item)
  BY DEF InsertItemInArray
<1>2. item \in Live /\ Free(Kids, array, item) /\ Tree!MayHold(array, item)
  BY <1>1, MayHoldIs
<1>3. Meant(array, which, c) /\ which \in 0 .. Len(s)
  BY NthIs
<1> HIDE DEF c
<1>4. Fits(memory', L) /\ DOMAIN memory' = DOMAIN memory /\ SameString(memory', memory)
  <2>1. Fits(memory, Kids) /\ array \in DOMAIN memory /\ item \in DOMAIN memory
    BY <1>2, State
  <2>2. CASE c = NULL
    <3>1. t = Append(s, item)
      BY <1>3, <2>2 DEF Meant
    <3> QED
      BY <1>1, <1>2, <2>1, <2>2, <3>1, AddedFits
  <2>3. CASE c # NULL
    <3>1. which + 1 \in 1 .. Len(s) /\ c = s[which + 1] /\ t = InsertAt(s, which + 1, item)
      BY <1>3, <2>3 DEF Meant
    <3>2. memory' = Inserted(memory, array, s[which + 1], item)
      BY <1>1, <2>3, <3>1
    <3> DEFINE j == which + 1
               n == Inserted(memory, array, s[j], item)
    <3>3. j \in 1 .. Len(s)
      BY <3>1
    <3> HIDE DEF j
    <3>4. /\ Fits(n, [Kids EXCEPT ![array] = InsertAt(s, j, item)])
          /\ DOMAIN n = DOMAIN memory /\ SameString(n, memory)
      BY <1>2, <2>1, <3>3, InsertedFits
    <3> QED
      BY <3>1, <3>2, <3>4 DEF j
  <2> QED
    BY <2>2, <2>3
<1>5. Kids' = L /\ ItemsInv'
  BY <1>4, NextKids
<1>6. Strings' = Strings
  BY <1>4, NextStrings, SameStrings
<1>7. Tree!Insert(array, which, item)
  BY <1>1, <1>2, <1>5, <1>6, TreeReturns, TreeOperators DEF Tree!Insert
<1> QED
  BY <1>2, <1>3, <1>5, <1>7, State DEF Kept, Tree!Next

\* A call that changes no item.
LEMMA Unchanged ==
  ASSUME ItemsInv, memory' = memory
  PROVE  ItemsInv' /\ Kids' = Kids /\ Strings' = Strings
<1>1. Kids' = Kids /\ ItemsInv'
  BY NextKids, State
<1> QED
  BY <1>1, NextStrings

\* An item taken out of its list is deleted, with all below it.
LEMMA CutAndDeleted ==
  ASSUME ItemsInv, NEW array \in Live, NEW c \in Range(Kids[array]), NEW t, c \notin Range(t),
         NEW n, Fits(n, [Kids EXCEPT ![array] = t]), DOMAIN n = Live, memory' = Deleted(n, c)
  PROVE  /\ ItemsInv' /\ c \in Live
         /\ Kids' = Restrict([Kids EXCEPT ![array] = t], Live \ Below(Kids, c))
         /\ Strings' = Restrict(StringsOf(n), Live \ Below(Kids, c))
<1> DEFINE K == [Kids EXCEPT ![array] = t]
           R == Live \ Below(Kids, c)
<1>1. Fits(memory, Kids) /\ array \in DOMAIN memory /\ DOMAIN n = DOMAIN memory
  BY State
<1>2. c \in DOMAIN memory /\ array \notin Below(Kids, c)
  BY <1>1, NotBelowOwn
<1>3. Below(K, c) = Below(Kids, c)
  BY <1>1, <1>2, BelowElsewhere
<1>4. Top(K, c)
  BY <1>1, TopWithout
<1>5. Fits(memory', Restrict(K, R)) /\ memory' = Restrict(n, R)
  <2>1. /\ Fits(Deleted(n, c), Restrict(K, DOMAIN n \ Below(K, c)))
        /\ Deleted(n, c) = Restrict(n, DOMAIN n \ Below(K, c))
    <3> HIDE DEF K
    <3> QED
      BY <1>1, <1>2, <1>4, DeletedFits DEF K
  <2> QED
    BY <1>3, <2>1
<1>6. Kids' = Restrict(K, R) /\ ItemsInv'
  BY <1>5, NextKids
<1>7. Strings' = Restrict(StringsOf(n), R)
  <2>1. StringsOf(Restrict(n, R)) = Restrict(StringsOf(n), R)
    BY DEF StringsOf, Restrict
  <2> QED
    BY <1>5, <2>1, NextStrings
<1> QED
  BY <1>2, <1>6, <1>7, State

\* cJSON_DetachItemFromArray and cJSON_DetachItemFromObject.
LEMMA DetachItemKeeps ==
  ASSUME ItemsInv, NEW array \in Live, NEW place, NEW which, NEW c, Meant(array, which, c),
         DetachItem(array, place, c)
  PROVE  ItemsInv' /\ Tree!Detach(array, place, which)
<1>1. /\ memory' = IF c = NULL THEN memory ELSE Detached(memory, array, c)
      /\ Returns(<<"detach", place>>, c)
  BY DEF DetachItem
<1>2. CASE c = NULL
  <2>1. ItemsInv' /\ Kids' = Kids /\ Strings' = Strings
    BY <1>1, <1>2, Unchanged
  <2>2. ~Tree!Has(array, which)
    BY <1>2 DEF Meant
  <2> QED
    BY <1>1, <1>2, <2>1, <2>2, TreeReturns DEF Tree!Detach
<1>3. CASE c # NULL
  <2> DEFINE s == Kids[array]
             j == which + 1
             n == Detached(memory, array, s[j])
             L == [Kids EXCEPT ![array] = RemoveAt(s, j)]
  <2>1. Tree!Has(array, which) /\ j \in 1 .. Len(s) /\ c = s[j]
    BY <1>3 DEF Meant
  <2>2. memory' = n
    BY <1>1, <1>3, <2>1
  <2>3. Fits(n, L) /\ DOMAIN n = DOMAIN memory /\ SameString(n, memory)
    <3>1. Fits(memory, Kids) /\ array \in DOMAIN memory
      BY State
    <3> HIDE DEF j
    <3> QED
      BY <2>1, <3>1, DetachedFits
  <2>4. Kids' = L /\ ItemsInv'
    BY <2>2, <2>3, NextKids
  <2>5. Strings' = Strings
    BY <2>2, <2>3, NextStrings, SameStrings
  <2> QED
    BY <1>1, <2>1, <2>4, <2>5, TreeReturns, TreeOperators DEF Tree!Detach
<1> QED
  BY <1>2, <1>3

\* cJSON_DeleteItemFromArray and cJSON_DeleteItemFromObject.
LEMMA DeleteItemKeeps ==
  ASSUME ItemsInv, NEW array \in Live, NEW place, NEW which, NEW c, Meant(array, which, c),
         DeleteItem(array, place, c)
  PROVE  ItemsInv' /\ Tree!Returns(<<"delete", place>>, NULL) /\ Tree!DeleteFrom(array, which)
<1>1. /\ memory' = IF c = NULL THEN memory ELSE Deleted(Detached(memory, array, c), c)
      /\ Tree!Returns(<<"delete", place>>, NULL)
  BY TreeReturns DEF DeleteItem
<1>2. CASE c = NULL
  <2>1. ItemsInv' /\ Kids' = Kids /\ Strings' = Strings
    BY <1>1, <1>2, Unchanged
  <2>2. ~Tree!Has(array, which)
    BY <1>2 DEF Meant
  <2> QED
    BY <1>1, <2>1, <2>2 DEF Tree!DeleteFrom
<1>3. CASE c # NULL
  <2> DEFINE s == Kids[array]
             j == which + 1
             n == Detached(memory, array, s[j])
             t == RemoveAt(s, j)
             R == Live \ Below(Kids, s[j])
  <2>1. Tree!Has(array, which) /\ j \in 1 .. Len(s) /\ c = s[j]
    BY <1>3 DEF Meant
  <2>2. memory' = Deleted(n, s[j])
    BY <1>1, <1>3, <2>1
  <2>3. /\ Fits(n, [Kids EXCEPT ![array] = t]) /\ DOMAIN n = Live /\ SameString(n, memory)
        /\ s[j] \notin Range(t) /\ s[j] \in Range(s)
    <3>1. Fits(memory, Kids) /\ array \in DOMAIN memory /\ DOMAIN memory = Live
      BY State
    <3>2. \A k \in 1 .. Len(s) : s[k] \in Range(s)
      BY State DEF IsList
    <3> HIDE DEF j
    <3> QED
      BY <2>1, <3>1, <3>2, DetachedFits
  <2> HIDE DEF n, t, s, j
  <2>4. /\ ItemsInv' /\ s[j] \in Live
        /\ Kids' = Restrict([Kids EXCEPT ![array] = t], R)
        /\ Strings' = Restrict(StringsOf(n), R)
    BY <2>2, <2>3, CutAndDeleted DEF s
  <2>5. StringsOf(n) = Strings
    BY <2>3, State, NextStrings, SameStrings
  <2>6. Tree!Gone(s[j], [Kids EXCEPT ![array] = t], Strings)
    BY <2>4, <2>5, TreeBelow, TreeOperators, State DEF Tree!Gone
  <2>7. t = Tree!RemoveAt(Kids[array], which + 1) /\ s[j] = Kids[array][which + 1]
    BY TreeOperators DEF t, s, j
  <2> QED
    BY <1>1, <2>1, <2>4, <2>6, <2>7 DEF Tree!DeleteFrom
<1> QED
  BY <1>2, <1>3

\* cJSON_Delete, of an item in no array.
LEMMA DeleteKeeps ==
  ASSUME ItemsInv, NEW item \in Live, Delete(item)
  PROVE  Kept
<1> DEFINE R == Live \ Below(Kids, item)
<1>1. item \in Roots /\ memory' = Deleted(memory, item) /\ Returns(<<"delete">>, NULL)
  BY DEF Delete
<1>2. Top(Kids, item) /\ Tree!IsRoot(item)
  BY <1>1, RootsAre
<1>3. Fits(memory', Restrict(Kids, R)) /\ memory' = Restrict(memory, R)
  <2>1. Fits(memory, Kids) /\ item \in DOMAIN memory /\ DOMAIN memory = Live
    BY State
  <2> QED
    BY <1>1, <1>2, <2>1, DeletedFits
<1>4. Kids' = Restrict(Kids, R) /\ ItemsInv'
  BY <1>3, NextKids
<1>5. Strings' = Restrict(Strings, R)
  <2>1. StringsOf(Restrict(memory, R)) = Restrict(StringsOf(memory), R)
    BY DEF StringsOf, Restrict, Live
  <2> QED
    BY <1>3, <2>1, NextStrings
<1>6. Tree!Delete(item)
  BY <1>2, <1>4, <1>5, TreeBelow, TreeOperators, State DEF Tree!Delete, Tree!Gone
<1> QED
  BY <1>1, <1>4, <1>6, State, TreeReturns DEF Kept, Tree!Next

\* m is memory, perhaps with another name for item; c, at j in the array, makes
\* place for item and is deleted.
LEMMA ReplacedIs ==
  ASSUME ItemsInv, NEW array \in Live, NEW item \in Live, Free(Kids, array, item),
         NEW j \in 1 .. Len(Kids[array]),
         NEW m, Fits(m, Kids), DOMAIN m = Live, memory' = Replaced(m, array, Kids[array][j], item)
  PROVE  ItemsInv' /\ Tree!Gone(Kids[array][j],
                                [Kids EXCEPT ![array] = Tree!ReplaceAt(@, j, item)], StringsOf(m))
<1> DEFINE s == Kids[array]
           n == CutOff(m, array, s[j], item)
           t == ReplaceAt(s, j, item)
           R == Live \ Below(Kids, s[j])
<1>1. /\ Fits(n, [Kids EXCEPT ![array] = t]) /\ DOMAIN n = Live /\ SameString(n, m)
      /\ s[j] \notin Range(t)
  BY CutOffFits
<1>2. memory' = Deleted(n, s[j])
  BY DEF Replaced, CutOff
<1>3. s[j] \in Range(s)
  BY State DEF IsList
<1> HIDE DEF n, t
<1>4. /\ ItemsInv' /\ s[j] \in Live
      /\ Kids' = Restrict([Kids EXCEPT ![array] = t], R)
      /\ Strings' = Restrict(StringsOf(n), R)
  BY <1>1, <1>2, <1>3, CutAndDeleted
<1>5. StringsOf(n) = StringsOf(m)
  BY <1>1, SameStrings
<1>6. t = Tree!ReplaceAt(Kids[array], j, item)
  BY TreeOperators DEF t
<1> QED
  BY <1>4, <1>5, <1>6, TreeBelow, TreeOperators, State DEF Tree!Gone

\* cJSON_ReplaceItemInArray, with an index that may be too high.
LEMMA ReplaceItemInArrayKeeps ==
  ASSUME ItemsInv, NEW array \in Live, NEW which \in Places(array), NEW item \in Roots,
         ReplaceItemInArray(array, which, item)
  PROVE  ItemsInv' /\ item \in Live /\ Tree!Returns(<<"replace", which>>, NULL)
         /\ Tree!Replace(array, which, item, Strings)
<1> DEFINE c == Nth(memory, memory[array].child, which)
<1>1. /\ MayHold(array, item) /\ Returns(<<"replace", which>>, NULL)
      /\ memory' = IF c = NULL THEN memory ELSE Replaced(memory, array, c, item)
  BY DEF ReplaceItemInArray
<1>2. item \in Live /\ Free(Kids, array, item) /\ Tree!MayHold(array, item)
  BY <1>1, MayHoldIs
<1>3. Meant(array, which, c)
  BY NthIs
<1> HIDE DEF c
<1>4. CASE c = NULL
  <2>1. ItemsInv' /\ Kids' = Kids /\ Strings' = Strings
    BY <1>1, <1>4, Unchanged
  <2>2. ~Tree!Has(array, which)
    BY <1>3, <1>4 DEF Meant
  <2> QED
    BY <1>1, <1>2, <2>1, <2>2, TreeReturns DEF Tree!Replace
<1>5. CASE c # NULL
  <2> DEFINE j == which + 1
  <2>1. Tree!Has(array, which) /\ j \in 1 .. Len(Kids[array]) /\ c = Kids[array][j]
    BY <1>3, <1>5 DEF Meant
  <2>2. Fits(memory, Kids) /\ DOMAIN memory = Live /\ StringsOf(memory) = Strings
    BY State, NextStrings
  <2>3. memory' = Replaced(memory, array, Kids[array][j], item)
    BY <1>1, <1>5, <2>1
  <2> HIDE DEF j
  <2>4. ItemsInv' /\ Tree!Gone(Kids[array][j],
          [Kids EXCEPT ![array] = Tree!ReplaceAt(@, j, item)], StringsOf(memory))
    BY <1>2, <2>1, <2>2, <2>3, ReplacedIs
  <2> QED
    BY <1>1, <1>2, <2>1, <2>2, <2>4, TreeReturns DEF Tree!Replace, j
<1> QED
  BY <1>4, <1>5

\* cJSON_ReplaceItemInObject, which names the item it puts in.
LEMMA ReplaceItemInObjectKeeps ==
  ASSUME ItemsInv, NEW object \in Live, NEW n \in Names, NEW item \in Roots,
         ReplaceItemInObject(object, n, item)
  PROVE  ItemsInv' /\ item \in Live /\ Tree!Returns(<<"replace", n>>, NULL)
         /\ \E names \in Tree!Renamed(item, n) :
              Tree!Replace(object, IndexOf(object, n), item, names)
<1> DEFINE c == Named(object, n)
           which == IndexOf(object, n)
<1>1. /\ MayHold(object, item) /\ Returns(<<"replace", n>>, NULL)
      /\ IF c = NULL THEN UNCHANGED memory
         ELSE \E string \in Strdup(n) :
                memory' = Replaced([memory EXCEPT ![item].string = string], object, c, item)
  BY DEF ReplaceItemInObject
<1>2. item \in Live /\ Free(Kids, object, item) /\ Tree!MayHold(object, item)
  BY <1>1, MayHoldIs
<1>3. Meant(object, which, c)
  BY NamedIs
<1>4. \A x \in {n, NULL} : [Strings EXCEPT ![item] = x] \in Tree!Renamed(item, n)
  BY DEF Tree!Renamed
<1> HIDE DEF c, which
<1>5. CASE c = NULL
  <2>1. ItemsInv' /\ Kids' = Kids /\ Strings' = Strings
    BY <1>1, <1>5, Unchanged
  <2>2. ~Tree!Has(object, which)
    BY <1>3, <1>5 DEF Meant
  <2>3. Tree!Replace(object, which, item, [Strings EXCEPT ![item] = NULL])
    BY <1>2, <2>1, <2>2 DEF Tree!Replace
  <2> QED
    BY <1>1, <1>2, <1>4, <2>1, <2>3, TreeReturns DEF which
<1>6. CASE c # NULL
  <2> DEFINE j == which + 1
  <2>1. Tree!Has(object, which) /\ j \in 1 .. Len(Kids[object]) /\ c = Kids[object][j]
    BY <1>3, <1>6 DEF Meant
  <2>2. PICK x \in {n, NULL} :
          memory' = Replaced([memory EXCEPT ![item].string = x], object, c, item)
    BY <1>1, <1>6 DEF Strdup
  <2> DEFINE m == [memory EXCEPT ![item].string = x]
  <2>3. Fits(m, Kids) /\ DOMAIN m = Live /\ StringsOf(m) = [Strings EXCEPT ![item] = x]
    <3>1. Fits(memory, Kids) /\ item \in DOMAIN memory /\ x \in Names \cup {NULL}
      BY <1>2, State
    <3>2. /\ Fits(m, Kids) /\ DOMAIN m = DOMAIN memory
          /\ StringsOf(m) = [StringsOf(memory) EXCEPT ![item] = x]
      BY <3>1, RenamedFits
    <3> QED
      BY <3>2, State, NextStrings
  <2> HIDE DEF m
  <2>4. memory' = Replaced(m, object, Kids[object][j], item)
    BY <2>1, <2>2 DEF m
  <2> HIDE DEF j
  <2>5. ItemsInv' /\ Tree!Gone(Kids[object][j],
          [Kids EXCEPT ![object] = Tree!ReplaceAt(@, j, item)], StringsOf(m))
    BY <1>2, <2>1, <2>3, <2>4, ReplacedIs
  <2>6. Tree!Replace(object, which, item, [Strings EXCEPT ![item] = x])
    BY <1>2, <2>1, <2>3, <2>5 DEF Tree!Replace, j
  <2> QED
    BY <1>1, <1>2, <1>4, <2>5, <2>6, TreeReturns DEF which
<1> QED
  BY <1>5, <1>6

\* cJSON_GetArraySize, cJSON_GetArrayItem and cJSON_GetObjectItem.
LEMMA QueriesKeep ==
  ASSUME ItemsInv, NEW array \in Live
  PROVE  /\ GetArraySize(array) => Kept
         /\ \A which \in Places(array) : GetArrayItem(array, which) => Kept
         /\ \A n \in Names : GetObjectItem(array, n) => Kept
<1>1. ASSUME UNCHANGED memory, Tree!Query(array) PROVE Kept
  <2>1. ItemsInv' /\ Kids' = Kids /\ Strings' = Strings
    BY <1>1, Unchanged
  <2> QED
    BY <1>1, <2>1, State DEF Kept, Tree!Next
<1>2. ASSUME GetArraySize(array) PROVE Kept
  <2>1. UNCHANGED memory /\ Tree!Query(array)
    BY <1>2, State, TreeReturns DEF GetArraySize, Tree!Query
  <2> QED
    BY <1>1, <2>1
<1>3. ASSUME NEW which \in Places(array), GetArrayItem(array, which) PROVE Kept
  <2> DEFINE c == Nth(memory, memory[array].child, which)
  <2>1. Meant(array, which, c) /\ which \in 0 .. Len(Kids[array])
    BY NthIs
  <2>2. UNCHANGED memory /\ Tree!Returns(<<"item", array, which>>, c)
    BY <1>3, TreeReturns DEF GetArrayItem
  <2> HIDE DEF c
  <2>3. c = IF Tree!Has(array, which) THEN Kids[array][which + 1] ELSE NULL
    BY <2>1 DEF Meant
  <2>4. Tree!Query(array)
    BY <2>1, <2>2, <2>3 DEF Tree!Query
  <2> QED
    BY <1>1, <2>2, <2>4
<1>4. ASSUME NEW n \in Names, GetObjectItem(array, n) PROVE Kept
  <2> DEFINE c == Named(array, n)
             which == IndexOf(array, n)
  <2>1. Meant(array, which, c) /\ which = Tree!IndexOf(array, n) /\ which < Len(Kids[array])
    BY NamedIs
  <2>2. UNCHANGED memory /\ Tree!Returns(<<"item", array, n>>, c)
    BY <1>4, TreeReturns DEF GetObjectItem
  <2> HIDE DEF c, which
  <2>3. c = IF Tree!Has(array, which) THEN Kids[array][which + 1] ELSE NULL
    BY <2>1 DEF Meant
  <2>4. Tree!Has(array, which) <=> which >= 0
    BY <2>1 DEF Tree!Has, Meant
  <2>5. Tree!Query(array)
    BY <2>1, <2>2, <2>3, <2>4 DEF Tree!Query
  <2> QED
    BY <1>1, <2>2, <2>5
<1> QED
  BY <1>2, <1>3, <1>4

\* What is new fits, and is added to what there is.
LEMMA GrownKeeps ==
  ASSUME ItemsInv, NEW n, NEW L, Fits(n, L), DOMAIN n \cap Live = {}, memory' = Grown(memory, n)
  PROVE  /\ ItemsInv' /\ Kids' = Grown(Kids, L)
         /\ Strings' = Grown(Strings, StringsOf(n))
<1>1. Fits(memory, Kids) /\ DOMAIN memory = Live /\ StringsOf(memory) = Strings
  BY State, NextStrings
<1>2. Fits(memory', Grown(Kids, L))
  BY <1>1, JoinFits
<1>3. Kids' = Grown(Kids, L) /\ ItemsInv'
  BY <1>2, NextKids
<1>4. StringsOf(Grown(memory, n)) = Grown(StringsOf(memory), StringsOf(n))
  BY DEF StringsOf, Grown
<1> QED
  BY <1>1, <1>3, <1>4, NextStrings

\* cJSON_CreateArray and its like.
LEMMA CreateKeeps ==
  ASSUME ItemsInv, NEW count \in 0 .. MaxCount, Create(count)
  PROVE  Kept
<1>1. CASE Returns(<<"create", count>>, NULL) /\ UNCHANGED memory
  <2>1. ItemsInv' /\ Kids' = Kids /\ Strings' = Strings
    BY <1>1, Unchanged
  <2>2. Tree!Create(count)
    BY <1>1, <2>1, TreeReturns DEF Tree!Create
  <2> QED
    BY <2>1, <2>2 DEF Kept, Tree!Next
<1>2. CASE \E a \in Fresh, n \in [1 .. count -> Fresh] :
             /\ IsInjective(n) /\ a \notin Range(n)
             /\ memory' = Grown(memory, Array(a, n))
             /\ Returns(<<"create", count>>, a)
  <2>1. PICK a \in Fresh, s \in [1 .. count -> Fresh] :
             /\ IsInjective(s) /\ a \notin Range(s)
             /\ memory' = Grown(memory, Array(a, s))
             /\ Returns(<<"create", count>>, a)
    BY <1>2
  <2> DEFINE new == [c \in {a} \cup Range(s) |-> IF c = a THEN s ELSE <<>>]
             none == [c \in {a} \cup Range(s) |-> NULL]
  <2>2. s \in Seq(Fresh) /\ Range(s) \subseteq Fresh
    <3>1. count \in Nat
      BY JsonItemsAssumption
    <3>2. s \in Seq(Fresh)
      BY <3>1, IsASeq
    <3>3. Range(s) \subseteq Fresh
      BY DEF Range
    <3> QED
      BY <3>2, <3>3
  <2>3. Fresh \in SUBSET Items /\ Fresh \cap Live = {}
    BY DEF Fresh
  <2>4. Fits(Array(a, s), new)
    BY <2>1, <2>2, <2>3, NewFits DEF Lists
  <2>5. DOMAIN Array(a, s) = {a} \cup Range(s)
    BY DEF Array
  <2>6. StringsOf(Array(a, s)) = none
    BY <2>5 DEF StringsOf, Array, New_Item
  <2> HIDE DEF new, none
  <2>7. /\ ItemsInv' /\ Kids' = Grown(Kids, new)
        /\ Strings' = Grown(Strings, none)
    BY <2>1, <2>2, <2>3, <2>4, <2>5, <2>6, GrownKeeps
  <2>8. Tree!Create(count)
    <3>1. a \in Tree!Fresh /\ s \in [1 .. count -> Tree!Fresh]
      BY State
    <3>2. Tree!IsInjective(s) /\ a \notin Tree!Range(s)
      BY <2>1, TreeOperators
    <3>3. Kids' = Tree!Grown(Kids, [c \in {a} \cup Tree!Range(s) |-> IF c = a THEN s ELSE <<>>])
      BY <2>7, TreeOperators DEF new
    <3>4. Strings' = Tree!Grown(Strings, [c \in {a} \cup Tree!Range(s) |-> NULL])
      BY <2>7, TreeOperators DEF none
    <3> QED
      BY <2>1, <3>1, <3>2, <3>3, <3>4, TreeReturns DEF Tree!Create
  <2> QED
    BY <2>7, <2>8 DEF Kept, Tree!Next
<1> QED
  BY <1>1, <1>2 DEF Create

\* cJSON_Duplicate, of one item or with all that is below it.
LEMMA DuplicateKeeps ==
  ASSUME ItemsInv, NEW item \in Live, NEW recurse \in BOOLEAN, Duplicate(item, recurse)
  PROVE  Kept
<1> DEFINE S == IF recurse THEN {item} \cup FreedWith(memory, memory[item].child) ELSE {item}
<1>1. CASE Returns(<<"duplicate", recurse>>, NULL) /\ UNCHANGED memory
  <2>1. ItemsInv' /\ Kids' = Kids /\ Strings' = Strings
    BY <1>1, Unchanged
  <2>2. Tree!Duplicate(item, recurse)
    BY <1>1, <2>1, TreeReturns DEF Tree!Duplicate
  <2> QED
    BY <2>1, <2>2, State DEF Kept, Tree!Next
<1>2. CASE \E copy \in [S -> Fresh] :
             /\ IsInjective(copy)
             /\ memory' = Grown(memory, Copies(memory, S, item, recurse, copy))
             /\ Returns(<<"duplicate", recurse>>, copy[item])
  <2>1. PICK copy \in [S -> Fresh] :
             /\ IsInjective(copy)
             /\ memory' = Grown(memory, Copies(memory, S, item, recurse, copy))
             /\ Returns(<<"duplicate", recurse>>, copy[item])
    BY <1>2
  <2>2. Fits(memory, Kids) /\ item \in DOMAIN memory /\ DOMAIN memory = Live
    BY State
  <2>3. S = IF recurse THEN Below(Kids, item) ELSE {item}
    BY <2>2, FreedChildren
  <2>4. S \subseteq Live
    BY <2>2, <2>3, BelowHolds
  <2> HIDE DEF S
  <2> DEFINE n == Copies(memory, S, item, recurse, copy)
             L == CopiedLists(Kids, S, recurse, copy)
             named == [c \in Range(copy) |-> Strings[CHOOSE j \in S : copy[j] = c]]
  <2>5. Fresh \in SUBSET Items /\ Fresh \cap Live = {}
    BY DEF Fresh
  <2>6. Fits(n, L)
    <3>1. CASE recurse
      <4>1. S = Below(Kids, item) /\ recurse = TRUE
        BY <2>3, <3>1
      <4> QED
        BY <2>1, <2>2, <2>5, <4>1, CopyOfAllFits
    <3>2. CASE ~recurse
      <4>1. S = {item} /\ recurse = FALSE
        BY <2>3, <3>2
      <4> QED
        BY <2>1, <2>2, <2>5, <4>1, CopyOfOneFits
    <3> QED
      BY <3>1, <3>2
  <2>7. Range(copy) \subseteq Fresh /\ \A c \in Range(copy) : \E j \in S : copy[j] = c
    BY <2>1, CopyFound
  <2>8. DOMAIN n = Range(copy)
    BY DEF Copies
  <2>9. StringsOf(n) = named
    <3>1. \A c \in Range(copy) : n[c].string = memory[CHOOSE j \in S : copy[j] = c].string
      BY DEF Copies
    <3>2. \A c \in Range(copy) : (CHOOSE j \in S : copy[j] = c) \in S
      BY <2>7
    <3>3. \A j \in S : memory[j].string = Strings[j]
      BY <2>4, State
    <3> HIDE DEF n
    <3> QED
      BY <2>8, <3>1, <3>2, <3>3 DEF StringsOf
  <2> HIDE DEF n, L, named
  <2>10. memory' = Grown(memory, n)
    BY <2>1 DEF n
  <2>11. ItemsInv' /\ Kids' = Grown(Kids, L) /\ Strings' = Grown(Strings, named)
    BY <2>5, <2>6, <2>7, <2>8, <2>9, <2>10, GrownKeeps
  <2>12. Tree!Duplicate(item, recurse)
    <3> DEFINE T == IF recurse THEN Tree!Below(item) ELSE {item}
               lists == [c \in Tree!Range(copy) |->
                 LET j == CHOOSE j \in T : copy[j] = c IN
                 IF recurse THEN [k \in DOMAIN Kids[j] |-> copy[Kids[j][k]]] ELSE <<>>]
               names == [c \in Tree!Range(copy) |-> Strings[CHOOSE j \in T : copy[j] = c]]
    <3>1. S = T
      BY <2>3, TreeBelow
    <3>2. copy \in [S -> Tree!Fresh] /\ Tree!IsInjective(copy) /\ Tree!Range(copy) = Range(copy)
      BY <2>1, State, TreeOperators
    <3> HIDE DEF T
    <3>3. Kids' = Tree!Grown(Kids, lists)
      <4>1. L = lists
        BY <3>1, <3>2 DEF L, CopiedLists
      <4> QED
        BY <2>11, <4>1, TreeOperators
    <3>4. Strings' = Tree!Grown(Strings, names)
      <4>1. named = names
        BY <3>1, <3>2 DEF named
      <4> QED
        BY <2>11, <4>1, TreeOperators
    <3>5. Tree!Returns(<<"duplicate", recurse>>, copy[item])
      BY <2>1, TreeReturns
    <3>6. copy \in [T -> Tree!Fresh]
      BY <3>1, <3>2
    <3> QED
      BY <3>2, <3>3, <3>4, <3>5, <3>6 DEF Tree!Duplicate, T
  <2> QED
    BY <2>11, <2>12, State DEF Kept, Tree!Next
<1> QED
  BY <1>1, <1>2 DEF Duplicate

-----------------------------------------------------------------------------
(***************************************************************************)
(* The theorems.                                                           *)
(***************************************************************************)

\* No items yet.
LEMMA InitFits == Init => ItemsInv /\ Tree!Init
<1> SUFFICES ASSUME Init PROVE ItemsInv /\ Tree!Init
  OBVIOUS
<1>1. DOMAIN memory = {} /\ result = <<"start", NULL>> /\ memory \in [{} -> Node]
  BY DEF Init
<1>2. Kids = [i \in {} |-> <<>>] /\ Strings = [i \in {} |-> NULL]
  BY <1>1 DEF Kids, Strings, Live
<1>3. DOMAIN Kids = {} /\ Kids \in [{} -> Seq({})]
  BY <1>2
<1>4. Placed(memory, Kids) /\ Once(Kids) /\ Grounded(Held(Kids))
  BY <1>1, <1>3 DEF Placed, Once, Grounded, Held
<1> QED
  BY <1>1, <1>2, <1>3, <1>4 DEF ItemsInv, Fits, Tree!Init

\* Every call is a step of the tree and keeps the invariant.
LEMMA NextKeeps ==
  ASSUME ItemsInv, Next
  PROVE  Kept
<1>1. CASE \E count \in 0 .. MaxCount : Create(count)
  BY <1>1, CreateKeeps
<1>2. CASE \E item \in Live : Delete(item)
  BY <1>2, DeleteKeeps
<1>3. CASE \E item \in Live, recurse \in BOOLEAN : Duplicate(item, recurse)
  BY <1>3, DuplicateKeeps
<1>4. CASE \E array \in Live : GetArraySize(array)
  BY <1>4, QueriesKeep
<1>5. CASE \E array \in Live, item \in Roots : AddItemToArray(array, item)
  BY <1>5, AddItemToArrayKeeps
<1>6. ASSUME NEW array \in Live, NEW which \in Places(array),
             NEW c, c = Nth(memory, memory[array].child, which),
             \/ GetArrayItem(array, which)
             \/ DetachItem(array, which, c)
             \/ DeleteItem(array, which, c)
             \/ \E item \in Roots : \/ InsertItemInArray(array, which, item)
                                    \/ ReplaceItemInArray(array, which, item)
      PROVE  Kept
  <2> DEFINE place == <<which, which>>
  <2>1. Meant(array, which, c) /\ which \in Nat /\ place \in Tree!Places(array)
    BY <1>6, NthIs
  <2>2. place[1] = which /\ place[2] = which /\ array \in Tree!Live
    BY State
  <2> HIDE DEF place
  <2>3. CASE GetArrayItem(array, which)
    BY <2>3, QueriesKeep
  <2>4. CASE DetachItem(array, which, c)
    BY <2>1, <2>2, <2>4, DetachItemKeeps DEF Kept, Tree!Next
  <2>5. CASE DeleteItem(array, which, c)
    BY <2>1, <2>2, <2>5, DeleteItemKeeps DEF Kept, Tree!Next
  <2>6. ASSUME NEW item \in Roots, InsertItemInArray(array, which, item) PROVE Kept
    BY <2>6, InsertItemInArrayKeeps
  <2>7. ASSUME NEW item \in Roots, ReplaceItemInArray(array, which, item) PROVE Kept
    <3>1. /\ ItemsInv' /\ item \in Live /\ Tree!Returns(<<"replace", which>>, NULL)
          /\ Tree!Replace(array, which, item, Strings)
      BY <2>7, ReplaceItemInArrayKeeps
    <3>2. Strings \in Tree!Renamed(item, which)
      BY <2>1, JsonItemsAssumption DEF Tree!Renamed
    <3>3. item \in Tree!Live
      BY <3>1, State
    <3> QED
      BY <2>1, <2>2, <3>1, <3>2, <3>3 DEF Kept, Tree!Next
  <2> QED
    BY <1>6, <2>3, <2>4, <2>5, <2>6, <2>7
<1>7. ASSUME NEW object \in Live, NEW n \in Names,
             \/ GetObjectItem(object, n)
             \/ DetachItem(object, n, Named(object, n))
             \/ DeleteItem(object, n, Named(object, n))
             \/ \E item \in Roots : \/ AddItemToObject(object, n, item)
                                    \/ ReplaceItemInObject(object, n, item)
      PROVE  Kept
  <2> DEFINE which == IndexOf(object, n)
             place == <<n, which>>
             c == Named(object, n)
  <2>1. Meant(object, which, c) /\ place \in Tree!Places(object)
    BY NamedIs
  <2>2. place[1] = n /\ place[2] = which /\ object \in Tree!Live
    BY State
  <2> HIDE DEF place, which, c
  <2>3. CASE GetObjectItem(object, n)
    BY <2>3, QueriesKeep
  <2>4. CASE DetachItem(object, n, c)
    BY <2>1, <2>2, <2>4, DetachItemKeeps DEF Kept, Tree!Next
  <2>5. CASE DeleteItem(object, n, c)
    BY <2>1, <2>2, <2>5, DeleteItemKeeps DEF Kept, Tree!Next
  <2>6. ASSUME NEW item \in Roots, AddItemToObject(object, n, item) PROVE Kept
    BY <2>6, AddItemToObjectKeeps
  <2>7. ASSUME NEW item \in Roots, ReplaceItemInObject(object, n, item) PROVE Kept
    <3>1. /\ ItemsInv' /\ item \in Live /\ Tree!Returns(<<"replace", n>>, NULL)
          /\ \E names \in Tree!Renamed(item, n) : Tree!Replace(object, which, item, names)
      BY <2>7, ReplaceItemInObjectKeeps DEF which
    <3>2. item \in Tree!Live
      BY <3>1, State
    <3> QED
      BY <2>1, <2>2, <3>1, <3>2 DEF Kept, Tree!Next
  <2> QED
    BY <1>7, <2>3, <2>4, <2>5, <2>6, <2>7 DEF c
<1> QED
  BY <1>1, <1>2, <1>3, <1>4, <1>5, <1>6, <1>7 DEF Next

\* The invariant: the pointers are those of the lists that following next gives.
LEMMA ItemsInvariant == Spec => []ItemsInv
<1>1. Init => ItemsInv
  BY InitFits
<1>2. ItemsInv /\ [Next]_<<memory, result>> => ItemsInv'
  <2>1. ASSUME ItemsInv, Next PROVE ItemsInv'
    BY <2>1, NextKeeps DEF Kept
  <2>2. ASSUME ItemsInv, UNCHANGED <<memory, result>> PROVE ItemsInv'
    BY <2>2, Unchanged
  <2> QED
    BY <2>1, <2>2
<1> QED
  BY <1>1, <1>2, PTL DEF Spec

\* At most one item leads to another: the one before it, or the one it is in.
LEMMA OnePlace ==
  ASSUME NEW m, NEW K, Fits(m, K), NEW i \in DOMAIN m
  PROVE  Cardinality({j \in DOMAIN m : i \in {m[j].next, m[j].child}}) <= 1
<1> DEFINE S == {j \in DOMAIN m : i \in {m[j].next, m[j].child}}
<1>1. i # NULL /\ DOMAIN K = DOMAIN m /\ Placed(m, K) /\ Once(K)
  BY FitsTypes DEF Fits, Typed
<1>2. ASSUME NEW j \in DOMAIN m, m[j].next = i PROVE m[i].prev = j /\ j # NULL
  BY <1>1, <1>2, ThereAndBack, FitsTypes DEF Typed
<1>3. ASSUME NEW j \in DOMAIN m, m[j].child = i
      PROVE  m[i].prev = NULL /\ 1 \in 1 .. Len(K[j]) /\ K[j][1] = i
  <2>1. m[i].prev = NULL
    BY <1>1, <1>3, ThereAndBack
  <2>2. At(K[j], 1) = i
    BY <1>1, <1>3 DEF Placed
  <2>3. DOMAIN K[j] = 1 .. Len(K[j])
    BY FitsTypes DEF Typed
  <2> QED
    BY <1>1, <2>1, <2>2, <2>3 DEF At
<1>4. ASSUME NEW j \in S, NEW k \in S PROVE j = k
  <2>1. CASE m[j].next = i /\ m[k].next = i
    BY <1>2, <2>1
  <2>2. CASE m[j].child = i /\ m[k].child = i
    <3>1. 1 \in 1 .. Len(K[j]) /\ K[j][1] = i /\ 1 \in 1 .. Len(K[k]) /\ K[k][1] = i
      BY <1>3, <2>2
    <3> QED
      BY <1>1, <3>1 DEF Once
  <2>3. CASE m[j].next = i /\ m[k].child = i
    BY <1>2, <1>3, <2>3
  <2>4. CASE m[j].child = i /\ m[k].next = i
    BY <1>2, <1>3, <2>4
  <2> QED
    BY <2>1, <2>2, <2>3, <2>4
<1> HIDE DEF S
<1>5. CASE S = {}
  BY <1>5, FS_EmptySet DEF S
<1>6. CASE S # {}
  <2>1. PICK x \in S : S = {x}
    BY <1>4, <1>6
  <2>2. Cardinality({x}) = 1
    BY FS_Singleton
  <2> QED
    BY <2>1, <2>2 DEF S
<1> QED
  BY <1>5, <1>6

\* Pointers that fit lists are well linked.
LEMMA FitsIsLinked == ItemsInv => WellLinked
<1> SUFFICES ASSUME ItemsInv, NEW i \in Live
             PROVE  /\ {memory[i].next, memory[i].prev, memory[i].child} \subseteq Live \cup {NULL}
                    /\ memory[i].next # NULL => memory[memory[i].next].prev = i
                    /\ memory[i].prev # NULL => memory[memory[i].prev].next = i
                    /\ memory[i].child # NULL => memory[memory[i].child].prev = NULL
                    /\ Cardinality({j \in Live : i \in {memory[j].next, memory[j].child}}) <= 1
  BY DEF WellLinked
<1>1. Fits(memory, Kids) /\ Live = DOMAIN memory
  BY State
<1>2. Cardinality({j \in Live : i \in {memory[j].next, memory[j].child}}) <= 1
  BY <1>1, OnePlace
<1>3. /\ memory[i].next # NULL => memory[i].next \in Live /\ memory[memory[i].next].prev = i
      /\ memory[i].prev # NULL => memory[i].prev \in Live /\ memory[memory[i].prev].next = i
      /\ memory[i].child # NULL => memory[i].child \in Live /\ memory[memory[i].child].prev = NULL
  BY <1>1, ThereAndBack
<1> QED
  BY <1>2, <1>3

\* No pointer of an item leads to freed memory, prev undoes next, and an item has
\* one place, whatever was added, inserted, detached, replaced, deleted, copied.
THEOREM ItemsAreWellLinked == Spec => []WellLinked
BY ItemsInvariant, FitsIsLinked, PTL

\* The calls on items cannot be told from calls on trees: what cJSON.c returns,
\* and which items there are afterwards, is what cJSON.h promises of arrays and
\* objects.
THEOREM ItemsImplementTree == Spec => ImplementsTree
<1>1. Init => Tree!Init
  BY InitFits
<1>2. ItemsInv /\ [Next]_<<memory, result>> => [Tree!Next]_<<Kids, Strings, result>>
  <2>1. ASSUME ItemsInv, Next PROVE Tree!Next
    BY <2>1, NextKeeps DEF Kept
  <2>2. ASSUME ItemsInv, UNCHANGED <<memory, result>> PROVE UNCHANGED <<Kids, Strings, result>>
    BY <2>2, Unchanged
  <2> QED
    BY <2>1, <2>2
<1> QED
  BY <1>1, <1>2, ItemsInvariant, PTL DEF Spec, ImplementsTree, Tree!Spec

==============================================================================
