--------------------------- MODULE PtrArrayProofs ---------------------------
(***************************************************************************)
(* Theorems about the pointer array, for every MAX_CAPACITY, every set of  *)
(* pointers and every size asked for, as long as arraySetSize enlarges     *)
(* only an empty array, which is how the server uses it.                   *)
(***************************************************************************)
EXTENDS PtrArray, FiniteSetTheorems, SequenceTheorems, TLAPS

Elements == Pointers \cup {NULL, Junk}

\* Memory of n slots holds the elements.
Holds(n) ==
  /\ n \in Nat /\ n <= MaxCapacity
  /\ contents \in [0 .. n - 1 -> Elements]
  /\ size \in 0 .. n
  /\ ~overrun

ArrayInv == \E n \in Nat : Holds(n)

-----------------------------------------------------------------------------
LEMMA SlotsAreCounted ==
  ASSUME NEW n, Holds(n)
  PROVE  capacity = n
<1>1. DOMAIN contents = 0 .. n - 1 /\ n \in Nat
  BY DEF Holds
<1>2. Cardinality(0 .. n - 1) = n
  BY <1>1, FS_Interval
<1> QED
  BY <1>1, <1>2 DEF capacity

LEMMA InvGivesType == ArrayInv => ArrayTypeOK
<1> SUFFICES ASSUME NEW n \in Nat, Holds(n) PROVE ArrayTypeOK
  BY DEF ArrayInv
<1> QED
  BY SlotsAreCounted DEF Holds, ArrayTypeOK, Elements

\* The memory that ensureCapacity leaves: enough slots, none above the limit,
\* and the elements are where they were.
LEMMA EnoughMemory ==
  ASSUME NEW n \in Nat, Holds(n), NEW needed \in Nat, needed <= MaxCapacity,
         NEW memory \in ensureCapacity(needed)
  PROVE  \E c \in Nat :
           /\ n <= c /\ needed <= c /\ c <= MaxCapacity
           /\ memory \in [0 .. c - 1 -> Elements]
           /\ \A i \in 0 .. n - 1 : memory[i] = contents[i]
<1>1. capacity = n
  BY SlotsAreCounted
<1>2. CASE Enough(needed)
  <2>1. memory = contents /\ needed <= n
    BY <1>1, <1>2 DEF ensureCapacity, Enough
  <2> QED
    BY <2>1 DEF Holds
<1>3. CASE ~Enough(needed)
  <2>1. ~(needed <= n)
    BY <1>1, <1>3 DEF Enough
  <2>2. PICK c \in Doublings(needed) :
          memory = [i \in 0 .. c - 1 |-> IF i < n THEN contents[i] ELSE Junk]
    BY <1>1, <1>3 DEF ensureCapacity
  <2>3. c \in needed .. MaxCapacity
    BY <2>2 DEF Doublings
  <2>4. c \in Nat /\ n <= c /\ needed <= c /\ c <= MaxCapacity
    BY <2>1, <2>3, PtrArrayAssumption DEF PtrArrayAssumption
  <2>5. memory \in [0 .. c - 1 -> Elements]
    <3>1. \A i \in 0 .. c - 1 :
            (IF i < n THEN contents[i] ELSE Junk) \in Elements
      BY <2>4 DEF Holds, Elements
    <3> QED
      BY <2>2, <3>1
  <2>6. \A i \in 0 .. n - 1 : memory[i] = contents[i]
    BY <2>2, <2>4
  <2> QED
    BY <2>4, <2>5, <2>6
<1> QED
  BY <1>2, <1>3

\* An empty array is cleared from its first slot on.
LEMMA ClearedFromTheStart ==
  ASSUME size = 0, NEW newSize \in Nat
  PROVE  Zeroed(newSize) = 0 .. newSize - 1
<1>1. PointerSize * size = 0
  BY PtrArrayAssumption DEF PtrArrayAssumption
<1> QED
  BY <1>1 DEF Zeroed

-----------------------------------------------------------------------------
(***************************************************************************)
(* The elements stay inside the memory.                                    *)
(***************************************************************************)

LEMMA InitArray == Init => ArrayInv
<1> SUFFICES ASSUME Init PROVE Holds(0)
  BY DEF ArrayInv
<1> QED
  BY PtrArrayAssumption DEF Init, Holds, PtrArrayAssumption

LEMMA NextArray ==
  ASSUME ~Growing, ArrayInv, [Next]_vars
  PROVE  ArrayInv'
<1>0. PICK n \in Nat : Holds(n)
  BY DEF ArrayInv
<1>1. capacity = n
  BY <1>0, SlotsAreCounted
<1> SUFFICES \E c \in Nat : Holds(c)'
  BY DEF ArrayInv
<1>2. CASE UNCHANGED <<contents, size, overrun>>
  BY <1>0, <1>2 DEF Holds
<1>3. ASSUME NEW p \in Pointers, arrayAdd(p)
      PROVE  \E c \in Nat : Holds(c)'
  <2>1. CASE Fails(size + 1, <<"add", p, -1>>)
    BY <1>2, <2>1 DEF Fails
  <2>2. CASE ~Fails(size + 1, <<"add", p, -1>>)
    <3>1. PICK memory \in ensureCapacity(size + 1) : contents' = [memory EXCEPT ![size] = p]
      BY <1>3, <2>2 DEF arrayAdd
    <3>2. /\ size' = size + 1 /\ size + 1 <= MaxCapacity
          /\ overrun' = overrun
      BY <1>3, <2>2 DEF arrayAdd
    <3>3. size + 1 \in Nat /\ size \in 0 .. n
      BY <1>0 DEF Holds
    <3>4. PICK c \in Nat : /\ n <= c /\ size + 1 <= c /\ c <= MaxCapacity
                           /\ memory \in [0 .. c - 1 -> Elements]
      BY <1>0, <3>1, <3>2, <3>3, EnoughMemory
    <3>5. contents' \in [0 .. c - 1 -> Elements]
      BY <3>1, <3>4 DEF Elements
    <3> QED
      BY <1>0, <3>2, <3>3, <3>4, <3>5 DEF Holds
  <2> QED
    BY <2>1, <2>2
<1>4. ASSUME NEW index \in DOMAIN contents, arrayRemove(index)
      PROVE  \E c \in Nat : Holds(c)'
  <2>1. /\ contents' = Shifted(index) /\ size' = size - 1 /\ overrun' = overrun
        /\ 0 <= index /\ index < size
    BY <1>4 DEF arrayRemove, checkBounds
  <2>2. /\ index \in Int /\ size \in 0 .. n /\ ~overrun /\ n <= MaxCapacity
        /\ contents \in [0 .. n - 1 -> Elements]
    BY <1>0, <1>4 DEF Holds
  <2>3. contents' \in [0 .. n - 1 -> Elements]
    <3>1. \A i \in 0 .. n - 1 :
            (IF index <= i /\ i < size - 1 THEN contents[i + 1] ELSE contents[i]) \in Elements
      BY <2>2
    <3> QED
      BY <2>1, <2>2, <3>1 DEF Shifted
  <2>4. size' \in 0 .. n
    BY <2>1, <2>2
  <2> QED
    BY <2>1, <2>2, <2>3, <2>4 DEF Holds
<1>5. ASSUME NEW index \in DOMAIN contents, NEW p \in Pointers, arraySet(index, p)
      PROVE  \E c \in Nat : Holds(c)'
  BY <1>0, <1>5 DEF arraySet, Holds, Elements
<1>6. ASSUME NEW newSize \in Sizes, arraySetSize(newSize)
      PROVE  \E c \in Nat : Holds(c)'
  <2>0. newSize \in Nat
    BY PtrArrayAssumption DEF PtrArrayAssumption
  <2>1. CASE Fails(newSize, <<"setsize", newSize, -1>>)
    BY <1>2, <2>1 DEF Fails
  <2>4. size \in Nat
    BY <1>0 DEF Holds
  <2>2. CASE ~Fails(newSize, <<"setsize", newSize, -1>>) /\ newSize <= size
    <3>1. size' = newSize /\ UNCHANGED <<contents, overrun>>
      BY <1>6, <2>0, <2>4, <2>2 DEF arraySetSize
    <3> QED
      BY <1>0, <2>0, <2>2, <3>1 DEF Holds
  <2>3. CASE ~Fails(newSize, <<"setsize", newSize, -1>>) /\ newSize > size
    <3>0. newSize <= MaxCapacity /\ size' = newSize
      BY <1>6, <2>0, <2>4, <2>3 DEF arraySetSize
    <3>1. PICK memory \in ensureCapacity(newSize) :
            /\ contents' = [i \in DOMAIN memory |->
                              IF i \in Zeroed(newSize) THEN NULL ELSE memory[i]]
            /\ overrun' = (overrun \/ ~(Zeroed(newSize) \subseteq DOMAIN memory))
      BY <1>6, <2>0, <2>4, <2>3 DEF arraySetSize
    <3>2. PICK c \in Nat : /\ n <= c /\ newSize <= c /\ c <= MaxCapacity
                           /\ memory \in [0 .. c - 1 -> Elements]
      BY <1>0, <2>0, <3>0, <3>1, EnoughMemory
    <3>3. size = 0
      BY <1>0, <1>6, <2>0, <2>3 DEF arraySetSize, Holds
    <3>4. Zeroed(newSize) = 0 .. newSize - 1
      BY <2>0, <3>3, ClearedFromTheStart
    <3>5. ~overrun'
      <4>1. Zeroed(newSize) \subseteq DOMAIN memory
        BY <2>0, <3>2, <3>4
      <4>2. ~overrun
        BY <1>0 DEF Holds
      <4> QED
        BY <3>1, <4>1, <4>2
    <3>6. contents' \in [0 .. c - 1 -> Elements]
      BY <3>1, <3>2 DEF Elements
    <3> QED
      BY <2>0, <3>0, <3>2, <3>5, <3>6 DEF Holds
  <2> QED
    BY <2>0, <2>4, <2>1, <2>2, <2>3
<1> QED
  BY <1>2, <1>3, <1>4, <1>5, <1>6 DEF Next, vars, arraySize, arrayGet

\* array.c never keeps or writes an element outside its memory, and never asks
\* for more than MAX_CAPACITY slots, whatever calls are made and fail.
THEOREM ArrayTypeCorrect == ASSUME ~Growing PROVE Spec => []ArrayTypeOK
<1>1. Init => ArrayInv
  BY InitArray
<1>2. ArrayInv /\ [Next]_vars => ArrayInv'
  BY NextArray
<1>3. ArrayInv => ArrayTypeOK
  BY InvGivesType
<1> QED
  BY <1>1, <1>2, <1>3, PTL DEF Spec

-----------------------------------------------------------------------------
(***************************************************************************)
(* The array is the list of array.h.                                       *)
(***************************************************************************)

\* The list of ArrayService, as the array holds it.
Seen == [i \in 1 .. size |->
           IF i - 1 \in DOMAIN contents THEN contents[i - 1] ELSE Junk]

LEMMA SeenElements ==
  ASSUME ArrayInv
  PROVE  /\ size \in Nat
         /\ Seen \in Seq(Elements)
         /\ Len(Seen) = size
         /\ DOMAIN Seen = 1 .. size
         /\ \A i \in 1 .. size : Seen[i] = contents[i - 1]
<1>0. PICK n \in Nat : Holds(n)
  BY DEF ArrayInv
<1>1. size \in Nat /\ size <= n /\ contents \in [0 .. n - 1 -> Elements]
  BY <1>0 DEF Holds
<1>2. \A i \in 1 .. size : Seen[i] = contents[i - 1] /\ Seen[i] \in Elements
  BY <1>1 DEF Seen
<1>3. Seen \in [1 .. size -> Elements]
  BY <1>2 DEF Seen
<1>4. Seen \in Seq(Elements) /\ Len(Seen) = size
  BY <1>1, <1>3
<1> QED
  BY <1>1, <1>2, <1>4 DEF Seen

\* Two lists are the same when they have the same elements.
LEMMA SeenNext ==
  ASSUME ArrayInv', NEW s \in Seq(Elements), Len(s) = size',
         \A i \in 1 .. size' : s[i] = contents'[i - 1]
  PROVE  Seen' = s
<1>0. PICK n \in Nat : Holds(n)'
  BY DEF ArrayInv
<1>1. size' \in Nat /\ size' <= n /\ contents' \in [0 .. n - 1 -> Elements]
  BY <1>0 DEF Holds
<1>2. Seen' = [i \in 1 .. size' |->
                 IF i - 1 \in DOMAIN contents' THEN contents'[i - 1] ELSE Junk]
  BY DEF Seen
<1>3. s \in [1 .. size' -> Elements]
  BY <1>1
<1>4. \A i \in 1 .. size' : i - 1 \in DOMAIN contents'
  BY <1>1
<1> QED
  BY <1>2, <1>3, <1>4

LEMMA InitArrayService == Init => Service!Init
<1> SUFFICES ASSUME Init PROVE Seen = <<>>
  BY DEF Init, Service!Init, Seen
<1> QED
  BY DEF Init, Seen

LEMMA AddIsAdd ==
  ASSUME ArrayInv, ArrayInv', NEW p \in Pointers, arrayAdd(p)
  PROVE  Service!Add(p)
<1>0. PICK n \in Nat : Holds(n)
  BY DEF ArrayInv
<1>1. CASE Fails(size + 1, <<"add", p, -1>>)
  <2>1. Seen' = Seen /\ result' = <<"add", p, -1>>
    BY <1>1 DEF Fails, Seen
  <2> QED
    BY <2>1 DEF Service!Add, Seen
<1>2. CASE ~Fails(size + 1, <<"add", p, -1>>)
  <2>1. PICK memory \in ensureCapacity(size + 1) : contents' = [memory EXCEPT ![size] = p]
    BY <1>2 DEF arrayAdd
  <2>2. size' = size + 1 /\ size + 1 <= MaxCapacity /\ result' = <<"add", p, 0>>
    BY <1>2 DEF arrayAdd
  <2>3. size \in 0 .. n
    BY <1>0 DEF Holds
  <2>4. PICK c \in Nat : /\ n <= c /\ size + 1 <= c
                         /\ memory \in [0 .. c - 1 -> Elements]
                         /\ \A i \in 0 .. n - 1 : memory[i] = contents[i]
    BY <1>0, <2>1, <2>2, <2>3, EnoughMemory
  <2>5. /\ contents'[size] = p
        /\ \A i \in 0 .. size - 1 : contents'[i] = contents[i]
    BY <2>1, <2>3, <2>4
  <2>6. p \in Elements
    BY DEF Elements
  <2>7. /\ Append(Seen, p) \in Seq(Elements)
        /\ Len(Append(Seen, p)) = size'
        /\ \A i \in 1 .. size' : Append(Seen, p)[i] = IF i <= size THEN Seen[i] ELSE p
    BY <2>2, <2>6, SeenElements
  <2>8. \A i \in 1 .. size' : Append(Seen, p)[i] = contents'[i - 1]
    BY <2>2, <2>3, <2>5, <2>7, SeenElements
  <2>9. Seen' = Append(Seen, p)
    BY <2>7, <2>8, SeenNext
  <2> QED
    BY <2>2, <2>9 DEF Service!Add, Seen
<1> QED
  BY <1>1, <1>2

LEMMA RemoveIsRemove ==
  ASSUME ArrayInv, ArrayInv', NEW index \in DOMAIN contents, arrayRemove(index)
  PROVE  Service!Remove(index)
<1>0. PICK n \in Nat : Holds(n)
  BY DEF ArrayInv
<1>1. /\ index \in 0 .. size - 1 /\ size \in 0 .. n
      /\ contents \in [0 .. n - 1 -> Elements]
  BY <1>0 DEF Holds, arrayRemove, checkBounds
<1>2. /\ size' = size - 1 /\ contents' = Shifted(index)
      /\ result' = <<"remove", index, contents[index]>>
  BY DEF arrayRemove
<1> DEFINE before == SubSeq(Seen, 1, index)
           after == SubSeq(Seen, index + 2, size)
<1>3. /\ before \in Seq(Elements) /\ Len(before) = index
      /\ \A i \in 1 .. index : before[i] = Seen[i]
  BY <1>1, SeenElements
<1>4. /\ after \in Seq(Elements) /\ Len(after) = size - 1 - index
      /\ \A i \in 1 .. size - 1 - index : after[i] = Seen[index + 1 + i]
  <2>1. \A i \in index + 2 .. size : Seen[i] \in Elements
    BY <1>1, SeenElements, ElementOfSeq
  <2>2. index + 2 \in Int /\ size \in Int
    BY <1>1
  <2>3. /\ after \in Seq(Elements)
        /\ Len(after) = IF index + 2 <= size THEN size - (index + 2) + 1 ELSE 0
        /\ \A i \in 1 .. size - (index + 2) + 1 : after[i] = Seen[index + 2 + i - 1]
    BY <2>1, <2>2, SubSeqProperties
  <2> HIDE DEF after
  <2>4. \A i \in 1 .. size - 1 - index :
          /\ i \in 1 .. size - (index + 2) + 1
          /\ index + 2 + i - 1 = index + 1 + i
    BY <1>1
  <2>5. (IF index + 2 <= size THEN size - (index + 2) + 1 ELSE 0) = size - 1 - index
    BY <1>1
  <2> QED
    BY <2>3, <2>4, <2>5
<1>5. /\ before \o after \in Seq(Elements)
      /\ Len(before \o after) = size'
      /\ \A i \in 1 .. size' : (before \o after)[i] =
                                IF i <= index THEN Seen[i] ELSE Seen[i + 1]
  <2>1. /\ before \o after \in Seq(Elements)
        /\ Len(before \o after) = Len(before) + Len(after)
        /\ \A i \in 1 .. Len(before) + Len(after) : (before \o after)[i] =
             IF i <= Len(before) THEN before[i] ELSE after[i - Len(before)]
    BY <1>3, <1>4, ConcatProperties
  <2>2. Len(before) + Len(after) = size'
    BY <1>1, <1>2, <1>3, <1>4
  <2>3. ASSUME NEW i \in 1 .. size'
        PROVE  (before \o after)[i] = IF i <= index THEN Seen[i] ELSE Seen[i + 1]
    <3>1. CASE i <= index
      BY <1>1, <1>3, <2>1, <2>2, <3>1
    <3>2. CASE ~(i <= index)
      <4>1. i - index \in 1 .. size - 1 - index /\ index + 1 + (i - index) = i + 1
        BY <1>1, <1>2, <3>2
      <4>2. (before \o after)[i] = after[i - index]
        BY <1>3, <2>1, <2>2, <3>2
      <4>3. after[i - index] = Seen[index + 1 + (i - index)]
        BY <1>4, <4>1
      <4> QED
        BY <3>2, <4>1, <4>2, <4>3
    <3> QED
      BY <3>1, <3>2
  <2> QED
    BY <2>1, <2>2, <2>3
<1>6. \A i \in 1 .. size' : contents'[i - 1] =
                           IF i <= index THEN contents[i - 1] ELSE contents[i]
  BY <1>1, <1>2 DEF Shifted
<1>7. \A i \in 1 .. size' : (before \o after)[i] = contents'[i - 1]
  <2> TAKE i \in 1 .. size'
  <2>1. size \in Nat /\ \A j \in 1 .. size : Seen[j] = contents[j - 1]
    BY SeenElements
  <2>2. i \in 1 .. size /\ i + 1 \in 1 .. size /\ (i + 1) - 1 = i
    BY <1>1, <1>2
  <2>3. Seen[i] = contents[i - 1] /\ Seen[i + 1] = contents[i]
    BY <2>1, <2>2
  <2> HIDE DEF before, after
  <2> QED
    BY <1>5, <1>6, <2>3
<1>8. Seen' = before \o after
  BY <1>5, <1>7, SeenNext
<1>9. Len(Seen) = size /\ Seen[index + 1] = contents[index]
  BY <1>1, SeenElements
<1> QED
  <2>1. /\ index < Len(Seen)
        /\ result' = <<"remove", index, Seen[index + 1]>>
        /\ Seen' = SubSeq(Seen, 1, index) \o SubSeq(Seen, index + 2, Len(Seen))
    BY <1>1, <1>2, <1>8, <1>9
  <2> QED
    BY <2>1 DEF Service!Remove, Seen

LEMMA SetIsSet ==
  ASSUME ArrayInv, ArrayInv', NEW index \in DOMAIN contents, NEW p \in Pointers,
         arraySet(index, p)
  PROVE  Service!Set(index, p)
<1>0. PICK n \in Nat : Holds(n)
  BY DEF ArrayInv
<1>1. /\ index \in 0 .. size - 1 /\ size \in 0 .. n
      /\ contents \in [0 .. n - 1 -> Elements]
  BY <1>0 DEF Holds, arraySet, checkBounds
<1>2. /\ size' = size /\ contents' = [contents EXCEPT ![index] = p]
      /\ result' = <<"set", index, p, contents[index]>>
  BY DEF arraySet
<1> DEFINE s == [Seen EXCEPT ![index + 1] = p]
<1>3. /\ s \in Seq(Elements) /\ Len(s) = size'
      /\ \A i \in 1 .. size' : s[i] = IF i = index + 1 THEN p ELSE Seen[i]
  <2>1. index + 1 \in 1 .. Len(Seen) /\ p \in Elements
    BY <1>1, SeenElements DEF Elements
  <2> QED
    BY <1>2, <2>1, SeenElements, ExceptSeq
<1>4. \A i \in 1 .. size' : s[i] = contents'[i - 1]
  BY <1>1, <1>2, <1>3, SeenElements
<1>5. Seen' = s
  BY <1>3, <1>4, SeenNext
<1>6. Len(Seen) = size /\ Seen[index + 1] = contents[index]
  BY <1>1, SeenElements
<1> QED
  BY <1>1, <1>2, <1>5, <1>6 DEF Service!Set, Seen

LEMMA SetSizeIsSetSize ==
  ASSUME ~Growing, ArrayInv, ArrayInv', NEW newSize \in Sizes, arraySetSize(newSize)
  PROVE  Service!SetSize(newSize)
<1>0. PICK n \in Nat : Holds(n)
  BY DEF ArrayInv
<1>1. /\ newSize \in Nat /\ size \in 0 .. n
      /\ contents \in [0 .. n - 1 -> Elements]
  BY <1>0, PtrArrayAssumption DEF Holds, PtrArrayAssumption
<1>2. CASE Fails(newSize, <<"setsize", newSize, -1>>)
  <2>1. Seen' = Seen /\ result' = <<"setsize", newSize, -1>>
    BY <1>2 DEF Fails, Seen
  <2> QED
    BY <2>1 DEF Service!SetSize, Seen
<1> DEFINE s == [i \in 1 .. newSize |-> IF i <= size THEN Seen[i] ELSE NULL]
<1>3. s \in Seq(Elements) /\ Len(s) = newSize
  <2>1. \A i \in 1 .. newSize : (IF i <= size THEN Seen[i] ELSE NULL) \in Elements
    <3>1. \A i \in 1 .. size : Seen[i] \in Elements
      BY SeenElements, ElementOfSeq
    <3> QED
      BY <1>1, <3>1 DEF Elements
  <2>2. s \in [1 .. newSize -> Elements]
    BY <2>1
  <2> QED
    BY <1>1, <2>2
<1>4. ASSUME ~Fails(newSize, <<"setsize", newSize, -1>>)
      PROVE  \A i \in 1 .. newSize : s[i] = contents'[i - 1]
  <2>1. CASE newSize <= size
    <3>1. UNCHANGED contents
      BY <1>1, <1>4, <2>1 DEF arraySetSize
    <3> QED
      BY <1>1, <2>1, <3>1, SeenElements
  <2>2. CASE newSize > size
    <3>1. size = 0
      BY <1>1, <2>2 DEF arraySetSize
    <3>2. newSize <= MaxCapacity
      BY <1>1, <1>4, <2>2 DEF arraySetSize
    <3>3. PICK memory \in ensureCapacity(newSize) :
            contents' = [i \in DOMAIN memory |->
                           IF i \in Zeroed(newSize) THEN NULL ELSE memory[i]]
      BY <1>1, <1>4, <2>2 DEF arraySetSize
    <3>4. PICK c \in Nat : newSize <= c /\ memory \in [0 .. c - 1 -> Elements]
      BY <1>0, <1>1, <3>2, <3>3, EnoughMemory
    <3>5. Zeroed(newSize) = 0 .. newSize - 1
      BY <1>1, <3>1, ClearedFromTheStart
    <3>6. \A i \in 0 .. newSize - 1 : contents'[i] = NULL
      BY <1>1, <3>3, <3>4, <3>5
    <3> QED
      BY <1>1, <3>1, <3>6
  <2> QED
    BY <1>1, <2>1, <2>2
<1>5. CASE ~Fails(newSize, <<"setsize", newSize, -1>>)
  <2>1. size' = newSize /\ result' = <<"setsize", newSize, 0>>
    BY <1>5 DEF arraySetSize
  <2>2. Seen' = s
    BY <1>3, <1>4, <1>5, <2>1, SeenNext
  <2>3. Len(Seen) = size
    BY SeenElements
  <2> QED
    BY <2>1, <2>2, <2>3 DEF Service!SetSize, Seen
<1> QED
  BY <1>2, <1>5

LEMMA StepIsService ==
  ASSUME ~Growing, ArrayInv, ArrayInv', [Next]_vars
  PROVE  [Service!Next]_<<Seen, result>>
<1>1. CASE UNCHANGED vars
  BY <1>1 DEF vars, Seen
<1>2. CASE arraySize
  <2>1. Len(Seen) = size
    BY SeenElements
  <2> QED
    BY <1>2, <2>1 DEF arraySize, Service!Next, Service!Size, Seen
<1>3. ASSUME NEW p \in Pointers, arrayAdd(p)
      PROVE  Service!Next
  BY <1>3, AddIsAdd DEF Service!Next
<1>4. ASSUME NEW index \in DOMAIN contents,
             \/ arrayGet(index) \/ arrayRemove(index)
             \/ \E p \in Pointers : arraySet(index, p)
      PROVE  Service!Next
  <2>1. Len(Seen) = size /\ size \in Nat
    BY SeenElements
  <2>2. index \in 0 .. size - 1
    <3>1. PICK n \in Nat : Holds(n)
      BY DEF ArrayInv
    <3> QED
      BY <1>4, <3>1 DEF Holds, arrayGet, arrayRemove, arraySet, checkBounds
  <2>3. CASE arrayGet(index)
    <3>1. Seen[index + 1] = contents[index]
      BY <2>2, <2>1, SeenElements
    <3>2. Service!Get(index)
      BY <2>1, <2>2, <2>3, <3>1 DEF arrayGet, Service!Get, Seen
    <3> QED
      BY <2>1, <2>2, <3>2 DEF Service!Next, Seen
  <2>4. CASE arrayRemove(index)
    BY <2>1, <2>2, <2>4, RemoveIsRemove DEF Service!Next, Seen
  <2>5. ASSUME NEW p \in Pointers, arraySet(index, p)
        PROVE  Service!Next
    BY <2>1, <2>2, <2>5, SetIsSet DEF Service!Next, Seen
  <2> QED
    BY <1>4, <2>3, <2>4, <2>5
<1>5. ASSUME NEW newSize \in Sizes, arraySetSize(newSize)
      PROVE  Service!Next
  BY <1>5, SetSizeIsSetSize DEF Service!Next
<1> QED
  BY <1>1, <1>2, <1>3, <1>4, <1>5 DEF Next

\* Whatever is added, removed and set, whatever memory is missing and however
\* often the array grows, the callers of array.h see one list.
THEOREM ArrayImplementsList == ASSUME ~Growing PROVE Spec => ImplementsArray
<1>1. Init => ArrayInv
  BY InitArray
<1>2. ArrayInv /\ [Next]_vars => ArrayInv'
  BY NextArray
<1>3. Init => Service!Init
  BY InitArrayService
<1>4. ArrayInv /\ ArrayInv' /\ [Next]_vars => [Service!Next]_<<Seen, result>>
  BY StepIsService
<1> QED
  BY <1>1, <1>2, <1>3, <1>4, PTL DEF Spec, ImplementsArray, Service!Spec, Seen

=============================================================================
