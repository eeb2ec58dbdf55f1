------------------------------ MODULE PtrArray ------------------------------
(***************************************************************************)
(* server/array.c: an array of pointers that grows by doubling.  The game  *)
(* keeps its gems, the gems of a session and the recipients of a response  *)
(* in one.                                                                 *)
(***************************************************************************)
EXTENDS Integers, Sequences, FiniteSetsExt

CONSTANTS
  Pointers,
  NULL,
  Junk,           \* what fresh memory holds
  PointerSize,    \* sizeof(void*)
  MaxCapacity,    \* MAX_CAPACITY: UINT_MAX / sizeof(void*)
  Sizes,          \* arguments of arraySetSize
  Growing         \* arraySetSize is also asked to enlarge arrays that hold something

ASSUME PtrArrayAssumption ==
  /\ PointerSize \in Nat \ {0, 1}
  /\ MaxCapacity \in Nat /\ MaxCapacity >= 4
  /\ Sizes \subseteq Nat
  /\ Growing \in BOOLEAN
  /\ NULL \notin Pointers /\ Junk \notin Pointers \cup {NULL}

VARIABLES
  contents,   \* the slots of the allocated memory, from 0 on
  size,
  overrun,    \* memory behind the slots was written
  result      \* the last call and what it returned

vars == <<contents, size, overrun, result>>

INITIAL_CAPACITY == 4
capacity == Cardinality(DOMAIN contents)

-----------------------------------------------------------------------------
\* The first capacity in the doubling that is enough, none above MAX_CAPACITY.
Doublings(needed) ==
  LET from == IF capacity = 0 THEN INITIAL_CAPACITY ELSE capacity
      tries == {n \in needed .. MaxCapacity :
                  n = MaxCapacity \/ \E i \in 0 .. needed : n = from * 2 ^ i}
  IN {n \in tries : \A m \in tries : n <= m}

\* Mutant of Enough: the array may be one element fuller than its memory.
EnoughButOne(needed) == needed <= capacity + 1

Enough(needed) == needed <= capacity

\* It fails at MAX_CAPACITY and, to grow, without memory; nothing has changed.
Fails(needed, answer) ==
  /\ ~Enough(needed)
  /\ result' = answer
  /\ UNCHANGED <<contents, size, overrun>>

\* The memory after a capacity of `needed' has been ensured; larger memory holds
\* junk behind the old slots.
ensureCapacity(needed) ==
  IF Enough(needed)
  THEN {contents}
  ELSE {[i \in 0 .. n - 1 |-> IF i < capacity THEN contents[i] ELSE Junk] :
          n \in Doublings(needed)}

-----------------------------------------------------------------------------
\* arrayCreate.
Init ==
  /\ contents = [i \in {} |-> NULL]
  /\ size = 0
  /\ overrun = FALSE
  /\ result = <<"create", 0>>

arrayAdd(p) ==
  \/ Fails(size + 1, <<"add", p, -1>>)
  \/ /\ size + 1 <= MaxCapacity
     /\ \E memory \in ensureCapacity(size + 1) :
          contents' = [memory EXCEPT ![size] = p]
     /\ size' = size + 1
     /\ result' = <<"add", p, 0>>
     /\ UNCHANGED overrun

\* checkBounds: an assertion in every call with an index.
checkBounds(index) == 0 <= index /\ index < size

arrayGet(index) ==
  /\ checkBounds(index)
  /\ result' = <<"get", index, contents[index]>>
  /\ UNCHANGED <<contents, size, overrun>>

\* Mutant of Shifted: one element too few is moved.
ShiftedShort(index) ==
  [i \in DOMAIN contents |->
    IF index <= i /\ i < size - 2 THEN contents[i + 1] ELSE contents[i]]

\* memmove: what follows the index moves one slot to the left, and the last
\* pointer also stays where it was.
Shifted(index) ==
  [i \in DOMAIN contents |->
    IF index <= i /\ i < size - 1 THEN contents[i + 1] ELSE contents[i]]

arrayRemove(index) ==
  /\ checkBounds(index)
  /\ result' = <<"remove", index, contents[index]>>
  /\ contents' = Shifted(index)
  /\ size' = size - 1
  /\ UNCHANGED overrun

arraySet(index, p) ==
  /\ checkBounds(index)
  /\ result' = <<"set", index, p, contents[index]>>
  /\ contents' = [contents EXCEPT ![index] = p]
  /\ UNCHANGED <<size, overrun>>

\* The slots that arraySetSize clears: to a void** it adds the offset in bytes.
Zeroed(newSize) == PointerSize * size .. PointerSize * size + (newSize - size) - 1

arraySetSize(newSize) ==
  /\ newSize <= size \/ size = 0 \/ Growing
  /\ \/ Fails(newSize, <<"setsize", newSize, -1>>)
     \/ /\ newSize > size /\ newSize <= MaxCapacity
        /\ \E memory \in ensureCapacity(newSize) :
           /\ contents' = [i \in DOMAIN memory |->
                             IF i \in Zeroed(newSize) THEN NULL ELSE memory[i]]
           /\ overrun' = (overrun \/ ~(Zeroed(newSize) \subseteq DOMAIN memory))
        /\ size' = newSize
        /\ result' = <<"setsize", newSize, 0>>
     \/ /\ newSize <= size
        /\ size' = newSize
        /\ result' = <<"setsize", newSize, 0>>
        /\ UNCHANGED <<contents, overrun>>

arraySize == result' = <<"size", size>> /\ UNCHANGED <<contents, size, overrun>>

Next ==
  \/ arraySize
  \/ \E p \in Pointers : arrayAdd(p)
  \/ \E index \in DOMAIN contents :
       \/ arrayGet(index) \/ arrayRemove(index)
       \/ \E p \in Pointers : arraySet(index, p)
  \/ \E newSize \in Sizes : arraySetSize(newSize)

Spec == Init /\ [][Next]_vars

-----------------------------------------------------------------------------
\* The elements are inside the memory, which never has more slots than
\* MAX_CAPACITY, and nothing is written behind it.
ArrayTypeOK ==
  /\ contents \in [0 .. capacity - 1 -> Pointers \cup {NULL, Junk}]
  /\ capacity <= MaxCapacity
  /\ size \in 0 .. capacity
  /\ ~overrun

\* The list a caller sees.
Service == INSTANCE ArrayService WITH
  list <- [i \in 1 .. size |->
             IF i - 1 \in DOMAIN contents THEN contents[i - 1] ELSE Junk]

\* Every call returns what array.h promises and keeps the other elements, with
\* the memory full, moved or refused, and with old pointers behind the last one.
ImplementsArray == Service!Spec

=============================================================================
