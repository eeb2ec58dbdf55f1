---------------------------- MODULE MCJsonItems ----------------------------
(***************************************************************************)
(* JsonItems for TLC: blocks of the heap are interchangeable.              *)
(***************************************************************************)
EXTENDS JsonItems

Interchangeable == Permutations(Items)

=============================================================================
