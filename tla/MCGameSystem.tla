---------------------------- MODULE MCGameSystem ----------------------------
(***************************************************************************)
(* Instances of GameSystem for TLC.  Neither the server nor a page ever    *)
(* compares two connections, nor one position of a gem with another.       *)
(***************************************************************************)
EXTENDS GameSystem, TLC

SystemSymmetry == Permutations(Sessions) \cup Permutations(GemPos)

=============================================================================
