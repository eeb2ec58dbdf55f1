---------------------------- MODULE MCGameServer ----------------------------
(***************************************************************************)
(* Instances of GameServer for TLC.  The connections are interchangeable:  *)
(* the server never compares two of them, and neither do the invariants.   *)
(***************************************************************************)
EXTENDS GameServerService, TLC

SessionSymmetry == Permutations(Sessions)

=============================================================================
