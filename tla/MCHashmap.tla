------------------------------ MODULE MCHashmap ------------------------------
(***************************************************************************)
(* An instance of Hashmap for TLC: keys whose hashes share the low bits,   *)
(* so that a doubling splits some chains and keeps others.                 *)
(***************************************************************************)
EXTENDS Hashmap, TLC

CONSTANTS k1, k2, k3, k4

MCKeys == {k1, k2, k3, k4}
MChash == (k1 :> 0) @@ (k2 :> 2) @@ (k3 :> 8) @@ (k4 :> 5)

=============================================================================
