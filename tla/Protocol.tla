------------------------------ MODULE Protocol ------------------------------
(***************************************************************************)
(* The status numbers on which server and client agree, by the list in     *)
(* client/src/Protocol.js.                                                 *)
(***************************************************************************)

LOGIN == 0
LOGIN_ACK == 1
MOVE == 2
MOVE_ACK == 3
OTHER_LOGIN == 4
OTHER_MOVE == 5
LEFT == 6
GEM_SCATTER == 7
GEM_EAT == 8
GEM_ACK == 9

=============================================================================
