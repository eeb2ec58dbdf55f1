----------------------------- MODULE GameService ----------------------------
(***************************************************************************)
(* What the game server promises to players that log in once: who is       *)
(* online, whom each page has been told of and which moves have been       *)
(* relayed.  No requests, ticks or session fields: a player joins, is      *)
(* announced once to all who are connected, makes moves that are relayed   *)
(* in order, in batches and perhaps not all of them, and leaves.           *)
(***************************************************************************)
EXTENDS Naturals

CONSTANT Players   \* one for each connection

VARIABLES
  conn,        \* "new", "open" or "closed"
  id,          \* 0 before the player joins
  issued,      \* the last id given to a player
  online,      \* ids of the players that have joined
  announced,   \* players the others have been told of
  roster,      \* ids each connected player has been told of
  made,        \* moves made
  relayed      \* the last move relayed

vars == <<conn, id, issued, online, announced, roster, made, relayed>>

Init ==
  /\ conn = [p \in Players |-> "new"]
  /\ id = [p \in Players |-> 0]
  /\ issued = 1
  /\ online = {}
  /\ announced = {}
  /\ roster = [p \in Players |-> {}]
  /\ made = [p \in Players |-> 0]
  /\ relayed = [p \in Players |-> 0]

Connect(p) ==
  /\ conn[p] = "new"
  /\ conn' = [conn EXCEPT ![p] = "open"]
  /\ UNCHANGED <<id, issued, online, announced, roster, made, relayed>>

\* The player gets an id that nobody has had.
Join(p) ==
  /\ conn[p] = "open" /\ id[p] = 0
  /\ issued' = issued + 1
  /\ id' = [id EXCEPT ![p] = issued + 1]
  /\ online' = online \cup {issued + 1}
  /\ UNCHANGED <<conn, announced, roster, made, relayed>>

In(p) == conn[p] = "open" /\ id[p] # 0

\* Once for each player, which may have been lost since: it is told of all who
\* are online and all who are connected are told of it, at the same time.
Announce(p) ==
  /\ id[p] \in online /\ p \notin announced
  /\ announced' = announced \cup {p}
  /\ roster' = [q \in Players |->
       IF ~In(q) THEN roster[q]
       ELSE roster[q] \cup (IF q = p THEN online \ {id[p]} ELSE {id[p]})]
  /\ UNCHANGED <<conn, id, issued, online, made, relayed>>

Play(p) ==
  /\ conn[p] = "open"
  /\ made' = [made EXCEPT ![p] = @ + 1]
  /\ UNCHANGED <<conn, id, issued, online, announced, roster, relayed>>

\* A batch of moves later than any before it, of a player that is known.
Relay(p) ==
  /\ id[p] \in online /\ p \in announced
  /\ \E n \in relayed[p] + 1 .. made[p] : relayed' = [relayed EXCEPT ![p] = n]
  /\ UNCHANGED <<conn, id, issued, online, announced, roster, made>>

\* The player says goodbye: it is forgotten everywhere.
Leave(p) ==
  /\ conn[p] = "open"
  /\ conn' = [conn EXCEPT ![p] = "closed"]
  /\ online' = online \ {id[p]}
  /\ roster' = [q \in Players |-> IF q = p THEN {} ELSE roster[q] \ {id[p]}]
  /\ UNCHANGED <<id, issued, announced, made, relayed>>

\* Its connection is lost: it stays online, and nobody is told.
Lose(p) ==
  /\ conn[p] = "open"
  /\ conn' = [conn EXCEPT ![p] = "closed"]
  /\ roster' = [roster EXCEPT ![p] = {}]
  /\ UNCHANGED <<id, issued, online, announced, made, relayed>>

Next ==
  \E p \in Players :
    \/ Connect(p) \/ Join(p) \/ Announce(p)
    \/ Play(p) \/ Relay(p)
    \/ Leave(p) \/ Lose(p)

Spec == Init /\ [][Next]_vars

=============================================================================
