----------------------------- MODULE GameSystem -----------------------------
(***************************************************************************)
(* The game: the server of GameServer and the page that each connection    *)
(* comes from, by GameClient, joined by the responses under way.  The      *)
(* server's sends (game_handler.c) are added to what GameServer does, and  *)
(* moves come from the frames of the page.  A request reaches the server   *)
(* when it is sent; a response waits in order until the page takes it, or  *)
(* is lost with the connection.  A connection ends for both of its ends in *)
(* one step; the page that has lost it goes on and makes another.          *)
(***************************************************************************)
EXTENDS GameServer

VARIABLES inbox, m_GameLayer, msgProtocolGems, players, gems, late_errors,
          m_wsiSendBinary

page_vars == <<m_GameLayer, msgProtocolGems, players, gems, late_errors>>

Page == INSTANCE GameClient WITH Clients <- Sessions

system_vars == <<vars, inbox, page_vars, m_wsiSendBinary>>

-----------------------------------------------------------------------------
(***************************************************************************)
(* What the server writes to each connection, in order.                    *)
(***************************************************************************)

\* A response with its status changed for the other players.
WithStatus(m, n) == [m EXCEPT !.status = n]

\* To the session s itself and to the other players, as functions of who reads.
ToSelf(s, m) == [c \in Sessions |-> IF c = s THEN <<m>> ELSE <<>>]
ToOthers(s, m) == [c \in Sessions |-> IF c \in Recipients(s) THEN <<m>> ELSE <<>>]
Then(out1, out2) == [c \in Sessions |-> out1[c] \o out2[c]]
Nothing == [c \in Sessions |-> <<>>]

\* Mutant of RegistrationSent: the acknowledgment carries no player.
RegistrationSentAlone(s) ==
  Then(ToSelf(s, build_gems_scatter_json(s)),
       Then(ToOthers(s, WithStatus(build_player_json_registrator(s), OTHER_LOGIN)),
            ToSelf(s, [status |-> LOGIN_ACK, player_id |-> player_id[s], players |-> {}])))

\* The gems, the new player to the others, and then the acknowledgment with the
\* other players added to it.
RegistrationSent(s) ==
  LET ack == build_player_json_registrator(s)
      others == {player_id[r] : r \in Recipients(s)}
  IN Then(ToSelf(s, build_gems_scatter_json(s)),
          Then(ToOthers(s, WithStatus(ack, OTHER_LOGIN)),
               ToSelf(s, [status |-> ack.status, player_id |-> ack.player_id,
                          players |-> others])))

MovementSent(s) ==
  LET ack == IF collision_status[s] = GEM_EAT
             THEN build_gems_score_json(s) ELSE build_player_json_movment(s)
  IN Then(ToOthers(s, WithStatus(ack, OTHER_MOVE)), ToSelf(s, ack))

\* What the visit of s by the tick writes.
VisitSent(s) ==
  CASE RegistrationDue(s) -> RegistrationSent(s)
    [] MovementDue(s) -> MovementSent(s)
    [] OTHER -> Nothing

\* The last response of s, to the others only: the page of s is closing.
LeaveSent(s) == ToOthers(s, [status |-> LEFT, player_id |-> user_json[s]])

\* Writes go to the connections that are open afterwards; what is under way on a
\* connection that ends, or from a process that faults, is lost.
Deliver(out) ==
  inbox' = [c \in Sessions |->
    IF conn'[c] = "open" /\ ~broken' THEN inbox[c] \o out[c] ELSE <<>>]

-----------------------------------------------------------------------------
(***************************************************************************)
(* The server's actions with what they send, and the pages'.               *)
(***************************************************************************)

SystemInit == Init /\ Page!Init

Quiet == UNCHANGED <<inbox, page_vars, m_wsiSendBinary>>

LoopTick ==
  \/ game_loop_cb /\ Quiet
  \/ \E k \in visiting :
       /\ response_to_client_cp(k)
       /\ Deliver(VisitSent(users_map_main[k]))
       /\ UNCHANGED <<page_vars, m_wsiSendBinary>>
WriteableStep(s) == Writeable(s) /\ Quiet

ServerStep ==
  \/ LoopTick
  \/ \E s \in Sessions : WriteableStep(s) \/ (Established(s) /\ Quiet)

\* The page is closed, with a close frame for its connection.
Closes(s) == PeerInitiatedClose(s) /\ Deliver(LeaveSent(s)) /\ Page!Gone(s)

\* The connection is lost, and the page stays as it is.
Loses(s) ==
  ConnectionLost(s) /\ Deliver(Nothing) /\ UNCHANGED <<page_vars, m_wsiSendBinary>>

\* What the page sends then is lost, until the WebSocket made last is open.
Redials(s) == conn[s] = "closed" /\ Page!Drops(s) /\ UNCHANGED vars
Reconnects(s, t) == conn[s] = "closed" /\ Established(t) /\ Page!Reopens(s, t)

\* Mutant of LogsIn: the menu is still there in the game.
LogsInAnywhere(s) == SendLogin(s) /\ Quiet

\* The menu of Login.js, which the game layer replaces.
LogsIn(s) == ~m_GameLayer[s] /\ SendLogin(s) /\ Quiet

\* A frame in which the player moves, and the request that gameLoop sends.
Moves(s, hit) ==
  /\ moves[s] < MaxMoves /\ burst[s] < Burst
  /\ Page!MovingFrame(s, hit)
  /\ LET eaten == gems_eaten[s] + 1 IN
     IF hit
     THEN /\ Receive(s, MoveRequest(moves[s] + 1, GEM_EAT, <<Head(gems[s])>>, eaten))
          /\ gems_eaten' = [gems_eaten EXCEPT ![s] = eaten]
     ELSE /\ Receive(s, MoveRequest(moves[s] + 1, 0, <<>>, 0))
          /\ UNCHANGED gems_eaten
  /\ moves' = [moves EXCEPT ![s] = @ + 1]
  /\ burst' = [burst EXCEPT ![s] = @ + 1]
  /\ UNCHANGED <<logins, m_wsiSendBinary>>

\* The page takes a response, or draws a frame in which its player stands.
Takes(s) ==
  conn[s] = "open" /\ Page!handleServerResponse(s) /\ UNCHANGED <<vars, m_wsiSendBinary>>
Draws(s) == Page!IdleFrame(s) /\ UNCHANGED <<vars, m_wsiSendBinary>>

PageStep(s) ==
  \/ LogsIn(s) \/ Takes(s) \/ Draws(s)
  \/ \E hit \in BOOLEAN : Moves(s, hit)
  \/ Closes(s) \/ Loses(s)
  \/ Redials(s) \/ \E t \in Sessions : Reconnects(s, t)

SystemNext == ServerStep \/ \E s \in Sessions : PageStep(s)

SystemSpec == SystemInit /\ [][SystemNext]_system_vars

\* The server's loop is fair as in GameServer; what is sent over a connection
\* that stays open arrives, and the page's event loop hands it to onmessage.
FairSystemSpec ==
  /\ SystemSpec
  /\ WF_system_vars(LoopTick)
  /\ \A s \in Sessions : SF_system_vars(WriteableStep(s)) /\ WF_system_vars(Takes(s))

-----------------------------------------------------------------------------
(***************************************************************************)
(* Properties.                                                             *)
(***************************************************************************)

\* The page of s is in the game, over a connection that has logged in.
InGame(s) == Registered(s) /\ m_GameLayer[s]

\* Nothing is under way to s and no registration waits for a tick.
Settled(s) ==
  /\ Idle /\ inbox[s] = <<>>
  /\ \A k \in DOMAIN users_map_main : ~RegistrationDue(users_map_main[k])

\* Whatever the order in which players register, leave and are lost and in which
\* the responses are taken, also those that throw because the game layer is not
\* there yet: a page in the game with nothing under way shows the players that
\* the server has in its users map, and no other.
ScreenShowsPlayers ==
  \A s \in Sessions : InGame(s) /\ Settled(s) =>
    DOMAIN players[s] = DOMAIN users_map_main \ {player_id[s]}

\* Once the game layer is there no response throws but the acknowledgment of a
\* gem, which has no player_seq: no move comes for a player the page does not
\* show, and the layer is entered once.
HandledOnceEntered == \A s \in Sessions : late_errors[s] \subseteq {GEM_ACK}

\* The gems on a page in the game are gems of the server: they are not built
\* again while somebody plays, whoever leaves and whoever is about to register.
GemsAreServers ==
  \A s \in Sessions : InGame(s) => \A i \in 1 .. Len(gems[s]) :
    \E j \in 1 .. Len(gems_array) : gems[s][i] = gems_array[j]

\* On every page the steps of another player are made in the order in which its
\* own page made them and none is made twice; the one thing that moves it to no
\* position at all is a gem it ate.
StepsInOrder ==
  \A s, t \in Sessions : InGame(s) /\ player_id[t] \in DOMAIN players[s] =>
    LET p == players[s][player_id[t]]
        steps == <<p.x>> \o p.player_x_r
    IN /\ \A i, j \in 1 .. Len(steps) :
            i < j /\ steps[i] > 0 /\ steps[j] > 0 => steps[i] < steps[j]
       /\ p.x = Page!NaN \/ (\E i \in 1 .. Len(p.player_x_r) :
            p.player_x_r[i] = Page!Undefined) => gems_eaten[t] > 0

\* Players meet: whichever of the two came first, whatever the page threw away
\* before it was in the game, it comes to show every player that stays, unless
\* one of the two goes or the server comes down.
PlayersMeet ==
  \A s, t \in Sessions : s # t =>
    (InGame(s) /\ Registered(t)) ~>
      (player_id[t] \in DOMAIN players[s] \/ ~InGame(s) \/ ~Registered(t) \/ broken)

\* Pages that take responses late, in the wrong scene and from a server that has
\* lost other players do to the server what GameServer lets clients do, and no
\* more: they move only when registered, and report each gem they were sent once.
PagesPlayByTheRules == Spec

=============================================================================
