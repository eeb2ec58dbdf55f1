----------------------------- MODULE GameClient -----------------------------
(***************************************************************************)
(* What the page of each client does with the server's responses:          *)
(* handleServerResponse of client/src/Websockts.js, and the game layer of  *)
(* client/src/GameLayer.js that it switches to at the acknowledgment of    *)
(* the login.  A handler that throws a TypeError leaves the page as it is, *)
(* and the response is lost.                                               *)
(* A page is known by its connection; a page that loses it stays as it is  *)
(* and takes its state along to the next one.                              *)
(***************************************************************************)
EXTENDS Integers, Sequences, Functions, Protocol

CONSTANT Clients   \* connections

VARIABLES
  inbox,             \* responses on their way to each client, in order
  m_GameLayer,       \* the game layer has been entered; FALSE is null
  msgProtocolGems,   \* gems of the last scatter
  players,           \* players by id: the object of GameLayer.js
  gems,              \* gems on the layer
  late_errors,       \* history: responses that threw after the layer was entered
  m_wsiSendBinary    \* the page's WebSocket: "this" connection, "next" for one
                     \* that init has made in its place, "none" without a page

page_vars == <<m_GameLayer, msgProtocolGems, players, gems, late_errors>>

\* A player: the steps it has still to make and its position, which is known by
\* the last step made.
Undefined == 0
NaN == -1
NewPlayer == [player_x_r |-> <<>>, x |-> 0]
NoPlayers == [id \in {} |-> NewPlayer]

Init ==
  /\ inbox = [c \in Clients |-> <<>>]
  /\ m_GameLayer = [c \in Clients |-> FALSE]
  /\ msgProtocolGems = [c \in Clients |-> <<>>]
  /\ players = [c \in Clients |-> NoPlayers]
  /\ gems = [c \in Clients |-> <<>>]
  /\ late_errors = [c \in Clients |-> {}]
  /\ m_wsiSendBinary = [c \in Clients |-> "this"]

-----------------------------------------------------------------------------
(***************************************************************************)
(* handleServerResponse: one action per case of its switch.                *)
(***************************************************************************)

\* onmessage takes the oldest response.
Response(c) == Head(inbox[c])
Receives(c, status) ==
  /\ inbox[c] # <<>> /\ Response(c).status = status
  /\ inbox' = [inbox EXCEPT ![c] = Tail(@)]

\* case 7: the gems wait for the layer to be entered.
TakeGems(c) ==
  /\ Receives(c, GEM_SCATTER)
  /\ msgProtocolGems' = [msgProtocolGems EXCEPT ![c] = Response(c).gems]
  /\ UNCHANGED <<m_GameLayer, players, gems, late_errors>>

\* Mutant of PlayersOf: the players of the response are left out.
NoPlayersOf(m) == [id \in {} |-> NewPlayer]

\* A sprite for every player in the response.
PlayersOf(m) == [id \in m.players |-> NewPlayer]

\* case 1: switchToGame, and through it onEnter of the game layer, which adds the
\* players of the response and the gems.  A page that has switched already has
\* no parent left to switch.
switchToGame(c) ==
  /\ Receives(c, LOGIN_ACK)
  /\ IF m_GameLayer[c]
     THEN /\ late_errors' = [late_errors EXCEPT ![c] = @ \cup {LOGIN_ACK}]
          /\ UNCHANGED <<m_GameLayer, players, gems>>
     ELSE /\ m_GameLayer' = [m_GameLayer EXCEPT ![c] = TRUE]
          /\ players' = [players EXCEPT ![c] = PlayersOf(Response(c))]
          /\ gems' = [gems EXCEPT ![c] = @ \o msgProtocolGems[c]]
          /\ UNCHANGED late_errors
  /\ UNCHANGED msgProtocolGems

\* Cases 3 to 6 before the layer is entered: a method of null is called.
NoLayerYet(c) ==
  /\ ~m_GameLayer[c]
  /\ \E status \in {MOVE_ACK, OTHER_LOGIN, OTHER_MOVE, LEFT} : Receives(c, status)
  /\ UNCHANGED page_vars

LayerReceives(c, status) == m_GameLayer[c] /\ Receives(c, status)

\* case 3: syncPlayerActions compares with the history and keeps nothing, but
\* takes the length of a player_seq that a gem acknowledgment has not got.
syncPlayerActions(c) ==
  /\ LayerReceives(c, MOVE_ACK)
  /\ IF Response(c).collision_status = GEM_ACK
     THEN late_errors' = [late_errors EXCEPT ![c] = @ \cup {GEM_ACK}]
     ELSE UNCHANGED late_errors
  /\ UNCHANGED <<m_GameLayer, msgProtocolGems, players, gems>>

\* case 4: a new sprite, which takes the place in `players' of one that the
\* player may have had.
AddOtherPlayerOnRegister(c) ==
  /\ LayerReceives(c, OTHER_LOGIN)
  /\ LET id == Response(c).player_id IN
     players' = [players EXCEPT ![c] =
       [j \in DOMAIN @ \cup {id} |-> IF j = id THEN NewPlayer ELSE @[j]]]
  /\ UNCHANGED <<m_GameLayer, msgProtocolGems, gems, late_errors>>

\* The steps that concat appends to a queue: a gem acknowledgment has none.
Steps(m) == IF m.collision_status = GEM_ACK THEN <<Undefined>> ELSE m.player_seq

\* case 5.
updateOtherPlayerOnMovment(c) ==
  /\ LayerReceives(c, OTHER_MOVE)
  /\ LET id == Response(c).player_id IN
     IF id \in DOMAIN players[c]
     THEN /\ players' = [players EXCEPT ![c][id].player_x_r = @ \o Steps(Response(c))]
          /\ UNCHANGED late_errors
     ELSE /\ late_errors' = [late_errors EXCEPT ![c] = @ \cup {OTHER_MOVE}]
          /\ UNCHANGED players
  /\ UNCHANGED <<m_GameLayer, msgProtocolGems, gems>>

\* case 6: the sprite that `players' holds is removed.
deletePlayer(c) ==
  /\ LayerReceives(c, LEFT)
  /\ players' = [players EXCEPT ![c] =
       Restrict(@, DOMAIN @ \ {Response(c).player_id})]
  /\ UNCHANGED <<m_GameLayer, msgProtocolGems, gems, late_errors>>

handleServerResponse(c) ==
  \/ TakeGems(c)
  \/ switchToGame(c)
  \/ NoLayerYet(c)
  \/ syncPlayerActions(c)
  \/ AddOtherPlayerOnRegister(c)
  \/ updateOtherPlayerOnMovment(c)
  \/ deletePlayer(c)

-----------------------------------------------------------------------------
(***************************************************************************)
(* gameLoop, once a frame when the layer has been entered.                 *)
(***************************************************************************)

\* Every other player makes the oldest step of its queue; NaN plus anything is NaN.
Moved(x, step) == IF x = NaN \/ step = Undefined THEN NaN ELSE step
Stepped(p) ==
  IF p.player_x_r = <<>> THEN p
  ELSE [player_x_r |-> Tail(p.player_x_r), x |-> Moved(p.x, Head(p.player_x_r))]
OthersStep(c) ==
  players' = [players EXCEPT ![c] = [id \in DOMAIN @ |-> Stepped(@[id])]]

\* A frame in which the client's own player stands.
IdleFrame(c) ==
  /\ m_GameLayer[c]
  /\ \E id \in DOMAIN players[c] : players[c][id].player_x_r # <<>>
  /\ OthersStep(c)
  /\ UNCHANGED <<inbox, m_GameLayer, msgProtocolGems, gems, late_errors>>

\* A gem the client's own player runs into leaves the layer.
Collided(c) == gems' = [gems EXCEPT ![c] = Tail(@)]

\* A frame in which it moves.
MovingFrame(c, hit) ==
  /\ m_GameLayer[c]
  /\ OthersStep(c)
  /\ IF hit
     THEN gems[c] # <<>> /\ Collided(c)
     ELSE UNCHANGED gems
  /\ UNCHANGED <<inbox, m_GameLayer, msgProtocolGems, late_errors>>

-----------------------------------------------------------------------------
(***************************************************************************)
(* The end of a connection, which the page takes no notice of.             *)
(***************************************************************************)

\* The user closes the page.
Gone(c) ==
  /\ m_GameLayer' = [m_GameLayer EXCEPT ![c] = FALSE]
  /\ msgProtocolGems' = [msgProtocolGems EXCEPT ![c] = <<>>]
  /\ players' = [players EXCEPT ![c] = NoPlayers]
  /\ gems' = [gems EXCEPT ![c] = <<>>]
  /\ m_wsiSendBinary' = [m_wsiSendBinary EXCEPT ![c] = "none"]
  /\ UNCHANGED late_errors

\* sendMassage over a connection that has ended: the message is dropped and init
\* makes a new WebSocket, in place of one that may still be connecting.
init(c) ==
  /\ m_wsiSendBinary[c] # "none"
  /\ m_wsiSendBinary' = [m_wsiSendBinary EXCEPT ![c] = "next"]

\* The login of the menu, or the move of a frame.
Drops(c) ==
  /\ init(c)
  /\ \/ ~m_GameLayer[c] /\ UNCHANGED <<inbox, page_vars>>
     \/ \E hit \in BOOLEAN : MovingFrame(c, hit)

\* The new WebSocket opens as connection d; the page goes on in its scene.
Reopens(c, d) ==
  /\ m_wsiSendBinary[c] = "next"
  /\ m_wsiSendBinary' = [m_wsiSendBinary EXCEPT ![c] = "none"]
  /\ m_GameLayer' = [m_GameLayer EXCEPT ![d] = m_GameLayer[c], ![c] = FALSE]
  /\ msgProtocolGems' = [msgProtocolGems EXCEPT ![d] = msgProtocolGems[c], ![c] = <<>>]
  /\ players' = [players EXCEPT ![d] = players[c], ![c] = NoPlayers]
  /\ gems' = [gems EXCEPT ![d] = gems[c], ![c] = <<>>]
  /\ late_errors' = [late_errors EXCEPT ![d] = late_errors[c], ![c] = {}]
  /\ UNCHANGED inbox

=============================================================================
