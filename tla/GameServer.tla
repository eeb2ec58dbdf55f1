----------------------------- MODULE GameServer -----------------------------
(***************************************************************************)
(* The game server: callback_wsapi, the libwebsockets protocol callback,   *)
(* and game_loop_cb, the 100 ms libuv timer, over the session records and  *)
(* the users map they share (server/game_handler.c), with the responses of *)
(* server/player.c and server/gem.c.                                       *)
(*                                                                         *)
(* One libuv loop runs every callback to its end.  The tick is the one     *)
(* callback split in steps here, one per entry of the users map; no other  *)
(* callback runs while `visiting' is not empty.                            *)
(***************************************************************************)
EXTENDS Integers, Sequences, FiniteSets, KeyMap, Protocol

CONSTANTS
  Sessions,   \* connections: the wsi and the per-session memory that goes with it
  GemPos,     \* positions rand() can give a gem
  SeqLen,     \* SEQ_LEN, the room for moves in a session
  MovesRoom,  \* moves that fit in a response's 1024 bytes
  PlayersRoom,  \* other players that fit in a registration's 1024 bytes
  Crowd,      \* bound: connections open at the same time
  MaxLogins,  \* login requests a client may send on one connection
  MaxMoves,   \* bound: move requests a client sends on one connection
  Burst,      \* move requests a client sends between two ticks
  Mishaps     \* what clients and the network may do besides playing properly

MishapKinds ==
  { "drop",         \* a connection ends without a WebSocket close frame; who
                    \* played over it goes on over another
    "early_close",  \* a client leaves before its first response
    "same_seed" }   \* two calls of generateId read the same clock()

ASSUME ConstantsAssumption ==
  /\ GemPos # {}
  /\ SeqLen \in Nat /\ MovesRoom \in Nat /\ PlayersRoom \in Nat
  /\ Crowd \in Nat /\ MaxLogins \in Nat /\ MaxMoves \in Nat /\ Burst \in Nat
  /\ Mishaps \subseteq MishapKinds

VARIABLES
  broken,            \* a NULL or freed pointer was used, or an array overrun
  conn,              \* connection and life of the session memory
  buf,               \* request_from_client_buf
  writable,          \* lws_callback_on_writable was called
  status,            \* the session's fields, by their names in the source
  done_srv_update,
  player_id,         \* 0 is NULL
  player_seq,        \* the first player_seq_index elements
  collision_status,
  simple_gems,
  score,
  user_json,         \* player_id inside user_json_respose, 0 when that is NULL
  users_map_main,
  gems_array,
  clock,             \* clock(), the seed of generateId
  visiting,          \* keys the running tick has still to visit
  logins, moves, gems_eaten, burst,   \* what the clients have sent
  known,             \* history: the other players each client was told of
  last_relayed,      \* history: last move relayed to other players
  gems_reported      \* history: gems in the last gem acknowledgment

pss_vars == <<status, done_srv_update, player_id, player_seq,
              collision_status, simple_gems, score, user_json>>
net_vars == <<conn, buf, writable>>
client_vars == <<logins, moves, gems_eaten, burst>>
history_vars == <<known, last_relayed, gems_reported>>
vars == <<broken, net_vars, pss_vars, users_map_main, gems_array, clock,
          visiting, client_vars, history_vars>>

-----------------------------------------------------------------------------
(***************************************************************************)
(* Requests and responses.                                                 *)
(***************************************************************************)

\* Requests, as callback_wsapi reads them: stop_player, the x and y steps, the
\* end position and the time stamp are passed through and left out.
LoginRequest == [status |-> LOGIN]
MoveRequest(seq, cs, gems, sc) ==
  [status |-> MOVE, player_seq |-> seq, collision_status |-> cs,
   simple_gems |-> gems, score |-> sc]
NoRequest == [status |-> -1]
Requests ==
  {NoRequest, LoginRequest} \cup
  [status : {MOVE}, player_seq : Nat, collision_status : {0, GEM_EAT},
   simple_gems : Seq(GemPos), score : Nat]

\* Responses, as the session they are about reads them; the other players get
\* the same object with its status changed.
build_gems_scatter_json(s) ==
  [status |-> GEM_SCATTER, player_id |-> player_id[s], gems |-> gems_array]
build_player_json_registrator(s) ==
  [status |-> LOGIN_ACK, player_id |-> player_id[s]]
build_player_json_movment(s) ==
  [status |-> MOVE_ACK, player_id |-> player_id[s], score |-> score[s],
   collision_status |-> collision_status[s], player_seq |-> player_seq[s]]
build_gems_score_json(s) ==
  [status |-> MOVE_ACK, player_id |-> player_id[s], score |-> score[s],
   collision_status |-> GEM_ACK, gems |-> simple_gems[s]]

-----------------------------------------------------------------------------
(***************************************************************************)
(* Helpers.                                                                *)
(***************************************************************************)

\* Between two callbacks of the event loop.
Idle == ~broken /\ visiting = {}

\* The process faults, or its memory no longer is what the source declares.
Break == broken' = TRUE /\
  UNCHANGED <<net_vars, pss_vars, users_map_main, gems_array, clock, visiting,
              client_vars, history_vars>>

\* A pointer to the memory of a connection that has ended is followed.
Freed(S) == \E s \in S : conn[s] = "closed"

\* Mutant of Others: it is nobody's neighbour until there are three entries.
OthersOfThree(s) ==
  IF \E j, k \in DOMAIN users_map_main \ {player_id[s]} : j # k
  THEN DOMAIN users_map_main \ {player_id[s]}
  ELSE {}

\* set_session_holder_data with check_other_users_cp and its three copies: the
\* entries of the users map that are not the current player's, when there are
\* at least two entries.
Others(s) ==
  IF MoreThanOneEntry(users_map_main)
  THEN DOMAIN users_map_main \ {player_id[s]}
  ELSE {}
Recipients(s) == {users_map_main[k] : k \in Others(s)}

\* generate_random_gems(n, SIMPLE) adds n gems at random positions.
generate_random_gems(gems, n) == {gems \o new : new \in [1 .. n -> GemPos]}
scatter_gems(gems) == generate_random_gems(gems, 1)

\* The clock() values generateId can see after the last one it saw.
ClockSteps == IF "same_seed" \in Mishaps THEN {0, 1} ELSE {1}

\* Mutants of send_response_to_current_player: it forgets player_seq_index, puts
\* it back to the last element instead of before the first, or leaves the
\* collision_status that the response was built with.
ForgetsIndex(s) ==
  /\ collision_status' = [collision_status EXCEPT ![s] = 0]
  /\ UNCHANGED player_seq
KeepsLastMove(s) ==
  /\ player_seq' = [player_seq EXCEPT ![s] = IF @ = <<>> THEN @ ELSE <<@[Len(@)]>>]
  /\ collision_status' = [collision_status EXCEPT ![s] = 0]
ForgetsCollision(s) ==
  /\ player_seq' = [player_seq EXCEPT ![s] = <<>>]
  /\ collision_status' =
       [collision_status EXCEPT ![s] = IF @ = GEM_EAT THEN GEM_ACK ELSE @]

\* The reset at the end of send_response_to_current_player.
send_response_to_current_player(s) ==
  /\ player_seq' = [player_seq EXCEPT ![s] = <<>>]
  /\ collision_status' = [collision_status EXCEPT ![s] = 0]

\* Mutant of MovementDue: a move that ran into a gem is not looked at.
MovementDueNoGem(s) ==
  status[s] = MOVE /\ done_srv_update[s] /\ collision_status[s] = 0

\* Mutant of RegistrationDue: an acknowledged registration is still one.
RegistrationDueAgain(s) == status[s] \in {LOGIN, LOGIN_ACK} /\ done_srv_update[s]

RegistrationDue(s) == status[s] = LOGIN /\ done_srv_update[s]
MovementDue(s) == status[s] = MOVE /\ done_srv_update[s]

\* send_response_to_current_player and send_response print a response of any
\* length into 1024 bytes.  What makes it long are the other players in a
\* registration and the queued moves in a move; the gems are too few to matter.
ResponseOverruns(s) ==
  \/ RegistrationDue(s) /\ Cardinality(Others(s)) > PlayersRoom
  \/ MovementDue(s) /\ collision_status[s] # GEM_EAT /\ Len(player_seq[s]) > MovesRoom

\* The players a registration makes a client add (responses 1 and 4).
Told(r, s) ==
  (IF r \in Recipients(s) THEN {player_id[s]} ELSE {}) \cup
  (IF r = s THEN {player_id[users_map_main[k]] : k \in Others(s)} ELSE {})

-----------------------------------------------------------------------------
(***************************************************************************)
(* Initial state: the server after LWS_CALLBACK_PROTOCOL_INIT, which has   *)
(* scattered the gems and armed the timer, before the first connection.    *)
(***************************************************************************)
Init ==
  /\ broken = FALSE
  /\ conn = [s \in Sessions |-> "new"]
  /\ buf = [s \in Sessions |-> NoRequest]
  /\ writable = [s \in Sessions |-> FALSE]
  /\ status = [s \in Sessions |-> 0]
  /\ done_srv_update = [s \in Sessions |-> FALSE]
  /\ player_id = [s \in Sessions |-> 0]
  /\ player_seq = [s \in Sessions |-> <<>>]
  /\ collision_status = [s \in Sessions |-> 0]
  /\ simple_gems = [s \in Sessions |-> <<>>]
  /\ score = [s \in Sessions |-> 0]
  /\ user_json = [s \in Sessions |-> 0]
  /\ users_map_main = EmptyMap
  /\ gems_array \in scatter_gems(<<>>)
  /\ clock = 1
  /\ visiting = {}
  /\ logins = [s \in Sessions |-> 0]
  /\ moves = [s \in Sessions |-> 0]
  /\ gems_eaten = [s \in Sessions |-> 0]
  /\ burst = [s \in Sessions |-> 0]
  /\ known = [s \in Sessions |-> {}]
  /\ last_relayed = [s \in Sessions |-> 0]
  /\ gems_reported = [s \in Sessions |-> 0]

-----------------------------------------------------------------------------
(***************************************************************************)
(* callback_wsapi: connections and requests.                               *)
(***************************************************************************)

Open == {s \in Sessions : conn[s] = "open"}

\* LWS_CALLBACK_ESTABLISHED.
Established(s) ==
  /\ Idle
  /\ conn[s] = "new" /\ Cardinality(Open) < Crowd
  /\ conn' = [conn EXCEPT ![s] = "open"]
  /\ player_seq' = [player_seq EXCEPT ![s] = <<>>]
  /\ simple_gems' = [simple_gems EXCEPT ![s] = <<>>]
  /\ score' = [score EXCEPT ![s] = 0]
  /\ UNCHANGED <<broken, buf, writable, status, done_srv_update, player_id,
                 collision_status, user_json, users_map_main, gems_array,
                 clock, visiting, client_vars, history_vars>>

\* Mutant of Receive: lws_callback_on_writable is not called.
ReceiveOnly(s, m) ==
  /\ Idle
  /\ conn[s] = "open"
  /\ buf' = [buf EXCEPT ![s] = m]
  /\ UNCHANGED <<broken, conn, writable, pss_vars, users_map_main, gems_array,
                 clock, visiting, history_vars>>

\* LWS_CALLBACK_RECEIVE: the request replaces the one in the buffer, whether
\* or not LWS_CALLBACK_SERVER_WRITEABLE has come for it.
Receive(s, m) ==
  /\ Idle
  /\ conn[s] = "open"
  /\ buf' = [buf EXCEPT ![s] = m]
  /\ writable' = [writable EXCEPT ![s] = TRUE]
  /\ UNCHANGED <<broken, conn, pss_vars, users_map_main, gems_array, clock,
                 visiting, history_vars>>

\* Login.js sends a login before the game starts.
SendLogin(s) ==
  /\ logins[s] < MaxLogins /\ moves[s] = 0
  /\ Receive(s, LoginRequest)
  /\ logins' = [logins EXCEPT ![s] = @ + 1]
  /\ UNCHANGED <<moves, gems_eaten, burst>>

\* A player whose connection has ended without a goodbye.
LostInGame(r) == conn[r] = "closed" /\ status[r] # LEFT /\ user_json[r] # 0

\* GameLayer.js is entered at the registration's response and then sends moves;
\* after sendMassage has replaced a lost connection it goes on over the new one,
\* without another login.
Playing(s) ==
  \/ user_json[s] # 0
  \/ logins[s] = 0 /\ \E r \in Sessions : LostInGame(r)

\* gameLoop: a numbered move, which also reports the gem it ran into, if any.
\* A client runs into each gem it was sent once, as it then deletes the gem.
SendMove(s, hit) ==
  /\ Playing(s) /\ moves[s] < MaxMoves /\ burst[s] < Burst
  /\ hit => gems_eaten[s] < Len(gems_array)
  /\ LET eaten == gems_eaten[s] + 1 IN
     IF hit
     THEN /\ Receive(s, MoveRequest(moves[s] + 1, GEM_EAT, <<gems_array[eaten]>>, eaten))
          /\ gems_eaten' = [gems_eaten EXCEPT ![s] = eaten]
     ELSE /\ Receive(s, MoveRequest(moves[s] + 1, 0, <<>>, 0))
          /\ UNCHANGED gems_eaten
  /\ moves' = [moves EXCEPT ![s] = @ + 1]
  /\ burst' = [burst EXCEPT ![s] = @ + 1]
  /\ UNCHANGED logins

\* LWS_CALLBACK_SERVER_WRITEABLE with a request of the given status.
ServerWriteable(s, request) ==
  /\ Idle
  /\ conn[s] = "open" /\ writable[s]
  /\ buf[s].status = request

\* case 0.  generateId seeds rand() with clock(): its value depends on nothing else.
Registration(s) ==
  /\ ServerWriteable(s, LOGIN)
  /\ writable' = [writable EXCEPT ![s] = FALSE]
  /\ \E d \in ClockSteps :
       /\ clock' = clock + d
       /\ player_id' = [player_id EXCEPT ![s] = clock + d]
       /\ users_map_main' = hashmapPut(users_map_main, clock + d, s)
  /\ status' = [status EXCEPT ![s] = LOGIN]
  /\ done_srv_update' = [done_srv_update EXCEPT ![s] = TRUE]
  /\ UNCHANGED <<broken, conn, buf, player_seq, collision_status, simple_gems,
                 score, user_json, gems_array, visiting, client_vars,
                 history_vars>>

\* hashmapPut gives NULL when the key is new, and what it gives is followed.
PutReturnsNull(s) == ~hashmapContainsKey(users_map_main, player_id[s])

\* case 2.  The three arrays are written at player_seq_index without a look at
\* their length: behind their end the write is undefined, and the model stops.
Movement(s) ==
  /\ ServerWriteable(s, MOVE)
  /\ \/ PutReturnsNull(s) /\ Break
     \/ Len(player_seq[s]) >= SeqLen /\ Break
     \/ ~PutReturnsNull(s) /\ Freed({users_map_main[player_id[s]]}) /\ Break
     \/ LET m == buf[s] IN
        /\ ~PutReturnsNull(s) /\ Len(player_seq[s]) < SeqLen
        /\ writable' = [writable EXCEPT ![s] = FALSE]
        /\ collision_status' = [collision_status EXCEPT ![s] = m.collision_status]
        /\ player_seq' = [player_seq EXCEPT ![s] = Append(@, m.player_seq)]
        /\ status' = [status EXCEPT ![s] = MOVE]
        /\ IF m.collision_status = GEM_EAT
           THEN /\ simple_gems' = [simple_gems EXCEPT ![s] = @ \o m.simple_gems]
                /\ score' = [score EXCEPT ![s] = m.score]
           ELSE UNCHANGED <<simple_gems, score>>
        /\ done_srv_update' = [done_srv_update EXCEPT ![s] = TRUE]
        /\ users_map_main' = hashmapPut(users_map_main, player_id[s], s)
        /\ UNCHANGED <<broken, conn, buf, player_id, user_json, gems_array,
                       clock, visiting, client_vars, history_vars>>

-----------------------------------------------------------------------------
(***************************************************************************)
(* The tick: game_loop_cb and, per entry of the users map,                 *)
(* response_to_client_cp.                                                  *)
(***************************************************************************)

\* game_loop_cb, every 100 ms: hashmapForEach over what is in the map.
game_loop_cb ==
  /\ Idle
  /\ users_map_main # EmptyMap
  /\ visiting' = DOMAIN users_map_main
  /\ UNCHANGED <<broken, net_vars, pss_vars, users_map_main, gems_array, clock,
                 client_vars, history_vars>>

\* status 0: the gems and then the acknowledgment, with the other players, to
\* the session; the session to the other players.
RegistrationReply(s) ==
  /\ RegistrationDue(s)
  /\ status' = [status EXCEPT ![s] = LOGIN_ACK]
  /\ send_response_to_current_player(s)
  /\ user_json' = [user_json EXCEPT ![s] = build_player_json_registrator(s).player_id]
  /\ known' = [r \in Sessions |-> known[r] \cup Told(r, s)]
  /\ UNCHANGED <<last_relayed, gems_reported>>

\* status 2: the queued moves or, for a player that ran into a gem, the gems
\* and the score, which carry no moves.
MovementReply(s) ==
  /\ MovementDue(s)
  /\ status' = [status EXCEPT ![s] = MOVE_ACK]
  /\ send_response_to_current_player(s)
  /\ IF collision_status[s] = GEM_EAT
     THEN LET reply == build_gems_score_json(s) IN
          /\ user_json' = [user_json EXCEPT ![s] = reply.player_id]
          /\ gems_reported' = [gems_reported EXCEPT ![s] = Len(reply.gems)]
          /\ UNCHANGED last_relayed
     ELSE LET reply == build_player_json_movment(s) IN
          /\ user_json' = [user_json EXCEPT ![s] = reply.player_id]
          /\ last_relayed' = [last_relayed EXCEPT ![s] =
               reply.player_seq[Len(reply.player_seq)]]
          /\ UNCHANGED gems_reported
  /\ UNCHANGED known

NothingDue(s) ==
  /\ ~RegistrationDue(s) /\ ~MovementDue(s)
  /\ UNCHANGED <<status, player_seq, collision_status, user_json, history_vars>>

\* The sessions whose memory or connection the visit of s uses.
Visited(s) ==
  {s} \cup IF RegistrationDue(s) \/ MovementDue(s) THEN Recipients(s) ELSE {}

response_to_client_cp(k) ==
  LET s == users_map_main[k] IN
  /\ ~broken /\ k \in visiting
  /\ \/ Freed(Visited(s)) /\ Break
     \/ ResponseOverruns(s) /\ Break
     \/ /\ ~ResponseOverruns(s)
        /\ visiting' = visiting \ {k}
        /\ RegistrationReply(s) \/ MovementReply(s) \/ NothingDue(s)
        /\ burst' = [burst EXCEPT ![s] = 0]
        /\ UNCHANGED <<broken, net_vars, done_srv_update, player_id, simple_gems,
                       score, users_map_main, gems_array, clock, logins, moves,
                       gems_eaten>>

-----------------------------------------------------------------------------
(***************************************************************************)
(* The end of a connection.                                                *)
(***************************************************************************)

\* Leaving needs, for the other players, the id of s (user_is_dead_cp) and its
\* last response; printing that response for s itself may survive without one.
CloseFaults(s) ==
  MoreThanOneEntry(users_map_main) /\ (player_id[s] = 0 \/ user_json[s] = 0)
CloseMayFault(s) == CloseFaults(s) \/ user_json[s] = 0 \/ Freed(Recipients(s))

\* Mutant of Leave: the others are looked up after the entry's removal.
LeaveAfterRemove(s) ==
  [r \in Sessions |->
    IF /\ MoreThanOneEntry(hashmapRemove(users_map_main, player_id[s]))
       /\ r \in Recipients(s)
    THEN known[r] \ {user_json[s]}
    ELSE known[r]]

\* The other players are sent the last response of s with status 6, at which
\* their clients delete the player it names.
Leave(s) ==
  [r \in Sessions |->
    IF r \in Recipients(s) THEN known[r] \ {user_json[s]} ELSE known[r]]

\* Mutant of NobodyIn: the limit is one too high.
AtMostOneIn(m) == ~MoreThanOneEntry(m)

\* Nobody is left for whom the gems must stay.
NobodyIn(m) == m = EmptyMap

\* LWS_CALLBACK_WS_PEER_INITIATED_CLOSE; libwebsockets then closes the
\* connection and frees the session memory.
PeerInitiatedClose(s) ==
  /\ Idle
  /\ conn[s] = "open"
  /\ user_json[s] # 0 \/ "early_close" \in Mishaps
  /\ \/ CloseMayFault(s) /\ Break
     \/ /\ ~CloseFaults(s)
        /\ status' = [status EXCEPT ![s] = LEFT]
        /\ known' = Leave(s)
        /\ users_map_main' = hashmapRemove(users_map_main, player_id[s])
        /\ IF NobodyIn(users_map_main')
           THEN gems_array' \in scatter_gems(<<>>)
           ELSE UNCHANGED gems_array
        /\ conn' = [conn EXCEPT ![s] = "closed"]
        /\ writable' = [writable EXCEPT ![s] = FALSE]
        /\ UNCHANGED <<broken, buf, done_srv_update, player_id, player_seq,
                       collision_status, simple_gems, score, user_json, clock,
                       visiting, client_vars, last_relayed, gems_reported>>

\* A connection that ends in another way: LWS_CALLBACK_CLOSED falls under
\* `default:', and libwebsockets frees the session memory.
ConnectionLost(s) ==
  /\ Idle
  /\ conn[s] = "open" /\ "drop" \in Mishaps
  /\ conn' = [conn EXCEPT ![s] = "closed"]
  /\ writable' = [writable EXCEPT ![s] = FALSE]
  /\ UNCHANGED <<broken, buf, pss_vars, users_map_main, gems_array, clock,
                 visiting, client_vars, history_vars>>

-----------------------------------------------------------------------------
Client(s) ==
  \/ Established(s)
  \/ SendLogin(s)
  \/ \E hit \in BOOLEAN : SendMove(s, hit)
  \/ PeerInitiatedClose(s)
  \/ ConnectionLost(s)

Writeable(s) == Registration(s) \/ Movement(s)

Tick == game_loop_cb \/ \E k \in visiting : response_to_client_cp(k)

Next == Tick \/ \E s \in Sessions : Client(s) \/ Writeable(s)

Spec == Init /\ [][Next]_vars

\* The timer fires every 100 ms and a tick runs to its end; every iteration of
\* the loop also polls the sockets, so ticks cannot hold back for ever the
\* writable callback that a request has asked for.
Fairness ==
  /\ WF_vars(Tick)
  /\ \A s \in Sessions : SF_vars(Writeable(s))

FairSpec == Spec /\ Fairness

-----------------------------------------------------------------------------
(***************************************************************************)
(* Properties.                                                             *)
(***************************************************************************)

NetTypeOK ==
  /\ broken \in BOOLEAN
  /\ conn \in [Sessions -> {"new", "open", "closed"}]
  /\ buf \in [Sessions -> Requests]
  /\ writable \in [Sessions -> BOOLEAN]

PssTypeOK ==
  /\ status \in [Sessions -> {LOGIN, LOGIN_ACK, MOVE, MOVE_ACK, LEFT}]
  /\ done_srv_update \in [Sessions -> BOOLEAN]
  /\ player_id \in [Sessions -> 0 .. clock]
  /\ player_seq \in [Sessions -> Seq(Nat)]
  /\ collision_status \in [Sessions -> {0, GEM_EAT}]
  /\ simple_gems \in [Sessions -> Seq(GemPos)]
  /\ score \in [Sessions -> Nat]
  /\ user_json \in [Sessions -> 0 .. clock]

GameTypeOK ==
  /\ clock \in Nat \ {0}
  /\ DOMAIN users_map_main \subseteq 1 .. clock
  /\ users_map_main \in [DOMAIN users_map_main -> Sessions]
  /\ gems_array \in Seq(GemPos)
  /\ visiting \subseteq DOMAIN users_map_main

ClientTypeOK ==
  /\ logins \in [Sessions -> Nat]
  /\ moves \in [Sessions -> Nat]
  /\ gems_eaten \in [Sessions -> Nat]
  /\ burst \in [Sessions -> Nat]

HistoryTypeOK ==
  /\ known \in [Sessions -> SUBSET (0 .. clock)]
  /\ last_relayed \in [Sessions -> Nat]
  /\ gems_reported \in [Sessions -> Nat]

\* The values of the state; above all, that no request finds a status or a
\* collision_status that only a response has, that every id and every key is one
\* generateId has given out and that the tick visits only entries of the map.
TypeOK ==
  NetTypeOK /\ PssTypeOK /\ GameTypeOK /\ ClientTypeOK /\ HistoryTypeOK

Registered(s) == conn[s] = "open" /\ player_id[s] # 0

\* game_handler.c:387, "set the user in the users repostory on succesfull
\* registretion": a connected player is found in the users map under the id it
\* has, also after a second login, so that every tick visits it and every other
\* player's news reaches it.
RegisteredReachable ==
  \A s \in Sessions : Registered(s) =>
    /\ player_id[s] \in DOMAIN users_map_main
    /\ users_map_main[player_id[s]] = s

\* Of two players that both had their registration announced, each client knows
\* the other's current id, in whatever order their registrations, the entries
\* of the tick and the departures of others came.
RosterComplete ==
  \A s, t \in Sessions :
    Registered(s) /\ Registered(t) /\ s # t
      /\ user_json[s] = player_id[s] /\ user_json[t] = player_id[t]
    => player_id[t] \in known[s] /\ player_id[s] \in known[t]

\* No client is left with a player that the server has forgotten.
NoGhosts ==
  \A s \in Sessions : conn[s] = "open" => known[s] \subseteq DOMAIN users_map_main

\* A session has moves to publish exactly when the next tick is due to look at
\* them, or the registration that discards them.
PendingMovesQueued ==
  \A s \in Sessions : conn[s] = "open" =>
    /\ player_seq[s] # <<>> => RegistrationDue(s) \/ MovementDue(s)
    /\ MovementDue(s) => player_seq[s] # <<>>

\* The moves a session keeps for the tick are in the order the client made
\* them and none of them has been published before.
MovesRelayedOnce ==
  \A s \in Sessions : \A i \in 1 .. Len(player_seq[s]) :
    /\ player_seq[s][i] > last_relayed[s]
    /\ \A j \in 1 .. i - 1 : player_seq[s][j] < player_seq[s][i]

\* The moves of a session waiting for a tick, the one in the buffer included,
\* are those sent since its last visit and at most one from before it: with
\* fewer than SEQ_LEN moves from tick to tick player_seq cannot overflow.
PendingMove(s) == writable[s] /\ buf[s].status = MOVE
PendingBound ==
  \A s \in Sessions : conn[s] = "open" =>
    Len(player_seq[s]) + (IF PendingMove(s) THEN 1 ELSE 0) <= burst[s] + 1

\* Players that log in once, play over the connection they logged in on and say
\* goodbye cannot bring the server down, if their moves of a tick and one fit in
\* player_seq and in a response, and all who play at a time in a registration.
Roomy ==
  /\ MaxLogins = 1
  /\ Burst < SeqLen /\ Burst < MovesRoom
  /\ Crowd <= PlayersRoom + 1
Polite == Mishaps = {} /\ Roomy
NoCrash == Polite => ~broken

\* With such players that also lose connections, go on over new ones without a
\* login and leave at any time, the server goes down for two reasons only: an
\* entry or a page has been left behind by a lost connection (game_handler.c:602),
\* or, outside of a tick, there is a player that has not been answered, for whom
\* the close handler has no response to send (game_handler.c:528-547).
LeftBehind(r) == conn[r] = "closed" /\ status[r] # LEFT /\ player_id[r] # 0
CrashHasCause ==
  Roomy /\ broken =>
    \/ \E r \in Sessions : LeftBehind(r)
    \/ visiting = {} /\ \E s \in Open : user_json[s] = 0

\* A login is answered: the session gets its acknowledgment or ends.
LoginAnswered ==
  \A s \in Sessions : (conn[s] = "open" /\ logins[s] > 0) ~>
    (user_json[s] # 0 \/ conn[s] # "open")

\* No move waits for ever: the next writable callback empties the buffer and the
\* next visit player_seq, whatever else the client sends, or the connection ends.
MovesServed ==
  \A s \in Sessions :
    (conn[s] = "open" /\ (PendingMove(s) \/ player_seq[s] # <<>>)) ~>
      ((~PendingMove(s) /\ player_seq[s] = <<>>) \/ conn[s] # "open")

-----------------------------------------------------------------------------
(***************************************************************************)
(* What the source says of itself.                                         *)
(***************************************************************************)

\* game_handler.c:571, "handle user that disconnected / remove from users hash":
\* the users map refers to connected players only.
UsersAreConnected ==
  ~broken => \A k \in DOMAIN users_map_main : conn[users_map_main[k]] = "open"

\* gem.c:43, "verify which gems are gone and report to other players": a gem
\* in the session's list has been reported, or the next response reports it.
GemReportOwed ==
  \A s \in Sessions : conn[s] = "open" =>
    \/ Len(simple_gems[s]) <= gems_reported[s]
    \/ MovementDue(s) /\ collision_status[s] = GEM_EAT

=============================================================================
