-------------------------- MODULE GameServerProofs --------------------------
(***************************************************************************)
(* Theorems about GameServer, for every value of its constants.            *)
(***************************************************************************)
EXTENDS GameServer, SequenceTheorems, TLAPS

-----------------------------------------------------------------------------
(***************************************************************************)
(* Lemmas about the operators.                                             *)
(***************************************************************************)

\* What a request with status MOVE carries.
LEMMA MoveFields ==
  ASSUME NEW m \in Requests, m.status = MOVE
  PROVE  /\ m.player_seq \in Nat
         /\ m.collision_status \in {0, GEM_EAT}
         /\ m.simple_gems \in Seq(GemPos)
         /\ m.score \in Nat
<1>1. m # NoRequest /\ m # LoginRequest
  BY DEF NoRequest, LoginRequest, MOVE, LOGIN
<1> QED
  BY <1>1 DEF Requests

\* The requests a client makes are requests.
LEMMA LoginIsRequest == LoginRequest \in Requests
BY DEF Requests

LEMMA MoveIsRequest ==
  ASSUME NEW seq \in Nat, NEW cs \in {0, GEM_EAT}, NEW gems \in Seq(GemPos), NEW sc \in Nat
  PROVE  MoveRequest(seq, cs, gems, sc) \in Requests
BY DEF Requests, MoveRequest

\* Scattering adds gems at positions of GemPos.
LEMMA ScatterType ==
  ASSUME NEW gems \in Seq(GemPos), NEW g \in scatter_gems(gems)
  PROVE  g \in Seq(GemPos)
<1>1. PICK new \in [1 .. 1 -> GemPos] : g = gems \o new
  BY DEF scatter_gems, generate_random_gems
<1>2. new \in Seq(GemPos)
  <2>1. Seq(GemPos) = UNION {[1 .. n -> GemPos] : n \in Nat}
    BY SeqDef, Zenon
  <2>2. [1 .. 1 -> GemPos] \in {[1 .. n -> GemPos] : n \in Nat}
    BY 1 \in Nat, Zenon
  <2> QED
    BY <1>1, <2>1, <2>2, Zenon
<1> QED
  BY <1>1, <1>2, ConcatProperties

\* The users map after a put and after a remove.
LEMMA PutType ==
  ASSUME NEW m, NEW k, NEW S, NEW v \in S, m \in [DOMAIN m -> S]
  PROVE  /\ DOMAIN hashmapPut(m, k, v) = DOMAIN m \cup {k}
         /\ hashmapPut(m, k, v) \in [DOMAIN m \cup {k} -> S]
BY DEF hashmapPut

LEMMA PutExisting ==
  ASSUME NEW m, NEW S, NEW k \in DOMAIN m, NEW v \in S, m \in [DOMAIN m -> S]
  PROVE  /\ DOMAIN hashmapPut(m, k, v) = DOMAIN m
         /\ hashmapPut(m, k, v) \in [DOMAIN m -> S]
<1>1. DOMAIN m \cup {k} = DOMAIN m
  OBVIOUS
<1> QED
  BY <1>1 DEF hashmapPut

LEMMA RemoveType ==
  ASSUME NEW m, NEW k, NEW S, m \in [DOMAIN m -> S]
  PROVE  /\ DOMAIN hashmapRemove(m, k) = DOMAIN m \ {k}
         /\ hashmapRemove(m, k) \in [DOMAIN m \ {k} -> S]
BY DEF hashmapRemove

-----------------------------------------------------------------------------
(***************************************************************************)
(* Type correctness.  A tick takes the last of the moves it publishes,     *)
(* which is a move only because no session has status 2 and no moves: the  *)
(* invariant needs that beside the types.                                  *)
(***************************************************************************)
MoveQueued ==
  \A s \in Sessions :
    /\ status[s] = MOVE => player_seq[s] # <<>>
    /\ conn[s] = "new" => status[s] = LOGIN /\ ~done_srv_update[s]

TypeInv == TypeOK /\ MoveQueued

USE DEF LOGIN, LOGIN_ACK, MOVE, MOVE_ACK, OTHER_LOGIN, OTHER_MOVE, LEFT,
        GEM_SCATTER, GEM_EAT, GEM_ACK

LEMMA InitTypeInv == Init => TypeInv
<1> SUFFICES ASSUME Init PROVE TypeInv
  OBVIOUS
<1>1. NetTypeOK
  BY DEF Init, NetTypeOK, Requests
<1>2. PssTypeOK
  BY ConstantsAssumption DEF Init, PssTypeOK
<1>3. GameTypeOK
  <2>1. gems_array \in Seq(GemPos)
    <3>1. <<>> \in Seq(GemPos)
      OBVIOUS
    <3> QED
      BY <3>1, ScatterType DEF Init
  <2> QED
    BY <2>1 DEF Init, GameTypeOK, EmptyMap
<1>4. ClientTypeOK /\ HistoryTypeOK
  BY DEF Init, ClientTypeOK, HistoryTypeOK
<1>5. MoveQueued
  BY DEF Init, MoveQueued
<1> QED
  BY <1>1, <1>2, <1>3, <1>4, <1>5 DEF TypeInv, TypeOK

\* Every part of the invariant, unfolded only where an action disturbs it.
LEMMA BreakTypeInv == TypeInv /\ Break => TypeInv'
BY DEF TypeInv, TypeOK, MoveQueued, Break, net_vars, pss_vars, client_vars,
       history_vars, NetTypeOK, PssTypeOK, GameTypeOK, ClientTypeOK, HistoryTypeOK

LEMMA EstablishedTypeInv ==
  ASSUME TypeInv, NEW s \in Sessions, Established(s)
  PROVE  TypeInv'
<1> USE DEF Established, client_vars, history_vars
<1>1. NetTypeOK' /\ GameTypeOK' /\ ClientTypeOK' /\ HistoryTypeOK'
  BY DEF TypeInv, TypeOK, NetTypeOK, GameTypeOK, ClientTypeOK, HistoryTypeOK
<1>2. PssTypeOK'
  BY ConstantsAssumption DEF TypeInv, TypeOK, PssTypeOK
<1>3. MoveQueued'
  BY DEF TypeInv, TypeOK, NetTypeOK, PssTypeOK, MoveQueued
<1> QED
  BY <1>1, <1>2, <1>3 DEF TypeInv, TypeOK

\* What both kinds of request do to the types.
LEMMA ReceiveTypeInv ==
  ASSUME TypeInv, NEW s \in Sessions, NEW m \in Requests, Receive(s, m)
  PROVE  NetTypeOK' /\ PssTypeOK' /\ GameTypeOK' /\ HistoryTypeOK' /\ MoveQueued'
BY DEF TypeInv, TypeOK, NetTypeOK, PssTypeOK, GameTypeOK, HistoryTypeOK,
       MoveQueued, Receive, pss_vars, history_vars

LEMMA SendTypeInv ==
  ASSUME TypeInv, NEW s \in Sessions,
         SendLogin(s) \/ \E hit \in BOOLEAN : SendMove(s, hit)
  PROVE  TypeInv'
<1>1. \E m \in Requests : Receive(s, m)
  <2>1. CASE SendLogin(s)
    BY <2>1, LoginIsRequest DEF SendLogin
  <2>2. ASSUME NEW hit \in BOOLEAN, SendMove(s, hit) PROVE \E m \in Requests : Receive(s, m)
    <3>1. moves[s] + 1 \in Nat /\ gems_eaten[s] + 1 \in Nat
      BY DEF TypeInv, TypeOK, ClientTypeOK
    <3>2. CASE hit
      <4>1. <<gems_array[gems_eaten[s] + 1]>> \in Seq(GemPos)
        BY <2>2, <3>2 DEF SendMove, TypeInv, TypeOK, ClientTypeOK, GameTypeOK
      <4>2. MoveRequest(moves[s] + 1, GEM_EAT, <<gems_array[gems_eaten[s] + 1]>>,
                        gems_eaten[s] + 1) \in Requests
        BY <3>1, <4>1, MoveIsRequest
      <4> QED
        BY <2>2, <3>2, <4>2 DEF SendMove
    <3>3. CASE ~hit
      <4>0. <<>> \in Seq(GemPos) /\ 0 \in Nat /\ 0 \in {0, GEM_EAT}
        OBVIOUS
      <4>1. MoveRequest(moves[s] + 1, 0, <<>>, 0) \in Requests
        BY <3>1, <4>0, MoveIsRequest
      <4> QED
        BY <2>2, <3>3, <4>1 DEF SendMove
    <3> QED
      BY <3>2, <3>3
  <2> QED
    BY <2>1, <2>2
<1>2. ClientTypeOK'
  <2>1. CASE SendLogin(s)
    BY <2>1 DEF TypeInv, TypeOK, ClientTypeOK, SendLogin
  <2>2. ASSUME NEW hit \in BOOLEAN, SendMove(s, hit) PROVE ClientTypeOK'
    <3>1. gems_eaten' \in [Sessions -> Nat]
      BY <2>2 DEF TypeInv, TypeOK, ClientTypeOK, SendMove
    <3>2. /\ moves' = [moves EXCEPT ![s] = @ + 1]
          /\ burst' = [burst EXCEPT ![s] = @ + 1]
          /\ logins' = logins
      BY <2>2 DEF SendMove
    <3> QED
      BY <3>1, <3>2 DEF TypeInv, TypeOK, ClientTypeOK
  <2> QED
    BY <2>1, <2>2
<1> QED
  BY <1>1, <1>2, ReceiveTypeInv DEF TypeInv, TypeOK

LEMMA RegistrationTypeInv ==
  ASSUME TypeInv, NEW s \in Sessions, Registration(s)
  PROVE  TypeInv'
<1> USE DEF Registration
<1>1. PICK d \in ClockSteps :
        /\ clock' = clock + d
        /\ player_id' = [player_id EXCEPT ![s] = clock + d]
        /\ users_map_main' = hashmapPut(users_map_main, clock + d, s)
  OBVIOUS
<1>2. clock' \in Nat \ {0} /\ clock' >= clock /\ clock' = clock + d
  BY <1>1 DEF ClockSteps, TypeInv, TypeOK, GameTypeOK
<1>3. NetTypeOK' /\ ClientTypeOK'
  BY DEF TypeInv, TypeOK, NetTypeOK, ClientTypeOK, client_vars
<1>4. PssTypeOK'
  BY <1>1, <1>2 DEF TypeInv, TypeOK, PssTypeOK, GameTypeOK
<1>5. GameTypeOK'
  <2>1. /\ DOMAIN users_map_main' = DOMAIN users_map_main \cup {clock'}
        /\ users_map_main' \in [DOMAIN users_map_main \cup {clock'} -> Sessions]
    BY <1>1, <1>2, PutType DEF TypeInv, TypeOK, GameTypeOK
  <2>2. DOMAIN users_map_main \cup {clock'} \subseteq 1 .. clock'
    BY <1>2 DEF TypeInv, TypeOK, GameTypeOK
  <2> QED
    BY <1>2, <2>1, <2>2 DEF TypeInv, TypeOK, GameTypeOK
<1>6. HistoryTypeOK'
  <2>1. SUBSET (0 .. clock) \subseteq SUBSET (0 .. clock')
    BY <1>2 DEF TypeInv, TypeOK, GameTypeOK
  <2> QED
    BY <2>1 DEF TypeInv, TypeOK, HistoryTypeOK, history_vars
<1>7. MoveQueued'
  BY DEF TypeInv, TypeOK, NetTypeOK, PssTypeOK, MoveQueued, ServerWriteable
<1> QED
  BY <1>3, <1>4, <1>5, <1>6, <1>7 DEF TypeInv, TypeOK

LEMMA MovementTypeInv ==
  ASSUME TypeInv, NEW s \in Sessions, Movement(s)
  PROVE  TypeInv'
<1>1. CASE Break
  BY <1>1, BreakTypeInv
<1>2. CASE ~Break
  <2> DEFINE m == buf[s]
  <2>1. m \in Requests /\ m.status = MOVE
    BY DEF Movement, ServerWriteable, TypeInv, TypeOK, NetTypeOK
  <2>2. /\ m.player_seq \in Nat /\ m.collision_status \in {0, GEM_EAT}
        /\ m.simple_gems \in Seq(GemPos) /\ m.score \in Nat
    BY <2>1, MoveFields
  <2> HIDE DEF m
  <2>3. /\ ~PutReturnsNull(s)
        /\ writable' = [writable EXCEPT ![s] = FALSE]
        /\ collision_status' = [collision_status EXCEPT ![s] = m.collision_status]
        /\ player_seq' = [player_seq EXCEPT ![s] = Append(@, m.player_seq)]
        /\ status' = [status EXCEPT ![s] = MOVE]
        /\ IF m.collision_status = GEM_EAT
           THEN /\ simple_gems' = [simple_gems EXCEPT ![s] = @ \o m.simple_gems]
                /\ score' = [score EXCEPT ![s] = m.score]
           ELSE UNCHANGED <<simple_gems, score>>
        /\ done_srv_update' = [done_srv_update EXCEPT ![s] = TRUE]
        /\ users_map_main' = hashmapPut(users_map_main, player_id[s], s)
        /\ UNCHANGED <<broken, conn, buf, player_id, user_json, gems_array,
                       clock, visiting, client_vars, history_vars>>
    BY <1>2 DEF Movement, m
  <2>4. NetTypeOK' /\ ClientTypeOK' /\ HistoryTypeOK'
    BY <2>3 DEF TypeInv, TypeOK, NetTypeOK, ClientTypeOK, HistoryTypeOK,
                client_vars, history_vars
  <2>5. PssTypeOK'
    <3>1. player_seq[s] \in Seq(Nat) /\ simple_gems[s] \in Seq(GemPos)
      BY DEF TypeInv, TypeOK, PssTypeOK
    <3>2. Append(player_seq[s], m.player_seq) \in Seq(Nat)
      BY <2>2, <3>1, AppendProperties
    <3>3. simple_gems[s] \o m.simple_gems \in Seq(GemPos)
      BY <2>2, <3>1, ConcatProperties
    <3>4. player_seq' \in [Sessions -> Seq(Nat)]
      BY <2>3, <3>2 DEF TypeInv, TypeOK, PssTypeOK
    <3>5. simple_gems' \in [Sessions -> Seq(GemPos)] /\ score' \in [Sessions -> Nat]
      BY <2>2, <2>3, <3>3 DEF TypeInv, TypeOK, PssTypeOK
    <3> QED
      BY <2>2, <2>3, <3>4, <3>5 DEF TypeInv, TypeOK, PssTypeOK
  <2>6. GameTypeOK'
    <3>1. /\ DOMAIN users_map_main' = DOMAIN users_map_main
          /\ users_map_main' \in [DOMAIN users_map_main -> Sessions]
      <4>1. player_id[s] \in DOMAIN users_map_main
        BY <2>3 DEF PutReturnsNull, hashmapContainsKey
      <4>2. users_map_main \in [DOMAIN users_map_main -> Sessions]
        BY DEF TypeInv, TypeOK, GameTypeOK
      <4>3. users_map_main' = hashmapPut(users_map_main, player_id[s], s)
        BY <2>3
      <4> QED
        BY <4>1, <4>2, <4>3, PutExisting
    <3> QED
      BY <2>3, <3>1 DEF TypeInv, TypeOK, GameTypeOK
  <2>7. MoveQueued'
    <3>1. Append(player_seq[s], m.player_seq) # <<>>
      <4>1. player_seq[s] \in Seq(Nat)
        BY DEF TypeInv, TypeOK, PssTypeOK
      <4> QED
        BY <2>2, <4>1
    <3> QED
      BY <2>3, <3>1 DEF TypeInv, TypeOK, NetTypeOK, PssTypeOK, MoveQueued,
                        Movement, ServerWriteable
  <2> QED
    BY <2>4, <2>5, <2>6, <2>7 DEF TypeInv, TypeOK
<1> QED
  BY <1>1, <1>2

LEMMA GameLoopTypeInv ==
  ASSUME TypeInv, game_loop_cb
  PROVE  TypeInv'
BY DEF TypeInv, TypeOK, NetTypeOK, PssTypeOK, GameTypeOK, ClientTypeOK,
       HistoryTypeOK, MoveQueued, game_loop_cb, net_vars, pss_vars, client_vars,
       history_vars

\* What every visit leaves as it is, and the queue that a reply empties.
LEMMA ReplyPss ==
  ASSUME TypeInv, NEW s \in Sessions,
         RegistrationReply(s) \/ MovementReply(s) \/ NothingDue(s)
  PROVE  /\ status' \in [Sessions -> {LOGIN, LOGIN_ACK, MOVE, MOVE_ACK, LEFT}]
         /\ player_seq' \in [Sessions -> Seq(Nat)]
         /\ collision_status' \in [Sessions -> {0, GEM_EAT}]
         /\ user_json' \in [Sessions -> 0 .. clock]
         /\ \A t \in Sessions : status'[t] = MOVE => player_seq'[t] # <<>>
         /\ \A t \in Sessions : conn[t] = "new" =>
              status'[t] = LOGIN /\ ~done_srv_update[t]
<1>1. CASE NothingDue(s)
  BY <1>1 DEF NothingDue, TypeInv, TypeOK, PssTypeOK, MoveQueued
<1>2. CASE RegistrationReply(s) \/ MovementReply(s)
  <2>1. /\ RegistrationDue(s) \/ MovementDue(s)
        /\ send_response_to_current_player(s)
        /\ status' = [status EXCEPT ![s] = status'[s]]
        /\ status'[s] \in {LOGIN_ACK, MOVE_ACK}
        /\ user_json' = [user_json EXCEPT ![s] = player_id[s]]
    BY <1>2 DEF RegistrationReply, MovementReply, build_player_json_registrator,
                build_player_json_movment, build_gems_score_json, TypeInv, TypeOK,
                PssTypeOK
  <2>2. conn[s] # "new"
    BY <2>1 DEF RegistrationDue, MovementDue, TypeInv, MoveQueued
  <2>3. <<>> \in Seq(Nat)
    OBVIOUS
  <2>4. player_id[s] \in 0 .. clock
    BY DEF TypeInv, TypeOK, PssTypeOK
  <2>5. /\ player_seq' \in [Sessions -> Seq(Nat)]
        /\ collision_status' \in [Sessions -> {0, GEM_EAT}]
    BY <2>1, <2>3 DEF send_response_to_current_player, TypeInv, TypeOK, PssTypeOK
  <2>6. /\ status' \in [Sessions -> {LOGIN, LOGIN_ACK, MOVE, MOVE_ACK, LEFT}]
        /\ user_json' \in [Sessions -> 0 .. clock]
    BY <2>1, <2>4 DEF TypeInv, TypeOK, PssTypeOK
  <2>7. \A t \in Sessions : status'[t] = MOVE => player_seq'[t] # <<>>
    BY <2>1 DEF send_response_to_current_player, TypeInv, TypeOK, PssTypeOK, MoveQueued
  <2>8. \A t \in Sessions : conn[t] = "new" => status'[t] = LOGIN /\ ~done_srv_update[t]
    BY <2>1, <2>2 DEF TypeInv, TypeOK, PssTypeOK, MoveQueued
  <2> QED
    BY <2>5, <2>6, <2>7, <2>8
<1> QED
  BY <1>1, <1>2

\* The histories stay histories of ids, moves and numbers of gems.
LEMMA ReplyHistory ==
  ASSUME TypeInv, NEW s \in Sessions,
         RegistrationReply(s) \/ MovementReply(s) \/ NothingDue(s)
  PROVE  /\ known' \in [Sessions -> SUBSET (0 .. clock)]
         /\ last_relayed' \in [Sessions -> Nat]
         /\ gems_reported' \in [Sessions -> Nat]
<1>1. CASE NothingDue(s)
  BY <1>1 DEF NothingDue, history_vars, TypeInv, TypeOK, HistoryTypeOK
<1>2. CASE RegistrationReply(s)
  <2>1. \A r \in Sessions : Told(r, s) \subseteq 0 .. clock
    <3>1. \A t \in Sessions : player_id[t] \in 0 .. clock
      BY DEF TypeInv, TypeOK, PssTypeOK
    <3>2. \A k \in Others(s) : users_map_main[k] \in Sessions
      BY DEF Others, TypeInv, TypeOK, GameTypeOK
    <3> QED
      BY <3>1, <3>2 DEF Told
  <2> QED
    BY <1>2, <2>1 DEF RegistrationReply, TypeInv, TypeOK, HistoryTypeOK
<1>3. CASE MovementReply(s)
  <2>1. player_seq[s] \in Seq(Nat) /\ player_seq[s] # <<>>
    BY <1>3 DEF MovementReply, MovementDue, TypeInv, TypeOK, PssTypeOK, MoveQueued
  <2>2. player_seq[s][Len(player_seq[s])] \in Nat
    BY <2>1
  <2>3. Len(simple_gems[s]) \in Nat
    BY DEF TypeInv, TypeOK, PssTypeOK
  <2>4. last_relayed' \in [Sessions -> Nat] /\ gems_reported' \in [Sessions -> Nat]
    <3>1. CASE collision_status[s] = GEM_EAT
      BY <1>3, <2>3, <3>1 DEF MovementReply, build_gems_score_json, TypeInv,
                              TypeOK, HistoryTypeOK
    <3>2. CASE collision_status[s] # GEM_EAT
      BY <1>3, <2>2, <3>2 DEF MovementReply, build_player_json_movment, TypeInv,
                              TypeOK, HistoryTypeOK
    <3> QED
      BY <3>1, <3>2
  <2> QED
    BY <1>3, <2>4 DEF MovementReply, TypeInv, TypeOK, HistoryTypeOK
<1> QED
  BY <1>1, <1>2, <1>3

LEMMA ResponseTypeInv ==
  ASSUME TypeInv, NEW k \in visiting, response_to_client_cp(k)
  PROVE  TypeInv'
<1> DEFINE s == users_map_main[k]
<1>1. s \in Sessions
  BY DEF TypeInv, TypeOK, GameTypeOK
<1>2. CASE Break
  BY <1>2, BreakTypeInv
<1>3. CASE /\ visiting' = visiting \ {k}
           /\ RegistrationReply(s) \/ MovementReply(s) \/ NothingDue(s)
           /\ burst' = [burst EXCEPT ![s] = 0]
           /\ UNCHANGED <<broken, net_vars, done_srv_update, player_id, simple_gems,
                          score, users_map_main, gems_array, clock, logins, moves,
                          gems_eaten>>
  <2> HIDE DEF s
  <2>1. NetTypeOK' /\ ClientTypeOK' /\ GameTypeOK'
    BY <1>1, <1>3 DEF TypeInv, TypeOK, NetTypeOK, ClientTypeOK, GameTypeOK, net_vars
  <2>2. PssTypeOK'
    BY <1>1, <1>3, ReplyPss DEF TypeInv, TypeOK, PssTypeOK
  <2>3. HistoryTypeOK'
    BY <1>1, <1>3, ReplyHistory DEF HistoryTypeOK
  <2>4. MoveQueued'
    BY <1>1, <1>3, ReplyPss DEF MoveQueued, net_vars
  <2> QED
    BY <2>1, <2>2, <2>3, <2>4 DEF TypeInv, TypeOK
<1> QED
  BY <1>2, <1>3 DEF response_to_client_cp

LEMMA PeerCloseTypeInv ==
  ASSUME TypeInv, NEW s \in Sessions, PeerInitiatedClose(s)
  PROVE  TypeInv'
<1>1. CASE Break
  BY <1>1, BreakTypeInv
<1>2. CASE ~Break
  <2>1. /\ status' = [status EXCEPT ![s] = LEFT]
        /\ known' = Leave(s)
        /\ users_map_main' = hashmapRemove(users_map_main, player_id[s])
        /\ IF NobodyIn(users_map_main')
           THEN gems_array' \in scatter_gems(<<>>)
           ELSE UNCHANGED gems_array
        /\ conn' = [conn EXCEPT ![s] = "closed"]
        /\ writable' = [writable EXCEPT ![s] = FALSE]
        /\ visiting = {} /\ conn[s] = "open"
        /\ UNCHANGED <<broken, buf, done_srv_update, player_id, player_seq,
                       collision_status, simple_gems, score, user_json, clock,
                       visiting, client_vars, last_relayed, gems_reported>>
    BY <1>2 DEF PeerInitiatedClose, Idle
  <2>2. NetTypeOK' /\ ClientTypeOK' /\ PssTypeOK' /\ MoveQueued'
    <3>1. NetTypeOK'
      BY <2>1 DEF TypeInv, TypeOK, NetTypeOK
    <3>2. ClientTypeOK'
      BY <2>1 DEF TypeInv, TypeOK, ClientTypeOK, client_vars
    <3>3. PssTypeOK'
      BY <2>1 DEF TypeInv, TypeOK, PssTypeOK
    <3>4. status \in [Sessions -> {LOGIN, LOGIN_ACK, MOVE, MOVE_ACK, LEFT}]
      BY DEF TypeInv, TypeOK, PssTypeOK
    <3>5. conn \in [Sessions -> {"new", "open", "closed"}]
      BY DEF TypeInv, TypeOK, NetTypeOK
    <3>6. MoveQueued'
      BY <2>1, <3>4, <3>5 DEF TypeInv, MoveQueued
    <3> QED
      BY <3>1, <3>2, <3>3, <3>6
  <2>3. GameTypeOK'
    <3>1. users_map_main \in [DOMAIN users_map_main -> Sessions]
      BY DEF TypeInv, TypeOK, GameTypeOK
    <3>2. /\ DOMAIN users_map_main' = DOMAIN users_map_main \ {player_id[s]}
          /\ users_map_main' \in [DOMAIN users_map_main \ {player_id[s]} -> Sessions]
      BY <2>1, <3>1, RemoveType
    <3>3. gems_array' \in Seq(GemPos)
      <4>1. <<>> \in Seq(GemPos)
        OBVIOUS
      <4> QED
        BY <2>1, <4>1, ScatterType DEF TypeInv, TypeOK, GameTypeOK
    <3> QED
      BY <2>1, <3>2, <3>3 DEF TypeInv, TypeOK, GameTypeOK
  <2>4. HistoryTypeOK'
    BY <2>1 DEF Leave, TypeInv, TypeOK, HistoryTypeOK
  <2> QED
    BY <2>2, <2>3, <2>4 DEF TypeInv, TypeOK
<1> QED
  BY <1>1, <1>2

LEMMA LostTypeInv ==
  ASSUME TypeInv, NEW s \in Sessions, ConnectionLost(s)
  PROVE  TypeInv'
BY DEF TypeInv, TypeOK, NetTypeOK, PssTypeOK, GameTypeOK, ClientTypeOK,
       HistoryTypeOK, MoveQueued, ConnectionLost, pss_vars, client_vars, history_vars

LEMMA StutterTypeInv == TypeInv /\ UNCHANGED vars => TypeInv'
BY DEF TypeInv, TypeOK, NetTypeOK, PssTypeOK, GameTypeOK, ClientTypeOK,
       HistoryTypeOK, MoveQueued, vars, net_vars, pss_vars, client_vars, history_vars

LEMMA NextTypeInv == TypeInv /\ [Next]_vars => TypeInv'
<1> SUFFICES ASSUME TypeInv, [Next]_vars PROVE TypeInv'
  OBVIOUS
<1>1. CASE Tick
  BY <1>1, GameLoopTypeInv, ResponseTypeInv DEF Tick
<1>2. ASSUME NEW s \in Sessions, Client(s) PROVE TypeInv'
  BY <1>2, EstablishedTypeInv, SendTypeInv, PeerCloseTypeInv, LostTypeInv DEF Client
<1>3. ASSUME NEW s \in Sessions, Writeable(s) PROVE TypeInv'
  BY <1>3, RegistrationTypeInv, MovementTypeInv DEF Writeable
<1>4. CASE UNCHANGED vars
  BY <1>4, StutterTypeInv
<1> QED
  BY <1>1, <1>2, <1>3, <1>4 DEF Next

THEOREM TypeInvariant == Spec => []TypeInv
BY InitTypeInv, NextTypeInv, PTL DEF Spec

\* The state keeps its types in every environment, also when ids repeat and
\* connections are lost: every key of the users map is an id that generateId has
\* given out, and a tick visits entries of the map only.
THEOREM TypeCorrect == Spec => []TypeOK
<1>1. TypeInv => TypeOK
  BY DEF TypeInv
<1> QED
  BY <1>1, TypeInvariant, PTL

-----------------------------------------------------------------------------
(***************************************************************************)
(* The moves a session keeps from one tick to the next, in every           *)
(* environment: player_seq, the request buffer and the bound that the rate *)
(* of moves puts on them.                                                  *)
(***************************************************************************)
\* The order of moves, with what makes it inductive: the buffer holds the last
\* move sent, and what is queued or published was sent before it.
MoveOrder(s) ==
  /\ last_relayed[s] <= moves[s]
  /\ \A i \in 1 .. Len(player_seq[s]) :
       /\ last_relayed[s] < player_seq[s][i] /\ player_seq[s][i] <= moves[s]
       /\ \A j \in 1 .. i - 1 : player_seq[s][j] < player_seq[s][i]
  /\ PendingMove(s) =>
       /\ buf[s].player_seq = moves[s]
       /\ last_relayed[s] < moves[s]
       /\ \A i \in 1 .. Len(player_seq[s]) : player_seq[s][i] < moves[s]

\* A session that is connected has moves exactly when a tick will take them,
\* and no more of them than the moves sent since its last visit and one.
QueueDue(s) ==
  conn[s] = "open" =>
    /\ player_seq[s] # <<>> => RegistrationDue(s) \/ MovementDue(s)
    /\ MovementDue(s) => player_seq[s] # <<>>
QueueShort(s) ==
  conn[s] = "open" =>
    /\ Len(player_seq[s]) <= burst[s] + 1
    /\ PendingMove(s) => Len(player_seq[s]) <= burst[s]

QueueOK(s) == MoveOrder(s) /\ QueueDue(s) /\ QueueShort(s)
QueueInv == \A s \in Sessions : QueueOK(s)

\* QueueOK is about one session: an action has to restore it for the session
\* it is an action of, and leaves the others as they are.
SameQueue(s) ==
  /\ conn'[s] = conn[s] /\ buf'[s] = buf[s] /\ writable'[s] = writable[s]
  /\ status'[s] = status[s] /\ done_srv_update'[s] = done_srv_update[s]
  /\ player_seq'[s] = player_seq[s] /\ moves'[s] = moves[s]
  /\ burst'[s] = burst[s] /\ last_relayed'[s] = last_relayed[s]

LEMMA SameQueueOK ==
  ASSUME NEW s, QueueOK(s), SameQueue(s)
  PROVE  QueueOK(s)'
BY DEF QueueOK, SameQueue, MoveOrder, QueueDue, QueueShort, PendingMove,
       RegistrationDue, MovementDue

LEMMA Frame ==
  ASSUME QueueInv, NEW s \in Sessions, QueueOK(s)',
         \A t \in Sessions \ {s} : SameQueue(t)
  PROVE  QueueInv'
BY SameQueueOK DEF QueueInv

\* The types of what the invariant is about.
LEMMA QueueTypes ==
  ASSUME TypeInv, NEW s \in Sessions
  PROVE  /\ conn \in [Sessions -> {"new", "open", "closed"}]
         /\ buf \in [Sessions -> Requests] /\ writable \in [Sessions -> BOOLEAN]
         /\ status \in [Sessions -> {LOGIN, LOGIN_ACK, MOVE, MOVE_ACK, LEFT}]
         /\ done_srv_update \in [Sessions -> BOOLEAN]
         /\ player_seq \in [Sessions -> Seq(Nat)] /\ player_seq[s] \in Seq(Nat)
         /\ Len(player_seq[s]) \in Nat
         /\ moves \in [Sessions -> Nat] /\ moves[s] \in Nat
         /\ burst \in [Sessions -> Nat] /\ burst[s] \in Nat
         /\ last_relayed \in [Sessions -> Nat] /\ last_relayed[s] \in Nat
         /\ \A i \in 1 .. Len(player_seq[s]) : player_seq[s][i] \in Nat
<1>1. /\ conn \in [Sessions -> {"new", "open", "closed"}]
      /\ buf \in [Sessions -> Requests] /\ writable \in [Sessions -> BOOLEAN]
  BY DEF TypeInv, TypeOK, NetTypeOK
<1>2. /\ status \in [Sessions -> {LOGIN, LOGIN_ACK, MOVE, MOVE_ACK, LEFT}]
      /\ done_srv_update \in [Sessions -> BOOLEAN]
      /\ player_seq \in [Sessions -> Seq(Nat)]
  BY DEF TypeInv, TypeOK, PssTypeOK
<1>3. moves \in [Sessions -> Nat] /\ burst \in [Sessions -> Nat]
  BY DEF TypeInv, TypeOK, ClientTypeOK
<1>4. last_relayed \in [Sessions -> Nat]
  BY DEF TypeInv, TypeOK, HistoryTypeOK
<1>5. player_seq[s] \in Seq(Nat)
  BY <1>2
<1>6. /\ Len(player_seq[s]) \in Nat
      /\ \A i \in 1 .. Len(player_seq[s]) : player_seq[s][i] \in Nat
  BY <1>5
<1>7. moves[s] \in Nat /\ burst[s] \in Nat /\ last_relayed[s] \in Nat
  BY <1>3, <1>4
<1> QED
  BY <1>1, <1>2, <1>3, <1>4, <1>5, <1>6, <1>7

LEMMA StutterQueueInv ==
  ASSUME QueueInv,
         UNCHANGED <<conn, buf, writable, status, done_srv_update, player_seq,
                     moves, burst, last_relayed>>
  PROVE  QueueInv'
BY SameQueueOK DEF QueueInv, SameQueue

LEMMA BreakQueueInv == QueueInv /\ Break => QueueInv'
BY StutterQueueInv DEF Break, net_vars, pss_vars, client_vars, history_vars

LEMMA InitQueueInv == Init => QueueInv
BY DEF Init, QueueInv, QueueOK, MoveOrder, QueueDue, QueueShort, PendingMove,
       RegistrationDue, MovementDue, NoRequest

LEMMA EstablishedQueueInv ==
  ASSUME TypeInv, QueueInv, NEW s \in Sessions, Established(s)
  PROVE  QueueInv'
<1>1. /\ player_seq'[s] = <<>> /\ conn[s] = "new"
      /\ UNCHANGED <<buf, writable, status, done_srv_update, moves, burst, last_relayed>>
      /\ \A t \in Sessions \ {s} : SameQueue(t)
  BY QueueTypes DEF Established, client_vars, history_vars, SameQueue
<1>2. ~MovementDue(s)'
  BY <1>1 DEF TypeInv, MoveQueued, MovementDue
<1>3. MoveOrder(s) /\ moves[s] \in Nat /\ burst[s] \in Nat
  BY QueueTypes, Zenon DEF QueueInv, QueueOK
<1>4. MoveOrder(s)'
  BY <1>1, <1>3 DEF MoveOrder, PendingMove
<1>5. QueueDue(s)'
  BY <1>1, <1>2 DEF QueueDue
<1>6. QueueShort(s)'
  <2>1. Len(player_seq'[s]) = 0 /\ burst'[s] \in Nat
    BY <1>1, <1>3
  <2> QED
    BY <2>1 DEF QueueShort
<1> QED
  BY <1>1, <1>4, <1>5, <1>6, Frame DEF QueueOK

LEMMA LoginQueueInv ==
  ASSUME TypeInv, QueueInv, NEW s \in Sessions, SendLogin(s)
  PROVE  QueueInv'
<1>1. /\ buf'[s] = LoginRequest
      /\ UNCHANGED <<conn, status, done_srv_update, player_seq, moves, burst, last_relayed>>
      /\ \A t \in Sessions \ {s} : SameQueue(t)
  BY QueueTypes DEF SendLogin, Receive, pss_vars, history_vars, SameQueue
<1>2. ~PendingMove(s)'
  BY <1>1 DEF PendingMove, LoginRequest
<1>3. QueueOK(s)
  BY DEF QueueInv
<1>4. MoveOrder(s)' /\ QueueDue(s)'
  BY <1>1, <1>2, <1>3 DEF QueueOK, MoveOrder, QueueDue, RegistrationDue, MovementDue
<1>5. QueueShort(s)'
  <2>1. /\ Len(player_seq[s]) \in Nat /\ burst[s] \in Nat
        /\ conn[s] = "open" => Len(player_seq[s]) <= burst[s] + 1
    BY <1>3, QueueTypes DEF QueueOK, QueueShort
  <2> QED
    BY <1>1, <1>2, <2>1 DEF QueueShort
<1> QED
  BY <1>1, <1>4, <1>5, Frame DEF QueueOK

\* A move replaces the one in the buffer and is newer than all before it.
LEMMA SendMoveQueueInv ==
  ASSUME TypeInv, QueueInv, NEW s \in Sessions, NEW hit \in BOOLEAN, SendMove(s, hit)
  PROVE  QueueInv'
<1>1. \E cs, gems, sc : Receive(s, MoveRequest(moves[s] + 1, cs, gems, sc))
  BY DEF SendMove
<1>2. PICK cs, gems, sc : Receive(s, MoveRequest(moves[s] + 1, cs, gems, sc))
  BY <1>1
<1>3. /\ moves' = [moves EXCEPT ![s] = @ + 1]
      /\ burst' = [burst EXCEPT ![s] = @ + 1]
  BY DEF SendMove
<1>4. /\ buf'[s] = MoveRequest(moves[s] + 1, cs, gems, sc)
      /\ UNCHANGED <<conn, status, done_srv_update, player_seq, last_relayed>>
      /\ moves'[s] = moves[s] + 1 /\ burst'[s] = burst[s] + 1
      /\ \A t \in Sessions \ {s} : SameQueue(t)
  BY <1>2, <1>3, QueueTypes DEF Receive, pss_vars, history_vars, SameQueue
<1>5. buf'[s].player_seq = moves'[s]
  BY <1>4 DEF MoveRequest
<1>6. QueueOK(s)
  BY DEF QueueInv
<1>7. MoveOrder(s)'
  <2>1. /\ last_relayed[s] <= moves[s] /\ moves[s] < moves'[s]
        /\ \A i \in 1 .. Len(player_seq[s]) : player_seq[s][i] <= moves[s]
    <3>1. /\ last_relayed[s] <= moves[s]
          /\ \A i \in 1 .. Len(player_seq[s]) : player_seq[s][i] <= moves[s]
      BY <1>6 DEF QueueOK, MoveOrder
    <3>2. moves[s] \in Nat /\ moves'[s] = moves[s] + 1
      BY <1>4, QueueTypes
    <3> QED
      BY <3>1, <3>2
  <2>2. /\ last_relayed[s] < moves'[s] /\ last_relayed[s] <= moves'[s]
        /\ \A i \in 1 .. Len(player_seq[s]) :
             player_seq[s][i] <= moves'[s] /\ player_seq[s][i] < moves'[s]
    BY <1>4, <2>1, QueueTypes
  <2> QED
    BY <1>4, <1>5, <1>6, <2>2 DEF QueueOK, MoveOrder
<1>8. QueueDue(s)'
  BY <1>4, <1>6 DEF QueueOK, QueueDue, RegistrationDue, MovementDue
<1>9. QueueShort(s)'
  <2>1. /\ Len(player_seq[s]) \in Nat /\ burst[s] \in Nat
        /\ conn[s] = "open" => Len(player_seq[s]) <= burst[s] + 1
    BY <1>6, QueueTypes DEF QueueOK, QueueShort
  <2> QED
    BY <1>4, <2>1 DEF QueueShort
<1> QED
  BY <1>4, <1>7, <1>8, <1>9, Frame DEF QueueOK

LEMMA RegistrationQueueInv ==
  ASSUME TypeInv, QueueInv, NEW s \in Sessions, Registration(s)
  PROVE  QueueInv'
<1>1. /\ ~writable'[s] /\ status'[s] = LOGIN /\ done_srv_update'[s]
      /\ UNCHANGED <<conn, buf, player_seq, moves, burst, last_relayed>>
      /\ \A t \in Sessions \ {s} : SameQueue(t)
  BY QueueTypes DEF Registration, client_vars, history_vars, SameQueue
<1>2. QueueOK(s)
  BY DEF QueueInv
<1>3. MoveOrder(s)' /\ QueueDue(s)' /\ QueueShort(s)'
  BY <1>1, <1>2 DEF QueueOK, MoveOrder, QueueDue, QueueShort, PendingMove,
                    RegistrationDue, MovementDue
<1> QED
  BY <1>1, <1>3, Frame DEF QueueOK

\* The move of the buffer goes to the end of the queue.
LEMMA MovementQueueInv ==
  ASSUME TypeInv, QueueInv, NEW s \in Sessions, Movement(s)
  PROVE  QueueInv'
<1>1. CASE Break
  BY <1>1, BreakQueueInv
<1>2. CASE ~Break
  <2>1. /\ player_seq' = [player_seq EXCEPT ![s] = Append(@, buf[s].player_seq)]
        /\ writable' = [writable EXCEPT ![s] = FALSE]
        /\ status' = [status EXCEPT ![s] = MOVE]
        /\ done_srv_update' = [done_srv_update EXCEPT ![s] = TRUE]
        /\ UNCHANGED <<conn, buf, moves, burst, last_relayed>>
    BY <1>2 DEF Movement, client_vars, history_vars
  <2>2. PendingMove(s) /\ buf[s] \in Requests
    BY QueueTypes DEF Movement, ServerWriteable, PendingMove
  <2>3. QueueOK(s) /\ buf[s].player_seq \in Nat /\ buf[s].player_seq = moves[s]
    BY <2>2, MoveFields DEF QueueInv, QueueOK, MoveOrder, PendingMove
  <2>4. /\ player_seq'[s] = Append(player_seq[s], moves[s])
        /\ ~writable'[s] /\ status'[s] = MOVE /\ done_srv_update'[s]
        /\ \A t \in Sessions \ {s} : SameQueue(t)
    BY <2>1, <2>3, QueueTypes DEF SameQueue
  <2>5. /\ Len(player_seq'[s]) = Len(player_seq[s]) + 1
        /\ player_seq'[s][Len(player_seq[s]) + 1] = moves[s]
        /\ \A i \in 1 .. Len(player_seq[s]) : player_seq'[s][i] = player_seq[s][i]
    BY <2>4, QueueTypes, AppendProperties
  <2>6. MoveOrder(s)'
    <3>1. /\ last_relayed[s] <= moves[s] /\ last_relayed[s] < moves[s]
          /\ \A i \in 1 .. Len(player_seq[s]) :
               /\ last_relayed[s] < player_seq[s][i] /\ player_seq[s][i] < moves[s]
               /\ \A j \in 1 .. i - 1 : player_seq[s][j] < player_seq[s][i]
      BY <2>2, <2>3 DEF QueueOK, MoveOrder
    <3>2. ASSUME NEW i \in 1 .. Len(player_seq'[s])
          PROVE  /\ last_relayed[s] < player_seq'[s][i] /\ player_seq'[s][i] <= moves[s]
                 /\ \A j \in 1 .. i - 1 : player_seq'[s][j] < player_seq'[s][i]
      <4>1. CASE i \in 1 .. Len(player_seq[s])
        <5>1. \A j \in 1 .. i : j \in 1 .. Len(player_seq[s])
          BY <4>1, QueueTypes
        <5>2. player_seq[s][i] <= moves[s]
          BY <3>1, <4>1, QueueTypes
        <5>3. i \in 1 .. i /\ \A j \in 1 .. i - 1 : j \in 1 .. i
          BY <4>1, QueueTypes
        <5>4. \A j \in 1 .. i : player_seq'[s][j] = player_seq[s][j]
          BY <2>5, <5>1
        <5> QED
          BY <3>1, <4>1, <5>2, <5>3, <5>4
      <4>2. CASE i = Len(player_seq[s]) + 1
        <5>1. player_seq'[s][i] = moves[s] /\ moves[s] <= moves[s]
          BY <2>5, <4>2, QueueTypes
        <5>2. \A j \in 1 .. i - 1 : j \in 1 .. Len(player_seq[s])
          BY <4>2, QueueTypes
        <5>3. \A j \in 1 .. i - 1 : player_seq'[s][j] < moves[s]
          BY <2>5, <3>1, <5>2
        <5> QED
          BY <3>1, <5>1, <5>3
      <4>3. i \in 1 .. Len(player_seq[s]) \/ i = Len(player_seq[s]) + 1
        BY <2>5, QueueTypes
      <4> QED
        BY <4>1, <4>2, <4>3
    <3> QED
      BY <2>1, <2>4, <3>1, <3>2 DEF MoveOrder, PendingMove
  <2>7. QueueDue(s)'
    <3>1. player_seq'[s] # <<>>
      BY <2>5, QueueTypes
    <3> QED
      BY <2>4, <3>1 DEF QueueDue, MovementDue
  <2>8. QueueShort(s)'
    <3>1. conn[s] = "open" => Len(player_seq[s]) <= burst[s]
      BY <2>2, <2>3 DEF QueueOK, QueueShort
    <3> QED
      BY <2>1, <2>4, <2>5, <3>1, QueueTypes DEF QueueShort, PendingMove
  <2> QED
    BY <2>4, <2>6, <2>7, <2>8, Frame DEF QueueOK
<1> QED
  BY <1>1, <1>2

\* A visit empties the queue or finds it empty, whatever it has to send.
LEMMA VisitQueueInv ==
  ASSUME TypeInv, QueueInv, NEW s \in Sessions,
         RegistrationReply(s) \/ MovementReply(s) \/ NothingDue(s),
         burst' = [burst EXCEPT ![s] = 0],
         UNCHANGED <<conn, buf, writable, done_srv_update, moves>>
  PROVE  QueueInv'
<1>1. /\ burst'[s] = 0
      /\ UNCHANGED <<conn, buf, writable, done_srv_update, moves>>
      /\ \A t \in Sessions \ {s} : burst'[t] = burst[t]
  BY QueueTypes DEF net_vars
<1>2. QueueOK(s) /\ MoveOrder(s)
  BY DEF QueueInv, QueueOK
<1>3. CASE NothingDue(s)
  <2>1. /\ UNCHANGED <<status, player_seq, last_relayed>>
        /\ ~RegistrationDue(s) /\ ~MovementDue(s)
    BY <1>3 DEF NothingDue, history_vars
  <2>2. conn[s] = "open" => player_seq[s] = <<>>
    BY <1>2, <2>1 DEF QueueOK, QueueDue
  <2>3. MoveOrder(s)' /\ QueueDue(s)'
    BY <1>1, <1>2, <2>1 DEF QueueOK, MoveOrder, QueueDue, PendingMove,
                            RegistrationDue, MovementDue
  <2>4. QueueShort(s)'
    BY <1>1, <2>1, <2>2 DEF QueueShort
  <2>5. \A t \in Sessions \ {s} : SameQueue(t)
    BY <1>1, <2>1 DEF SameQueue
  <2> QED
    BY <2>3, <2>4, <2>5, Frame DEF QueueOK
<1>4. CASE RegistrationReply(s) \/ MovementReply(s)
  <2>1. /\ player_seq'[s] = <<>>
        /\ status'[s] \in {LOGIN_ACK, MOVE_ACK}
        /\ \A t \in Sessions \ {s} :
             /\ player_seq'[t] = player_seq[t] /\ status'[t] = status[t]
             /\ last_relayed'[t] = last_relayed[t]
    BY <1>4, QueueTypes DEF RegistrationReply, MovementReply,
                                  send_response_to_current_player
  <2>2. \/ last_relayed'[s] = last_relayed[s]
        \/ /\ Len(player_seq[s]) \in 1 .. Len(player_seq[s])
           /\ last_relayed'[s] = player_seq[s][Len(player_seq[s])]
    <3>1. CASE RegistrationReply(s) \/ collision_status[s] = GEM_EAT
      BY <1>4, <3>1 DEF RegistrationReply, MovementReply
    <3>2. CASE MovementReply(s) /\ collision_status[s] # GEM_EAT
      <4>1. player_seq[s] # <<>>
        BY <3>2 DEF MovementReply, MovementDue, TypeInv, MoveQueued
      <4>2. Len(player_seq[s]) \in 1 .. Len(player_seq[s])
        BY <4>1, QueueTypes
      <4> QED
        BY <3>2, <4>2, QueueTypes DEF MovementReply, build_player_json_movment
    <3> QED
      BY <1>4, <3>1, <3>2
  <2>3. MoveOrder(s)'
    <3>1. /\ last_relayed'[s] <= moves[s]
          /\ PendingMove(s) => last_relayed'[s] < moves[s]
      BY <1>2, <2>2 DEF MoveOrder
    <3> QED
      BY <1>1, <1>2, <2>1, <3>1 DEF MoveOrder, PendingMove
  <2>4. QueueDue(s)'
    BY <2>1 DEF QueueDue, MovementDue
  <2>5. QueueShort(s)'
    BY <1>1, <2>1 DEF QueueShort
  <2>6. \A t \in Sessions \ {s} : SameQueue(t)
    BY <1>1, <2>1 DEF SameQueue
  <2> QED
    BY <2>3, <2>4, <2>5, <2>6, Frame DEF QueueOK
<1> QED
  BY <1>3, <1>4

LEMMA ResponseQueueInv ==
  ASSUME TypeInv, QueueInv, NEW k \in visiting, response_to_client_cp(k)
  PROVE  QueueInv'
<1>1. PICK s \in Sessions : s = users_map_main[k]
  BY DEF TypeInv, TypeOK, GameTypeOK
<1>2. CASE Break
  BY <1>2, BreakQueueInv
<1>3. CASE ~Break
  <2>1. /\ RegistrationReply(s) \/ MovementReply(s) \/ NothingDue(s)
        /\ burst' = [burst EXCEPT ![s] = 0]
        /\ UNCHANGED <<conn, buf, writable, done_srv_update, moves>>
    BY <1>1, <1>3 DEF response_to_client_cp, net_vars
  <2> QED
    BY <2>1, VisitQueueInv
<1> QED
  BY <1>2, <1>3

\* A session that has ended keeps the order of its moves and owes nothing.
LEMMA EndQueueInv ==
  ASSUME TypeInv, QueueInv, NEW s \in Sessions,
         PeerInitiatedClose(s) \/ ConnectionLost(s)
  PROVE  QueueInv'
<1>1. CASE Break
  BY <1>1, BreakQueueInv
<1>2. CASE ~Break
  <2>1. /\ conn'[s] = "closed" /\ ~writable'[s]
        /\ UNCHANGED <<player_seq, moves, last_relayed>>
        /\ \A t \in Sessions \ {s} : SameQueue(t)
    BY <1>2, QueueTypes DEF PeerInitiatedClose, ConnectionLost, client_vars,
                            pss_vars, history_vars, SameQueue
  <2>2. MoveOrder(s)
    BY DEF QueueInv, QueueOK
  <2>3. MoveOrder(s)' /\ QueueDue(s)' /\ QueueShort(s)'
    BY <2>1, <2>2 DEF MoveOrder, QueueDue, QueueShort, PendingMove
  <2> QED
    BY <2>1, <2>3, Frame DEF QueueOK
<1> QED
  BY <1>1, <1>2

LEMMA NextQueueInv == TypeInv /\ QueueInv /\ [Next]_vars => QueueInv'
<1> SUFFICES ASSUME TypeInv, QueueInv, [Next]_vars PROVE QueueInv'
  OBVIOUS
<1>1. CASE game_loop_cb \/ UNCHANGED vars
  BY <1>1, StutterQueueInv DEF game_loop_cb, vars, net_vars, pss_vars,
                               client_vars, history_vars
<1>2. CASE \E k \in visiting : response_to_client_cp(k)
  BY <1>2, ResponseQueueInv
<1>3. ASSUME NEW s \in Sessions, Client(s) PROVE QueueInv'
  BY <1>3, EstablishedQueueInv, LoginQueueInv, SendMoveQueueInv, EndQueueInv DEF Client
<1>4. ASSUME NEW s \in Sessions, Writeable(s) PROVE QueueInv'
  BY <1>4, RegistrationQueueInv, MovementQueueInv DEF Writeable
<1> QED
  BY <1>1, <1>2, <1>3, <1>4 DEF Next, Tick

THEOREM QueueInvariant == Spec => [](TypeInv /\ QueueInv)
<1>1. TypeInv /\ QueueInv /\ [Next]_vars => (TypeInv /\ QueueInv)'
  BY NextTypeInv, NextQueueInv
<1>2. Init => TypeInv /\ QueueInv
  BY InitTypeInv, InitQueueInv
<1> QED
  BY <1>1, <1>2, PTL DEF Spec

\* No move is published twice or out of the order the client made them in.
THEOREM MovesAreRelayedOnce == Spec => []MovesRelayedOnce
<1>1. QueueInv => MovesRelayedOnce
  BY DEF QueueInv, QueueOK, MoveOrder, MovesRelayedOnce
<1> QED
  BY <1>1, QueueInvariant, PTL

\* The moves a connected session keeps are due at its next visit.
THEOREM PendingMovesAreQueued == Spec => []PendingMovesQueued
<1>1. QueueInv => PendingMovesQueued
  BY DEF QueueInv, QueueOK, QueueDue, PendingMovesQueued
<1> QED
  BY <1>1, QueueInvariant, PTL

\* The queue and the buffer hold at most one move more than a tick's.
THEOREM PendingIsBounded == Spec => []PendingBound
<1>1. TypeInv /\ QueueInv => PendingBound
  <2> SUFFICES ASSUME TypeInv, QueueInv, NEW s \in Sessions, conn[s] = "open"
               PROVE  Len(player_seq[s]) + (IF PendingMove(s) THEN 1 ELSE 0) <= burst[s] + 1
    BY DEF PendingBound
  <2>1. CASE PendingMove(s)
    BY <2>1, QueueTypes DEF QueueInv, QueueOK, QueueShort
  <2>2. CASE ~PendingMove(s)
    BY <2>2, QueueTypes DEF QueueInv, QueueOK, QueueShort
  <2> QED
    BY <2>1, <2>2
<1> QED
  BY <1>1, QueueInvariant, PTL

=============================================================================
