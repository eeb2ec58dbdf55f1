------------------------- MODULE GameServerIdProofs --------------------------
(***************************************************************************)
(* Theorems about the users map: a connected player is found under its id; *)
(* a client that logs in once has one id and one entry; such clients know  *)
(* of each other exactly as long as they are there; polite clients leave   *)
(* the server without a reason to crash; and for players that log in at    *)
(* most once per connection the server implements GameService, as the      *)
(* invariants say of each action which step of GameService it is.          *)
(***************************************************************************)
EXTENDS GameServerProofs, GameServerService, FiniteSetTheorems

USE DEF LOGIN, LOGIN_ACK, MOVE, MOVE_ACK, OTHER_LOGIN, OTHER_MOVE, LEFT,
        GEM_SCATTER, GEM_EAT, GEM_ACK

\* Two registrations do not read the same clock().
UniqueIds == "same_seed" \notin Mishaps

-----------------------------------------------------------------------------
(***************************************************************************)
(* A registered player is reachable, however often clients log in.         *)
(***************************************************************************)
ReachInv ==
  /\ RegisteredReachable
  /\ \A s \in Sessions : conn[s] = "new" => player_id[s] = 0

\* The map and the ids as the invariant of types gives them.
LEMMA MapTypes ==
  ASSUME TypeInv
  PROVE  /\ users_map_main \in [DOMAIN users_map_main -> Sessions]
         /\ \A k \in DOMAIN users_map_main : users_map_main[k] \in Sessions
         /\ \A k \in DOMAIN users_map_main : k \in Nat /\ k # 0 /\ k <= clock
         /\ visiting \subseteq DOMAIN users_map_main
         /\ clock \in Nat
         /\ player_id \in [Sessions -> 0 .. clock]
         /\ \A s \in Sessions : player_id[s] \in Nat /\ player_id[s] <= clock
         /\ user_json \in [Sessions -> 0 .. clock]
         /\ conn \in [Sessions -> {"new", "open", "closed"}]
         /\ known \in [Sessions -> SUBSET (0 .. clock)]
BY DEF TypeInv, TypeOK, NetTypeOK, PssTypeOK, GameTypeOK, HistoryTypeOK

\* A key of the map is an id, never NULL.
LEMMA KeyNotNull ==
  ASSUME TypeInv, NEW k \in DOMAIN users_map_main
  PROVE  k # 0
BY MapTypes

\* Two registered sessions have different ids.
LEMMA DifferentIds ==
  ASSUME RegisteredReachable, NEW s \in Sessions, NEW t \in Sessions,
         Registered(s), Registered(t), s # t
  PROVE  player_id[s] # player_id[t]
BY DEF RegisteredReachable

LEMMA ReachFrame ==
  ASSUME ReachInv, UNCHANGED <<player_id, users_map_main>>,
         \A t \in Sessions : conn'[t] = "open" => conn[t] \in {"open", "new"},
         \A t \in Sessions : conn'[t] = "new" => conn[t] = "new"
  PROVE  ReachInv'
BY DEF ReachInv, RegisteredReachable, Registered

\* The new id is a new key: the entries of the others stay.
LEMMA RegistrationReach ==
  ASSUME UniqueIds, TypeInv, ReachInv, NEW s \in Sessions, Registration(s)
  PROVE  ReachInv'
<1>1. /\ conn[s] = "open" /\ UNCHANGED conn
      /\ player_id' = [player_id EXCEPT ![s] = clock + 1]
      /\ users_map_main' = hashmapPut(users_map_main, clock + 1, s)
  BY DEF Registration, ServerWriteable, ClockSteps, UniqueIds
<1>2. /\ DOMAIN users_map_main' = DOMAIN users_map_main \cup {clock + 1}
      /\ users_map_main'[clock + 1] = s
      /\ \A k \in DOMAIN users_map_main : k # clock + 1 =>
           users_map_main'[k] = users_map_main[k]
  BY <1>1 DEF hashmapPut
<1>3. \A t \in Sessions : player_id[t] # clock + 1
  BY MapTypes
<1>4. player_id'[s] = clock + 1 /\ \A t \in Sessions \ {s} : player_id'[t] = player_id[t]
  BY <1>1, MapTypes
<1>5. ASSUME NEW t \in Sessions, Registered(t)'
      PROVE  player_id'[t] \in DOMAIN users_map_main' /\ users_map_main'[player_id'[t]] = t
  <2>1. CASE t = s
    BY <1>2, <1>4, <2>1
  <2>2. CASE t # s
    <3>1. Registered(t) /\ player_id'[t] = player_id[t]
      BY <1>1, <1>4, <1>5, <2>2 DEF Registered
    <3>2. player_id[t] \in DOMAIN users_map_main /\ users_map_main[player_id[t]] = t
      BY <3>1 DEF ReachInv, RegisteredReachable
    <3> QED
      BY <1>2, <1>3, <3>1, <3>2
  <2> QED
    BY <2>1, <2>2
<1>6. \A t \in Sessions : conn'[t] = "new" => player_id'[t] = 0
  BY <1>1, <1>4 DEF ReachInv
<1> QED
  BY <1>5, <1>6 DEF ReachInv, RegisteredReachable

\* The put of Movement finds the entry of the session itself.
LEMMA MovementReach ==
  ASSUME TypeInv, ReachInv, NEW s \in Sessions, Movement(s)
  PROVE  ReachInv' /\ UNCHANGED <<player_id, users_map_main>>
<1>1. CASE Break
  <2>1. UNCHANGED <<conn, player_id, users_map_main>>
    BY <1>1 DEF Break, net_vars, pss_vars
  <2> QED
    BY <2>1, ReachFrame
<1>2. CASE ~Break
  <2>1. /\ player_id[s] \in DOMAIN users_map_main
        /\ users_map_main' = hashmapPut(users_map_main, player_id[s], s)
        /\ UNCHANGED <<conn, player_id>>
        /\ conn[s] = "open"
    BY <1>2 DEF Movement, ServerWriteable, PutReturnsNull, hashmapContainsKey
  <2>2. users_map_main[player_id[s]] = s
    BY <2>1, KeyNotNull DEF ReachInv, RegisteredReachable, Registered
  <2>3. users_map_main' = users_map_main
    <3>1. users_map_main \in [DOMAIN users_map_main -> Sessions]
      BY MapTypes
    <3>2. /\ DOMAIN users_map_main' = DOMAIN users_map_main
          /\ users_map_main' \in [DOMAIN users_map_main -> Sessions]
      BY <2>1, <3>1, PutExisting
    <3>3. \A k \in DOMAIN users_map_main : users_map_main'[k] = users_map_main[k]
      BY <2>1, <2>2 DEF hashmapPut
    <3> QED
      BY <3>1, <3>2, <3>3
  <2> QED
    BY <2>1, <2>3, ReachFrame
<1> QED
  BY <1>1, <1>2

\* What leaves the map is the entry of the session that ends.
LEMMA PeerCloseReach ==
  ASSUME TypeInv, ReachInv, NEW s \in Sessions, PeerInitiatedClose(s), ~Break
  PROVE  /\ ReachInv'
         /\ conn[s] = "open" /\ conn' = [conn EXCEPT ![s] = "closed"]
         /\ UNCHANGED <<player_id, user_json>>
         /\ known' = Leave(s) /\ ~CloseFaults(s)
         /\ DOMAIN users_map_main' = DOMAIN users_map_main \ {player_id[s]}
         /\ \A k \in DOMAIN users_map_main' : users_map_main'[k] = users_map_main[k]
<1>1. /\ conn[s] = "open" /\ conn' = [conn EXCEPT ![s] = "closed"]
      /\ UNCHANGED <<player_id, user_json>>
      /\ known' = Leave(s) /\ ~CloseFaults(s)
      /\ users_map_main' = hashmapRemove(users_map_main, player_id[s])
  BY DEF PeerInitiatedClose
<1>2. /\ DOMAIN users_map_main' = DOMAIN users_map_main \ {player_id[s]}
      /\ \A k \in DOMAIN users_map_main' : users_map_main'[k] = users_map_main[k]
  BY <1>1 DEF hashmapRemove
<1>3. ASSUME NEW t \in Sessions, Registered(t)'
      PROVE  player_id'[t] \in DOMAIN users_map_main' /\ users_map_main'[player_id'[t]] = t
  <2>1. t # s /\ Registered(t)
    BY <1>1, <1>3, MapTypes DEF Registered
  <2>2. player_id[t] \in DOMAIN users_map_main /\ users_map_main[player_id[t]] = t
    BY <2>1 DEF ReachInv, RegisteredReachable
  <2>3. player_id[t] # player_id[s]
    <3>1. CASE player_id[s] = 0
      BY <2>1, <3>1 DEF Registered
    <3>2. CASE player_id[s] # 0
      BY <1>1, <2>1, <3>2, DifferentIds DEF ReachInv, Registered
    <3> QED
      BY <3>1, <3>2
  <2> QED
    BY <1>1, <1>2, <2>2, <2>3
<1>4. \A t \in Sessions : conn'[t] = "new" => player_id'[t] = 0
  BY <1>1, MapTypes DEF ReachInv
<1> QED
  BY <1>1, <1>2, <1>3, <1>4 DEF ReachInv, RegisteredReachable

\* The actions that touch neither the map nor an id.
IdsUntouched(s) ==
  \/ Established(s) \/ SendLogin(s) \/ \E hit \in BOOLEAN : SendMove(s, hit)
  \/ ConnectionLost(s)

LEMMA UntouchedReach ==
  ASSUME TypeInv, ReachInv,
         \/ Break \/ Tick \/ UNCHANGED vars
         \/ \E s \in Sessions : IdsUntouched(s)
  PROVE  ReachInv' /\ UNCHANGED <<player_id, users_map_main>>
<1>1. CASE Break \/ UNCHANGED vars
  <2>1. UNCHANGED <<conn, player_id, users_map_main>>
    BY <1>1 DEF Break, vars, net_vars, pss_vars
  <2> QED
    BY <2>1, ReachFrame
<1>2. CASE Tick
  <2>1. UNCHANGED <<conn, player_id, users_map_main>>
    BY <1>2 DEF Tick, game_loop_cb, response_to_client_cp, Break, net_vars, pss_vars
  <2> QED
    BY <2>1, ReachFrame
<1>3. ASSUME NEW s \in Sessions, IdsUntouched(s)
      PROVE  ReachInv' /\ UNCHANGED <<player_id, users_map_main>>
  <2>1. UNCHANGED <<player_id, users_map_main>>
    BY <1>3 DEF IdsUntouched, Established, SendLogin, SendMove, Receive,
                ConnectionLost, pss_vars
  <2>2. \/ UNCHANGED conn
        \/ conn[s] = "new" /\ conn' = [conn EXCEPT ![s] = "open"]
        \/ conn' = [conn EXCEPT ![s] = "closed"]
    BY <1>3 DEF IdsUntouched, Established, SendLogin, SendMove, Receive, ConnectionLost
  <2>3. /\ \A t \in Sessions : conn'[t] = "open" => conn[t] \in {"open", "new"}
        /\ \A t \in Sessions : conn'[t] = "new" => conn[t] = "new"
    BY <2>2, MapTypes
  <2> QED
    BY <2>1, <2>3, ReachFrame
<1> QED
  BY <1>1, <1>2, <1>3

LEMMA NextReach ==
  ASSUME UniqueIds
  PROVE  TypeInv /\ ReachInv /\ [Next]_vars => ReachInv'
<1> SUFFICES ASSUME TypeInv, ReachInv, [Next]_vars PROVE ReachInv'
  OBVIOUS
<1>1. CASE Tick \/ UNCHANGED vars
  BY <1>1, UntouchedReach
<1>2. ASSUME NEW s \in Sessions, Client(s) PROVE ReachInv'
  <2>1. CASE PeerInitiatedClose(s)
    BY <2>1, PeerCloseReach, UntouchedReach
  <2> QED
    BY <1>2, <2>1, UntouchedReach DEF Client, IdsUntouched
<1>3. ASSUME NEW s \in Sessions, Writeable(s) PROVE ReachInv'
  BY <1>3, RegistrationReach, MovementReach DEF Writeable
<1> QED
  BY <1>1, <1>2, <1>3 DEF Next

LEMMA InitReach == Init => ReachInv
BY DEF Init, ReachInv, RegisteredReachable, Registered

\* With different ids, a connected player is found in the users map under its
\* id, however clients log in, play, leave or lose their connections.
THEOREM RegisteredIsReachable == ASSUME UniqueIds PROVE Spec => []RegisteredReachable
<1>1. Spec => [](TypeInv /\ ReachInv)
  <2>1. TypeInv /\ ReachInv /\ [Next]_vars => (TypeInv /\ ReachInv)'
    BY NextTypeInv, NextReach
  <2>2. Init => TypeInv /\ ReachInv
    BY InitTypeInv, InitReach
  <2> QED
    BY <2>1, <2>2, PTL DEF Spec
<1>2. ReachInv => RegisteredReachable
  BY DEF ReachInv
<1> QED
  BY <1>1, <1>2, PTL

-----------------------------------------------------------------------------
(***************************************************************************)
(* Clients that log in at most once per connection: a session has one id,  *)
(* under which its only entry stands, and plays after its first response.  *)
(***************************************************************************)
OneLogin == UniqueIds /\ MaxLogins <= 1

PendingLogin(s) == writable[s] /\ buf[s].status = LOGIN

LoginOK(s) ==
  /\ logins[s] <= 1
  /\ player_id[s] # 0 => logins[s] = 1 /\ ~PendingLogin(s)
  /\ PendingLogin(s) => logins[s] = 1
  /\ user_json[s] \in {0, player_id[s]}
  /\ status[s] = MOVE => user_json[s] # 0
  /\ logins[s] = 1 /\ user_json[s] = 0 => moves[s] = 0
  /\ PendingMove(s) => moves[s] > 0

LoginInv == \A s \in Sessions : LoginOK(s)
KeyIsId == \A k \in DOMAIN users_map_main : player_id[users_map_main[k]] = k

SameLogin(s) ==
  /\ buf'[s] = buf[s] /\ writable'[s] = writable[s] /\ status'[s] = status[s]
  /\ player_id'[s] = player_id[s] /\ user_json'[s] = user_json[s]
  /\ logins'[s] = logins[s] /\ moves'[s] = moves[s]

LEMMA SameLoginOK ==
  ASSUME NEW s, LoginOK(s), SameLogin(s)
  PROVE  LoginOK(s)'
BY DEF LoginOK, SameLogin, PendingLogin, PendingMove

LEMMA LoginFrame ==
  ASSUME LoginInv, NEW s \in Sessions, LoginOK(s)',
         \A t \in Sessions \ {s} : SameLogin(t)
  PROVE  LoginInv'
BY SameLoginOK DEF LoginInv

LEMMA LoginStutter ==
  ASSUME LoginInv,
         UNCHANGED <<buf, writable, status, player_id, user_json, logins, moves>>
  PROVE  LoginInv'
BY SameLoginOK DEF LoginInv, SameLogin

LEMMA LoginTypes ==
  ASSUME TypeInv, NEW s \in Sessions
  PROVE  /\ buf \in [Sessions -> Requests] /\ writable \in [Sessions -> BOOLEAN]
         /\ status \in [Sessions -> {LOGIN, LOGIN_ACK, MOVE, MOVE_ACK, LEFT}]
         /\ logins \in [Sessions -> Nat] /\ logins[s] \in Nat
         /\ moves \in [Sessions -> Nat] /\ moves[s] \in Nat
         /\ player_id \in [Sessions -> 0 .. clock] /\ player_id[s] \in Nat
         /\ user_json \in [Sessions -> 0 .. clock] /\ user_json[s] \in Nat
BY DEF TypeInv, TypeOK, NetTypeOK, PssTypeOK, ClientTypeOK, GameTypeOK

LEMMA InitLogin == Init => LoginInv /\ KeyIsId
BY DEF Init, LoginInv, LoginOK, KeyIsId, PendingLogin, PendingMove, EmptyMap, NoRequest

LEMMA SendLoginStep ==
  ASSUME OneLogin, TypeInv, LoginInv, NEW s \in Sessions, SendLogin(s)
  PROVE  LoginInv'
<1>1. /\ logins[s] < MaxLogins /\ moves[s] = 0
      /\ buf'[s] = LoginRequest
      /\ UNCHANGED <<status, player_id, user_json, moves>>
      /\ logins'[s] = logins[s] + 1
      /\ \A t \in Sessions \ {s} : SameLogin(t)
  BY LoginTypes DEF SendLogin, Receive, pss_vars, SameLogin
<1>2. logins[s] = 0 /\ logins'[s] = 1
  BY <1>1, LoginTypes, ConstantsAssumption DEF OneLogin
<1>3. LoginOK(s) /\ player_id[s] = 0
  BY <1>2 DEF LoginInv, LoginOK
<1>4. ~PendingMove(s)'
  BY <1>1 DEF PendingMove, LoginRequest
<1>5. LoginOK(s)'
  BY <1>1, <1>2, <1>3, <1>4 DEF LoginOK
<1> QED
  BY <1>1, <1>5, LoginFrame

LEMMA SendMoveStep ==
  ASSUME TypeInv, LoginInv, NEW s \in Sessions, NEW hit \in BOOLEAN, SendMove(s, hit)
  PROVE  /\ LoginInv'
         /\ \A t \in Sessions \ {s} : PendingMove(t)' = PendingMove(t)
<1>1. \E cs, gems, sc : Receive(s, MoveRequest(moves[s] + 1, cs, gems, sc))
  BY DEF SendMove
<1>2. PICK cs, gems, sc : Receive(s, MoveRequest(moves[s] + 1, cs, gems, sc))
  BY <1>1
<1>3. Playing(s) /\ moves' = [moves EXCEPT ![s] = @ + 1] /\ UNCHANGED logins
  BY DEF SendMove
<1>4. /\ buf'[s] = MoveRequest(moves[s] + 1, cs, gems, sc)
      /\ UNCHANGED <<status, player_id, user_json, logins>>
      /\ moves'[s] = moves[s] + 1
      /\ \A t \in Sessions \ {s} : SameLogin(t)
  BY <1>2, <1>3, LoginTypes DEF Receive, pss_vars, SameLogin
<1>5. ~PendingLogin(s)'
  BY <1>4 DEF PendingLogin, MoveRequest
<1>6. LoginOK(s) /\ moves'[s] > 0
  BY <1>4, LoginTypes DEF LoginInv
<1>7. ~(logins[s] = 1 /\ user_json[s] = 0)
  BY <1>3 DEF Playing
<1>8. LoginOK(s)'
  BY <1>4, <1>5, <1>6, <1>7 DEF LoginOK
<1> QED
  BY <1>4, <1>8, LoginFrame DEF SameLogin, PendingMove

LEMMA RegistrationStep ==
  ASSUME OneLogin, TypeInv, LoginInv, KeyIsId, NEW s \in Sessions, Registration(s)
  PROVE  /\ LoginInv' /\ KeyIsId'
         /\ player_id[s] = 0 /\ user_json[s] = 0
         /\ DOMAIN users_map_main' = DOMAIN users_map_main \cup {clock + 1}
         /\ users_map_main'[clock + 1] = s
         /\ player_id' = [player_id EXCEPT ![s] = clock + 1]
<1>1. /\ player_id' = [player_id EXCEPT ![s] = clock + 1]
      /\ users_map_main' = hashmapPut(users_map_main, clock + 1, s)
      /\ PendingLogin(s)
      /\ ~writable'[s] /\ status'[s] = LOGIN /\ player_id'[s] = clock + 1
      /\ UNCHANGED <<buf, user_json, logins, moves>>
      /\ \A t \in Sessions \ {s} : SameLogin(t)
  BY LoginTypes DEF Registration, ServerWriteable, ClockSteps, UniqueIds, OneLogin,
                    PendingLogin, client_vars, SameLogin
<1>2. LoginOK(s) /\ player_id[s] = 0 /\ logins[s] = 1 /\ user_json[s] = 0
  BY <1>1 DEF LoginInv, LoginOK
<1>3. LoginOK(s)'
  BY <1>1, <1>2 DEF LoginOK, PendingLogin, PendingMove
<1>4. LoginInv'
  BY <1>1, <1>3, LoginFrame
<1>5. /\ DOMAIN users_map_main' = DOMAIN users_map_main \cup {clock + 1}
      /\ users_map_main'[clock + 1] = s
      /\ \A k \in DOMAIN users_map_main : k # clock + 1 =>
           users_map_main'[k] = users_map_main[k]
  BY <1>1 DEF hashmapPut
<1>6. ASSUME NEW k \in DOMAIN users_map_main'
      PROVE  player_id'[users_map_main'[k]] = k
  <2>1. CASE k = clock + 1
    BY <1>1, <1>5, <2>1
  <2>2. CASE k # clock + 1
    <3>1. k \in DOMAIN users_map_main /\ users_map_main'[k] = users_map_main[k]
      BY <1>5, <2>2
    <3>2. player_id[users_map_main[k]] = k /\ users_map_main[k] \in Sessions
      BY <3>1, MapTypes DEF KeyIsId
    <3>3. users_map_main[k] # s
      BY <1>2, <3>1, <3>2, KeyNotNull
    <3> QED
      BY <1>1, <3>1, <3>2, <3>3 DEF SameLogin
  <2> QED
    BY <2>1, <2>2
<1> QED
  BY <1>1, <1>2, <1>4, <1>5, <1>6 DEF KeyIsId

LEMMA MovementStep ==
  ASSUME TypeInv, LoginInv, NEW s \in Sessions, Movement(s)
  PROVE  LoginInv'
<1>1. CASE Break
  BY <1>1, LoginStutter DEF Break, net_vars, pss_vars, client_vars
<1>2. CASE ~Break
  <2>1. /\ player_id[s] \in DOMAIN users_map_main /\ PendingMove(s)
        /\ ~writable'[s] /\ status'[s] = MOVE
        /\ UNCHANGED <<buf, player_id, user_json, logins, moves>>
        /\ \A t \in Sessions \ {s} : SameLogin(t)
    BY <1>2, LoginTypes DEF Movement, ServerWriteable, PutReturnsNull,
            hashmapContainsKey, PendingMove, client_vars, SameLogin
  <2>2. LoginOK(s) /\ player_id[s] # 0 /\ logins[s] = 1 /\ moves[s] > 0
    BY <2>1, KeyNotNull DEF LoginInv, LoginOK
  <2>3. user_json[s] # 0
    BY <2>2, LoginTypes DEF LoginOK
  <2>4. LoginOK(s)'
    BY <2>1, <2>2, <2>3 DEF LoginOK, PendingLogin, PendingMove
  <2> QED
    BY <2>1, <2>4, LoginFrame
<1> QED
  BY <1>1, <1>2

\* A visit gives a session the json of its id.
LEMMA ReplyStep ==
  ASSUME TypeInv, LoginInv, KeyIsId, NEW s \in Sessions,
         player_id[s] # 0,
         RegistrationReply(s) \/ MovementReply(s) \/ NothingDue(s),
         UNCHANGED <<buf, writable, player_id, logins, moves>>
  PROVE  LoginInv'
<1>1. CASE NothingDue(s)
  BY <1>1, LoginStutter DEF NothingDue
<1>2. CASE RegistrationReply(s) \/ MovementReply(s)
  <2>1. /\ user_json'[s] = player_id[s] /\ status'[s] \in {LOGIN_ACK, MOVE_ACK}
        /\ \A t \in Sessions \ {s} : SameLogin(t)
    BY <1>2, LoginTypes DEF RegistrationReply, MovementReply, SameLogin,
            build_player_json_registrator, build_player_json_movment,
            build_gems_score_json
  <2>2. LoginOK(s)
    BY DEF LoginInv
  <2>3. LoginOK(s)'
    BY <2>1, <2>2 DEF LoginOK, PendingLogin, PendingMove
  <2> QED
    BY <2>1, <2>3, LoginFrame
<1> QED
  BY <1>1, <1>2

\* What ends or interrupts a session leaves the others' logins alone.
LEMMA CloseStep ==
  ASSUME TypeInv, ReachInv, LoginInv, KeyIsId, NEW s \in Sessions,
         PeerInitiatedClose(s)
  PROVE  LoginInv' /\ KeyIsId'
<1>1. CASE Break
  <2>1. LoginInv'
    BY <1>1, LoginStutter DEF Break, net_vars, pss_vars, client_vars
  <2>2. UNCHANGED <<player_id, users_map_main>>
    BY <1>1 DEF Break, pss_vars
  <2> QED
    BY <2>1, <2>2 DEF KeyIsId
<1>2. CASE ~Break
  <2>1. /\ ~writable'[s] /\ status'[s] = LEFT
        /\ UNCHANGED <<buf, player_id, user_json, logins, moves>>
        /\ \A t \in Sessions \ {s} : SameLogin(t)
    BY <1>2, LoginTypes DEF PeerInitiatedClose, client_vars, SameLogin
  <2>2. LoginOK(s)
    BY DEF LoginInv
  <2>3. LoginOK(s)'
    BY <2>1, <2>2 DEF LoginOK, PendingLogin, PendingMove
  <2>4. LoginInv'
    BY <2>1, <2>3, LoginFrame
  <2>5. KeyIsId'
    BY <1>2, <2>1, PeerCloseReach DEF KeyIsId
  <2> QED
    BY <2>4, <2>5
<1> QED
  BY <1>1, <1>2

LEMMA DropStep ==
  ASSUME TypeInv, LoginInv, NEW s \in Sessions, ConnectionLost(s)
  PROVE  LoginInv'
<1>1. /\ ~writable'[s] /\ status'[s] = status[s]
      /\ UNCHANGED <<buf, player_id, user_json, logins, moves>>
      /\ \A t \in Sessions \ {s} : SameLogin(t)
  BY LoginTypes DEF ConnectionLost, pss_vars, client_vars, SameLogin
<1>2. LoginOK(s)
  BY DEF LoginInv
<1>3. LoginOK(s)'
  BY <1>1, <1>2 DEF LoginOK, PendingLogin, PendingMove
<1> QED
  BY <1>1, <1>3, LoginFrame

LEMMA TickStep ==
  ASSUME TypeInv, LoginInv, KeyIsId, Tick
  PROVE  LoginInv'
<1>1. CASE game_loop_cb
  BY <1>1, LoginStutter DEF game_loop_cb, net_vars, pss_vars, client_vars
<1>2. ASSUME NEW k \in visiting, response_to_client_cp(k)
      PROVE  LoginInv'
  <2>1. CASE Break
    BY <2>1, LoginStutter DEF Break, net_vars, pss_vars, client_vars
  <2>2. CASE ~Break
    <3>1. PICK s : s = users_map_main[k]
      OBVIOUS
    <3>2. s \in Sessions /\ player_id[s] = k /\ k # 0
      BY <3>1, MapTypes DEF KeyIsId
    <3>3. /\ RegistrationReply(s) \/ MovementReply(s) \/ NothingDue(s)
          /\ UNCHANGED <<buf, writable, player_id, logins, moves>>
      BY <1>2, <2>2, <3>1 DEF response_to_client_cp, net_vars
    <3> QED
      BY <3>2, <3>3, ReplyStep
  <2> QED
    BY <2>1, <2>2
<1> QED
  BY <1>1, <1>2 DEF Tick

LEMMA NextLogin ==
  ASSUME OneLogin
  PROVE  TypeInv /\ ReachInv /\ LoginInv /\ KeyIsId /\ [Next]_vars
           => LoginInv' /\ KeyIsId'
<1> SUFFICES ASSUME TypeInv, ReachInv, LoginInv, KeyIsId, [Next]_vars
             PROVE  LoginInv' /\ KeyIsId'
  OBVIOUS
<1>1. CASE UNCHANGED vars
  <2>1. LoginInv'
    BY <1>1, LoginStutter DEF vars, net_vars, pss_vars, client_vars
  <2>2. UNCHANGED <<player_id, users_map_main>>
    BY <1>1, UntouchedReach
  <2> QED
    BY <2>1, <2>2 DEF KeyIsId
<1>2. CASE Tick
  <2>1. UNCHANGED <<player_id, users_map_main>>
    BY <1>2, UntouchedReach
  <2> QED
    BY <1>2, <2>1, TickStep DEF KeyIsId
<1>3. ASSUME NEW s \in Sessions, Client(s)
      PROVE  LoginInv' /\ KeyIsId'
  <2>1. CASE PeerInitiatedClose(s)
    BY <2>1, CloseStep
  <2>2. CASE IdsUntouched(s)
    <3>1. UNCHANGED <<player_id, users_map_main>>
      BY <2>2, UntouchedReach
    <3>2. CASE Established(s)
      <4>1. UNCHANGED <<buf, writable, status, player_id, user_json, logins, moves>>
        BY <3>2 DEF Established, client_vars
      <4> QED
        BY <4>1, <3>1, LoginStutter DEF KeyIsId
    <3>3. LoginInv'
      BY <2>2, <3>2, SendLoginStep, SendMoveStep, DropStep DEF IdsUntouched
    <3> QED
      BY <3>1, <3>3 DEF KeyIsId
  <2> QED
    BY <1>3, <2>1, <2>2 DEF Client, IdsUntouched
<1>4. ASSUME NEW s \in Sessions, Writeable(s)
      PROVE  LoginInv' /\ KeyIsId'
  <2>1. CASE Registration(s)
    BY <2>1, RegistrationStep
  <2>2. CASE Movement(s)
    BY <2>2, MovementStep, MovementReach DEF KeyIsId
  <2> QED
    BY <1>4, <2>1, <2>2 DEF Writeable
<1> QED
  BY <1>1, <1>2, <1>3, <1>4 DEF Next

\* The three invariants together.
OneLoginInv == TypeInv /\ ReachInv /\ LoginInv /\ KeyIsId

LEMMA InitOneLogin == Init => OneLoginInv
BY InitTypeInv, InitReach, InitLogin DEF OneLoginInv

LEMMA NextOneLogin ==
  ASSUME OneLogin
  PROVE  OneLoginInv /\ [Next]_vars => OneLoginInv'
BY NextTypeInv, NextReach, NextLogin DEF OneLoginInv, OneLogin

-----------------------------------------------------------------------------
(***************************************************************************)
(* Who knows of whom: nobody who is there is missing from a client's game, *)
(* and nobody the server has forgotten stays in it.                        *)
(***************************************************************************)

\* A player whose registration has been announced.
Announced(s) == Registered(s) /\ user_json[s] # 0

RosterInv ==
  /\ \A s, t \in Sessions :
       Announced(s) /\ Announced(t) /\ s # t => player_id[t] \in known[s]
  /\ NoGhosts
  /\ \A s \in Sessions : known[s] # {} => player_id[s] # 0

LEMMA InitRoster == Init => RosterInv
BY DEF Init, RosterInv, Announced, Registered, NoGhosts

\* Steps that announce nobody and make nobody leave.
LEMMA RosterFrame ==
  ASSUME RosterInv, UNCHANGED known,
         DOMAIN users_map_main \subseteq DOMAIN users_map_main',
         \A t \in Sessions : Announced(t)' => Announced(t),
         \A t \in Sessions : player_id[t] # 0 => player_id'[t] = player_id[t],
         \A t \in Sessions : conn'[t] = "open" => conn[t] = "open" \/ player_id[t] = 0
  PROVE  RosterInv'
<1>1. ASSUME NEW s \in Sessions, NEW t \in Sessions,
             Announced(s)', Announced(t)', s # t
      PROVE  player_id'[t] \in known'[s]
  BY <1>1 DEF RosterInv, Announced, Registered
<1>2. ASSUME NEW s \in Sessions, conn'[s] = "open"
      PROVE  known'[s] \subseteq DOMAIN users_map_main'
  BY <1>2 DEF RosterInv, NoGhosts
<1>3. \A s \in Sessions : known'[s] # {} => player_id'[s] # 0
  BY DEF RosterInv
<1> QED
  BY <1>1, <1>2, <1>3 DEF RosterInv, NoGhosts

\* Registered sessions stand in the map under their ids, so each other one is
\* among the recipients of s.
LEMMA OthersAreRecipients ==
  ASSUME OneLoginInv, NEW s \in Sessions, NEW t \in Sessions,
         Registered(s), Registered(t), s # t
  PROVE  /\ player_id[t] \in Others(s) /\ users_map_main[player_id[t]] = t
         /\ t \in Recipients(s)
<1>1. player_id[s] # player_id[t]
  BY DifferentIds DEF OneLoginInv, ReachInv
<1>2. /\ player_id[s] \in DOMAIN users_map_main
      /\ player_id[t] \in DOMAIN users_map_main
      /\ users_map_main[player_id[t]] = t
  BY DEF OneLoginInv, ReachInv, RegisteredReachable
<1> QED
  BY <1>1, <1>2 DEF Others, Recipients, MoreThanOneEntry

\* What a client is told are keys of the map, and it is told only if it has one.
LEMMA ToldKeys ==
  ASSUME OneLoginInv, NEW s \in Sessions, NEW r \in Sessions,
         player_id[s] \in DOMAIN users_map_main
  PROVE  /\ Told(r, s) \subseteq DOMAIN users_map_main
         /\ Told(r, s) # {} => player_id[r] # 0
<1>1. \A k \in Others(s) : k \in DOMAIN users_map_main /\ player_id[users_map_main[k]] = k
  BY DEF OneLoginInv, KeyIsId, Others
<1>2. r \in Recipients(s) => player_id[r] # 0
  BY <1>1, KeyNotNull DEF Recipients, OneLoginInv
<1>3. player_id[s] # 0
  BY KeyNotNull DEF OneLoginInv
<1> QED
  BY <1>1, <1>2, <1>3 DEF Told

LEMMA RegistrationReplyRoster ==
  ASSUME OneLoginInv, RosterInv, NEW s \in Sessions,
         player_id[s] \in DOMAIN users_map_main, RegistrationReply(s),
         UNCHANGED <<conn, player_id, users_map_main>>
  PROVE  RosterInv'
<1>1. player_id[s] # 0
  BY KeyNotNull DEF OneLoginInv
<1>2. /\ \A r \in Sessions : known'[r] = known[r] \cup Told(r, s)
      /\ \A r \in Sessions \ {s} : user_json'[r] = user_json[r]
  BY MapTypes DEF RegistrationReply, OneLoginInv
<1>3. ASSUME NEW a \in Sessions, NEW b \in Sessions,
             Announced(a)', Announced(b)', a # b
      PROVE  player_id'[b] \in known'[a]
  <2>1. Registered(a) /\ Registered(b)
    BY <1>3 DEF Announced, Registered
  <2>2. CASE a = s
    BY <1>2, <2>1, <2>2, <1>3, OthersAreRecipients DEF Told
  <2>3. CASE b = s
    BY <1>2, <2>1, <2>3, <1>3, OthersAreRecipients DEF Told
  <2>4. CASE a # s /\ b # s
    BY <1>2, <1>3, <2>1, <2>4 DEF RosterInv, Announced
  <2> QED
    BY <2>2, <2>3, <2>4
<1>4. ASSUME NEW a \in Sessions, conn'[a] = "open"
      PROVE  known'[a] \subseteq DOMAIN users_map_main'
  BY <1>1, <1>2, <1>4, ToldKeys DEF RosterInv, NoGhosts
<1>5. \A a \in Sessions : known'[a] # {} => player_id'[a] # 0
  BY <1>1, <1>2, ToldKeys DEF RosterInv
<1> QED
  BY <1>3, <1>4, <1>5 DEF RosterInv, NoGhosts

LEMMA TickRoster ==
  ASSUME OneLoginInv, RosterInv, Tick
  PROVE  RosterInv'
<1>1. UNCHANGED <<player_id, users_map_main, conn>>
  BY UntouchedReach DEF OneLoginInv, Tick, game_loop_cb, response_to_client_cp,
                        Break, net_vars
<1>2. CASE Break \/ game_loop_cb
  <2>1. UNCHANGED <<user_json, known>>
    BY <1>2 DEF Break, game_loop_cb, pss_vars, history_vars
  <2> QED
    BY <1>1, <2>1, RosterFrame DEF Announced, Registered
<1>3. ASSUME NEW k \in visiting, response_to_client_cp(k), ~Break
      PROVE  RosterInv'
  <2>1. PICK s : s = users_map_main[k]
    OBVIOUS
  <2>2. s \in Sessions /\ player_id[s] = k /\ k # 0 /\ LoginOK(s)
    BY <2>1, MapTypes DEF OneLoginInv, KeyIsId, LoginInv
  <2>3. RegistrationReply(s) \/ MovementReply(s) \/ NothingDue(s)
    BY <1>3, <2>1 DEF response_to_client_cp
  <2>4. CASE NothingDue(s)
    BY <1>1, <2>4, RosterFrame DEF NothingDue, history_vars, Announced, Registered
  <2>5. CASE MovementReply(s)
    <3>1. user_json[s] # 0
      BY <2>2, <2>5 DEF LoginOK, MovementReply, MovementDue
    <3>2. UNCHANGED known /\ \A t \in Sessions \ {s} : user_json'[t] = user_json[t]
      BY <2>5, MapTypes DEF MovementReply, OneLoginInv
    <3>3. \A t \in Sessions : Announced(t)' => Announced(t)
      BY <1>1, <3>1, <3>2 DEF Announced, Registered
    <3> QED
      BY <1>1, <3>2, <3>3, RosterFrame
  <2>6. CASE RegistrationReply(s)
    BY <1>1, <2>2, <2>6, MapTypes, RegistrationReplyRoster DEF OneLoginInv
  <2> QED
    BY <2>3, <2>4, <2>5, <2>6
<1> QED
  BY <1>2, <1>3 DEF Tick

\* A new id is nobody's yet, and not announced.
LEMMA RegistrationRoster ==
  ASSUME OneLogin, OneLoginInv, RosterInv, NEW s \in Sessions, Registration(s)
  PROVE  RosterInv'
<1>1. /\ player_id[s] = 0 /\ user_json[s] = 0
      /\ DOMAIN users_map_main' = DOMAIN users_map_main \cup {clock + 1}
      /\ player_id' = [player_id EXCEPT ![s] = clock + 1]
  BY RegistrationStep DEF OneLoginInv
<1>2. UNCHANGED <<conn, user_json, known>>
  BY DEF Registration, history_vars
<1>3. /\ \A t \in Sessions : player_id[t] # 0 => player_id'[t] = player_id[t]
      /\ \A t \in Sessions \ {s} : player_id'[t] = player_id[t]
  BY <1>1, MapTypes DEF OneLoginInv
<1>4. \A t \in Sessions : Announced(t)' => Announced(t)
  BY <1>1, <1>2, <1>3 DEF Announced, Registered
<1> QED
  BY <1>1, <1>2, <1>3, <1>4, RosterFrame

\* The clients that stay have deleted the player whose entry is removed.
LEMMA CloseRoster ==
  ASSUME OneLoginInv, RosterInv, NEW s \in Sessions, PeerInitiatedClose(s), ~Break
  PROVE  RosterInv'
<1>1. /\ conn[s] = "open" /\ conn' = [conn EXCEPT ![s] = "closed"]
      /\ UNCHANGED <<player_id, user_json>>
      /\ known' = Leave(s) /\ ~CloseFaults(s)
      /\ DOMAIN users_map_main' = DOMAIN users_map_main \ {player_id[s]}
  BY PeerCloseReach DEF OneLoginInv
<1>2. /\ user_json[s] \in {0, player_id[s]}
      /\ conn'[s] # "open"
      /\ \A t \in Sessions \ {s} : conn'[t] = conn[t]
  BY <1>1, MapTypes DEF OneLoginInv, LoginInv, LoginOK
<1>3. \A r \in Sessions :
        known'[r] = IF r \in Recipients(s) THEN known[r] \ {user_json[s]} ELSE known[r]
  BY <1>1 DEF Leave
<1>4. ASSUME NEW a \in Sessions, NEW b \in Sessions,
             Announced(a)', Announced(b)', a # b
      PROVE  player_id'[b] \in known'[a]
  <2>1. Announced(a) /\ Announced(b) /\ b # s
    BY <1>1, <1>2, <1>4 DEF Announced, Registered
  <2>2. player_id[b] \in known[a] /\ player_id[b] # 0
    BY <1>4, <2>1 DEF RosterInv, Announced, Registered
  <2>3. player_id[b] # user_json[s]
    <3>1. CASE user_json[s] = 0
      BY <2>2, <3>1
    <3>2. CASE user_json[s] # 0
      <4>1. Registered(s) /\ user_json[s] = player_id[s]
        BY <1>1, <1>2, <3>2 DEF Registered
      <4> QED
        BY <2>1, <4>1, DifferentIds DEF OneLoginInv, ReachInv, Announced
    <3> QED
      BY <3>1, <3>2
  <2> QED
    BY <1>1, <1>3, <2>2, <2>3
<1>5. ASSUME NEW a \in Sessions, conn'[a] = "open"
      PROVE  known'[a] \subseteq DOMAIN users_map_main'
  <2>1. a # s /\ conn[a] = "open" /\ known[a] \subseteq DOMAIN users_map_main
    BY <1>2, <1>5 DEF RosterInv, NoGhosts
  <2>2. player_id[s] \notin known'[a]
    <3>1. CASE player_id[s] = 0
      BY <1>3, <2>1, <3>1, KeyNotNull DEF OneLoginInv
    <3>2. CASE known[a] = {}
      BY <1>3, <3>2
    <3>3. CASE player_id[s] # 0 /\ known[a] # {}
      <4>1. Registered(s) /\ Registered(a)
        BY <1>1, <2>1, <3>3 DEF Registered, RosterInv
      <4>2. /\ a \in Recipients(s)
            /\ MoreThanOneEntry(users_map_main)
        BY <2>1, <4>1, OthersAreRecipients DEF Others
      <4>3. user_json[s] = player_id[s]
        BY <1>1, <1>2, <4>2 DEF CloseFaults
      <4> QED
        BY <1>3, <4>2, <4>3
    <3> QED
      BY <3>1, <3>2, <3>3
  <2> QED
    BY <1>1, <1>3, <2>1, <2>2
<1>6. \A a \in Sessions : known'[a] # {} => player_id'[a] # 0
  BY <1>1, <1>3 DEF RosterInv
<1> QED
  BY <1>4, <1>5, <1>6 DEF RosterInv, NoGhosts

\* The other steps of a client, and moves, announce nobody.
LEMMA PlayRoster ==
  ASSUME OneLoginInv, RosterInv, NEW s \in Sessions,
         IdsUntouched(s) \/ Movement(s) \/ Break \/ UNCHANGED vars
  PROVE  RosterInv'
<1>1. UNCHANGED <<player_id, users_map_main>>
  BY UntouchedReach, MovementReach DEF OneLoginInv
<1>2. UNCHANGED <<user_json, known>>
  BY DEF IdsUntouched, Established, SendLogin, SendMove, Receive, ConnectionLost,
         Movement, Break, vars, pss_vars, history_vars
<1>3. \/ UNCHANGED conn
      \/ conn[s] = "new" /\ conn' = [conn EXCEPT ![s] = "open"]
      \/ conn' = [conn EXCEPT ![s] = "closed"]
  BY DEF IdsUntouched, Established, SendLogin, SendMove, Receive, ConnectionLost,
         Movement, Break, vars, net_vars
<1>4. \A t \in Sessions : conn'[t] = "open" => conn[t] = "open" \/ player_id[t] = 0
  BY <1>3, MapTypes DEF OneLoginInv, ReachInv
<1>5. \A t \in Sessions : Announced(t)' => Announced(t)
  BY <1>1, <1>2, <1>4 DEF Announced, Registered
<1> QED
  BY <1>1, <1>2, <1>4, <1>5, RosterFrame

LEMMA NextRoster ==
  ASSUME OneLogin
  PROVE  OneLoginInv /\ RosterInv /\ [Next]_vars => RosterInv'
<1> SUFFICES ASSUME OneLoginInv, RosterInv, [Next]_vars PROVE RosterInv'
  OBVIOUS
<1>1. CASE UNCHANGED vars
  BY <1>1, RosterFrame DEF vars, net_vars, pss_vars, history_vars, Announced, Registered
<1>2. CASE Tick
  BY <1>2, TickRoster
<1>3. ASSUME NEW s \in Sessions, Client(s) PROVE RosterInv'
  BY <1>3, CloseRoster, PlayRoster DEF Client, IdsUntouched
<1>4. ASSUME NEW s \in Sessions, Writeable(s) PROVE RosterInv'
  BY <1>4, RegistrationRoster, PlayRoster DEF Writeable
<1> QED
  BY <1>1, <1>2, <1>3, <1>4 DEF Next

LEMMA RosterInvariant == ASSUME OneLogin PROVE Spec => [](OneLoginInv /\ RosterInv)
<1>1. Init => OneLoginInv /\ RosterInv
  BY InitOneLogin, InitRoster
<1>2. OneLoginInv /\ RosterInv /\ [Next]_vars => (OneLoginInv /\ RosterInv)'
  BY NextOneLogin, NextRoster
<1> QED
  BY <1>1, <1>2, PTL DEF Spec

\* Two connected players whose registrations were announced know of each other,
\* for every number of players and every order of registrations, entries of the
\* tick, moves, departures and lost connections.
THEOREM RosterIsComplete == ASSUME OneLogin PROVE Spec => []RosterComplete
<1>1. OneLoginInv /\ RosterInv => RosterComplete
  <2> SUFFICES ASSUME RosterInv, NEW s \in Sessions, NEW t \in Sessions,
                      Registered(s), Registered(t), s # t,
                      user_json[s] = player_id[s], user_json[t] = player_id[t]
               PROVE  player_id[t] \in known[s] /\ player_id[s] \in known[t]
    BY DEF RosterComplete
  <2>1. Announced(s) /\ Announced(t)
    BY DEF Announced, Registered
  <2> QED
    BY <2>1 DEF RosterInv
<1> QED
  BY <1>1, RosterInvariant, PTL

\* A connected client keeps no player that has been taken out of the users map.
THEOREM NoGhostsRemain == ASSUME OneLogin PROVE Spec => []NoGhosts
<1>1. OneLoginInv /\ RosterInv => NoGhosts
  BY DEF RosterInv
<1> QED
  BY <1>1, RosterInvariant, PTL

-----------------------------------------------------------------------------
(***************************************************************************)
(* The entries of the users map: each is due for its registration or known *)
(* to every player that has been answered, also when its connection has    *)
(* been lost; and nobody is told of itself.                                *)
(***************************************************************************)
EntryOK(k) ==
  LET t == users_map_main[k] IN
  IF user_json[t] = 0 THEN RegistrationDue(t)
  ELSE \A s \in Sessions : Announced(s) /\ s # t => k \in known[s]

\* A client whose request or session reports a gem has run into one.
EatenOK(s) ==
  /\ collision_status[s] = GEM_EAT => gems_eaten[s] > 0
  /\ buf[s].status = MOVE /\ buf[s].collision_status = GEM_EAT => gems_eaten[s] > 0

EntriesInv ==
  /\ \A k \in DOMAIN users_map_main : EntryOK(k)
  /\ \A s \in Sessions : player_id[s] \notin known[s]
  /\ \A s \in Sessions : EatenOK(s)

LEMMA InitEntries == Init => EntriesInv
BY DEF Init, EntriesInv, EatenOK, NoRequest, EmptyMap

\* Steps that announce nobody and add no entry.
LEMMA EntriesFrame ==
  ASSUME EntriesInv,
         \A k \in DOMAIN users_map_main' :
           /\ k \in DOMAIN users_map_main /\ users_map_main'[k] = users_map_main[k]
           /\ user_json'[users_map_main[k]] = 0 <=> user_json[users_map_main[k]] = 0
           /\ user_json[users_map_main[k]] = 0 /\ RegistrationDue(users_map_main[k])
                => RegistrationDue(users_map_main[k])'
           /\ \A s \in Sessions : k \in known[s] => k \in known'[s],
         \A s \in Sessions : Announced(s)' => Announced(s)
  PROVE  \A k \in DOMAIN users_map_main' : EntryOK(k)'
<1> SUFFICES ASSUME NEW k \in DOMAIN users_map_main' PROVE EntryOK(k)'
  OBVIOUS
<1> DEFINE t == users_map_main[k]
<1>1. /\ k \in DOMAIN users_map_main /\ users_map_main'[k] = t /\ EntryOK(k)
      /\ user_json'[t] = 0 <=> user_json[t] = 0
      /\ user_json[t] = 0 /\ RegistrationDue(t) => RegistrationDue(t)'
      /\ \A s \in Sessions : k \in known[s] => k \in known'[s]
  BY DEF EntriesInv
<1>2. CASE user_json[t] = 0
  BY <1>1, <1>2 DEF EntryOK, RegistrationDue
<1>3. CASE user_json[t] # 0
  BY <1>1, <1>3 DEF EntryOK
<1> QED
  BY <1>2, <1>3

\* Who stands in the map under k is the session with that id.
LEMMA EntryIsOfId ==
  ASSUME OneLoginInv, NEW k \in DOMAIN users_map_main
  PROVE  /\ users_map_main[k] \in Sessions /\ player_id[users_map_main[k]] = k
         /\ k # 0 /\ k <= clock
BY MapTypes, KeyNotNull DEF OneLoginInv, KeyIsId

\* The registration of s is read by every other player in the map, and s is told
\* of every other entry.
LEMMA RegistrationReplyEntries ==
  ASSUME OneLoginInv, EntriesInv, NEW k \in DOMAIN users_map_main,
         NEW s \in Sessions, s = users_map_main[k], RegistrationReply(s),
         UNCHANGED <<conn, player_id, users_map_main, done_srv_update>>
  PROVE  \A j \in DOMAIN users_map_main' : EntryOK(j)'
<1>1. player_id[s] = k /\ k # 0
  BY EntryIsOfId
<1>2. /\ \A r \in Sessions : known'[r] = known[r] \cup Told(r, s)
      /\ user_json'[s] = k
      /\ \A r \in Sessions \ {s} : user_json'[r] = user_json[r] /\ status'[r] = status[r]
  BY <1>1, MapTypes DEF RegistrationReply, OneLoginInv, TypeInv, TypeOK, PssTypeOK,
                        build_player_json_registrator
<1>3. EntryOK(k)'
  <2>1. ASSUME NEW r \in Sessions, Announced(r)', r # s
        PROVE  k \in known'[r]
    <3>1. Registered(r)
      BY <2>1 DEF Announced, Registered
    <3>2. player_id[r] \in DOMAIN users_map_main /\ users_map_main[player_id[r]] = r
      BY <3>1 DEF OneLoginInv, ReachInv, RegisteredReachable
    <3>3. player_id[r] # k
      BY <2>1, <3>2
    <3>4. r \in Recipients(s)
      BY <1>1, <3>2, <3>3 DEF Recipients, Others, MoreThanOneEntry
    <3> QED
      BY <1>1, <1>2, <3>4 DEF Told
  <2> QED
    BY <1>1, <1>2, <2>1 DEF EntryOK
<1>4. ASSUME NEW j \in DOMAIN users_map_main, j # k
      PROVE  EntryOK(j)'
  <2> DEFINE t == users_map_main[j]
  <2>1. t \in Sessions /\ player_id[t] = j /\ t # s
    BY <1>1, <1>4, EntryIsOfId
  <2>2. EntryOK(j) /\ user_json'[t] = user_json[t]
    BY <1>2, <2>1 DEF EntriesInv
  <2>3. CASE user_json[t] = 0
    BY <1>2, <2>1, <2>2, <2>3 DEF EntryOK, RegistrationDue
  <2>4. CASE user_json[t] # 0
    <3>1. ASSUME NEW r \in Sessions, Announced(r)', r # t
          PROVE  j \in known'[r]
      <4>1. CASE r = s
        <5>1. j \in Others(s)
          BY <1>1, <1>4 DEF Others, MoreThanOneEntry
        <5> QED
          BY <1>2, <2>1, <4>1, <5>1 DEF Told
      <4>2. CASE r # s
        <5>1. Announced(r)
          BY <1>2, <3>1, <4>2 DEF Announced, Registered
        <5> QED
          BY <1>2, <2>2, <2>4, <3>1, <5>1 DEF EntryOK
      <4> QED
        BY <4>1, <4>2
    <3> QED
      BY <2>2, <2>4, <3>1 DEF EntryOK
  <2> QED
    BY <2>3, <2>4
<1> QED
  BY <1>3, <1>4

LEMMA TickEntries ==
  ASSUME OneLoginInv, EntriesInv, Tick
  PROVE  \A k \in DOMAIN users_map_main' : EntryOK(k)'
<1>1. UNCHANGED <<player_id, users_map_main, conn, done_srv_update>>
  BY DEF Tick, game_loop_cb, response_to_client_cp, Break, net_vars, pss_vars
<1>2. CASE Break \/ game_loop_cb
  <2>1. UNCHANGED <<user_json, known, status>>
    BY <1>2 DEF Break, game_loop_cb, pss_vars, history_vars
  <2> QED
    BY <1>1, <2>1, EntriesFrame DEF Announced, Registered, RegistrationDue
<1>3. ASSUME NEW k \in visiting, response_to_client_cp(k), ~Break
      PROVE  \A j \in DOMAIN users_map_main' : EntryOK(j)'
  <2>1. PICK s : s = users_map_main[k]
    OBVIOUS
  <2>2. s \in Sessions /\ player_id[s] = k /\ k # 0 /\ LoginOK(s) /\ k \in DOMAIN users_map_main
    BY <2>1, MapTypes, EntryIsOfId DEF OneLoginInv, LoginInv
  <2>3. RegistrationReply(s) \/ MovementReply(s) \/ NothingDue(s)
    BY <1>3, <2>1 DEF response_to_client_cp
  <2>4. CASE NothingDue(s)
    <3>1. UNCHANGED <<user_json, known, status>>
      BY <2>4 DEF NothingDue, history_vars
    <3> QED
      BY <1>1, <3>1, EntriesFrame DEF Announced, Registered, RegistrationDue
  <2>5. CASE MovementReply(s)
    <3>1. user_json[s] # 0 /\ user_json'[s] # 0
      BY <2>2, <2>5, MapTypes DEF LoginOK, MovementReply, MovementDue, OneLoginInv,
                           build_gems_score_json, build_player_json_movment
    <3>2. /\ UNCHANGED known
          /\ \A t \in Sessions \ {s} : user_json'[t] = user_json[t] /\ status'[t] = status[t]
      BY <2>5, MapTypes, LoginTypes DEF MovementReply, OneLoginInv
    <3>3. \A t \in Sessions : Announced(t)' => Announced(t)
      BY <1>1, <3>1, <3>2 DEF Announced, Registered
    <3>4. \A j \in DOMAIN users_map_main : users_map_main[j] \in Sessions
      BY MapTypes DEF OneLoginInv
    <3> QED
      BY <1>1, <3>1, <3>2, <3>3, <3>4, EntriesFrame DEF RegistrationDue
  <2>6. CASE RegistrationReply(s)
    BY <1>1, <2>1, <2>2, <2>6, RegistrationReplyEntries
  <2> QED
    BY <2>3, <2>4, <2>5, <2>6
<1> QED
  BY <1>2, <1>3 DEF Tick

\* A new entry is due for its registration.
LEMMA RegistrationEntries ==
  ASSUME OneLogin, OneLoginInv, EntriesInv, NEW s \in Sessions, Registration(s)
  PROVE  \A k \in DOMAIN users_map_main' : EntryOK(k)'
<1>1. /\ player_id[s] = 0 /\ user_json[s] = 0
      /\ DOMAIN users_map_main' = DOMAIN users_map_main \cup {clock + 1}
      /\ users_map_main'[clock + 1] = s
      /\ player_id' = [player_id EXCEPT ![s] = clock + 1]
  BY RegistrationStep DEF OneLoginInv
<1>2. /\ UNCHANGED <<conn, user_json, known>>
      /\ users_map_main' = hashmapPut(users_map_main, clock + 1, s)
      /\ status'[s] = LOGIN /\ done_srv_update'[s]
      /\ \A t \in Sessions \ {s} :
           status'[t] = status[t] /\ done_srv_update'[t] = done_srv_update[t]
  BY DEF Registration, history_vars, ClockSteps, OneLogin, UniqueIds, OneLoginInv,
         TypeInv, TypeOK, PssTypeOK
<1>3. \A t \in Sessions : Announced(t)' => Announced(t)
  BY <1>1, <1>2, MapTypes DEF Announced, Registered, OneLoginInv
<1>4. CASE clock + 1 \in DOMAIN users_map_main
  BY <1>4, MapTypes DEF OneLoginInv
<1>5. ASSUME NEW k, k = clock + 1 PROVE EntryOK(k)'
  BY <1>1, <1>2, <1>5 DEF EntryOK, RegistrationDue
<1>6. ASSUME NEW k \in DOMAIN users_map_main PROVE EntryOK(k)'
  <2> DEFINE t == users_map_main[k]
  <2>1. t \in Sessions /\ player_id[t] = k /\ k # 0 /\ EntryOK(k)
    BY EntryIsOfId DEF EntriesInv
  <2>2. t # s /\ users_map_main'[k] = t
    BY <1>1, <1>2, <1>4, <2>1, MapTypes DEF hashmapPut, OneLoginInv
  <2> QED
    BY <1>2, <1>3, <2>1, <2>2 DEF EntryOK, RegistrationDue
<1> QED
  BY <1>1, <1>5, <1>6

LEMMA CloseEntries ==
  ASSUME OneLoginInv, EntriesInv, NEW s \in Sessions, PeerInitiatedClose(s), ~Break
  PROVE  \A k \in DOMAIN users_map_main' : EntryOK(k)'
<1>1. /\ conn[s] = "open" /\ conn' = [conn EXCEPT ![s] = "closed"]
      /\ UNCHANGED <<player_id, user_json>>
      /\ known' = Leave(s)
      /\ DOMAIN users_map_main' = DOMAIN users_map_main \ {player_id[s]}
      /\ \A k \in DOMAIN users_map_main' : users_map_main'[k] = users_map_main[k]
  BY PeerCloseReach DEF OneLoginInv
<1>2. /\ user_json[s] \in {0, player_id[s]}
      /\ \A t \in Sessions : conn'[t] = "open" => conn[t] = "open"
  BY <1>1, MapTypes DEF OneLoginInv, LoginInv, LoginOK
<1>3. /\ UNCHANGED done_srv_update
      /\ \A t \in Sessions \ {s} : status'[t] = status[t]
  BY LoginTypes DEF PeerInitiatedClose, OneLoginInv
<1>4. \A k \in DOMAIN users_map_main' : users_map_main[k] \in Sessions \ {s} /\ k # 0
  BY <1>1, EntryIsOfId
<1>5. ASSUME NEW k \in DOMAIN users_map_main', NEW r \in Sessions, k \in known[r]
      PROVE  k \in known'[r]
  BY <1>1, <1>2, <1>4, <1>5 DEF Leave
<1> QED
  BY <1>1, <1>2, <1>3, <1>4, <1>5, EntriesFrame DEF Announced, Registered, RegistrationDue

LEMMA PlayEntries ==
  ASSUME OneLoginInv, EntriesInv, NEW s \in Sessions,
         IdsUntouched(s) \/ Movement(s) \/ Break \/ UNCHANGED vars
  PROVE  \A k \in DOMAIN users_map_main' : EntryOK(k)'
<1>1. UNCHANGED <<player_id, users_map_main>>
  BY UntouchedReach, MovementReach DEF OneLoginInv
<1>2. UNCHANGED <<user_json, known>>
  BY DEF IdsUntouched, Established, SendLogin, SendMove, Receive, ConnectionLost,
         Movement, Break, vars, pss_vars, history_vars
<1>3. \/ UNCHANGED conn
      \/ conn[s] = "new" /\ conn' = [conn EXCEPT ![s] = "open"]
      \/ conn' = [conn EXCEPT ![s] = "closed"]
  BY DEF IdsUntouched, Established, SendLogin, SendMove, Receive, ConnectionLost,
         Movement, Break, vars, net_vars
<1>4. \A t \in Sessions : conn'[t] = "open" => conn[t] = "open" \/ player_id[t] = 0
  BY <1>3, MapTypes DEF OneLoginInv, ReachInv
<1>5. \A t \in Sessions : Announced(t)' => Announced(t)
  BY <1>1, <1>2, <1>4 DEF Announced, Registered
<1>6. \A k \in DOMAIN users_map_main : users_map_main[k] \in Sessions
  BY EntryIsOfId
<1>7. ASSUME NEW t \in Sessions, user_json[t] = 0, RegistrationDue(t)
      PROVE  RegistrationDue(t)'
  <2>1. CASE UNCHANGED <<status, done_srv_update>>
    BY <1>7, <2>1 DEF RegistrationDue
  <2>2. CASE Movement(s) /\ ~Break
    <3>1. PendingMove(s) /\ player_id[s] # 0
      BY <2>2, KeyNotNull DEF Movement, ServerWriteable, PutReturnsNull,
            hashmapContainsKey, PendingMove, OneLoginInv
    <3>2. LoginOK(s) /\ moves[s] \in Nat
      BY LoginTypes DEF OneLoginInv, LoginInv
    <3>3. user_json[s] # 0
      BY <3>1, <3>2 DEF LoginOK
    <3>4. status'[t] = status[t] /\ done_srv_update'[t] = done_srv_update[t]
      BY <1>7, <2>2, <3>3 DEF Movement, OneLoginInv, TypeInv, TypeOK, PssTypeOK
    <3> QED
      BY <1>7, <3>4 DEF RegistrationDue
  <2>3. CASE ~Movement(s) \/ Break
    <3>1. UNCHANGED <<status, done_srv_update>>
      BY <2>3 DEF IdsUntouched, Established, SendLogin, SendMove, Receive,
            ConnectionLost, Break, vars, pss_vars
    <3> QED
      BY <1>7, <3>1 DEF RegistrationDue
  <2> QED
    BY <2>2, <2>3
<1> QED
  BY <1>1, <1>2, <1>5, <1>6, <1>7, EntriesFrame

\* Nobody is told of itself: a player is told of other keys, and a new id is one
\* that nobody has been told of.
LEMMA NextSelfUnknown ==
  ASSUME OneLogin, OneLoginInv, EntriesInv, [Next]_vars
  PROVE  \A s \in Sessions : player_id'[s] \notin known'[s]
<1>1. CASE UNCHANGED <<player_id, known>>
  BY <1>1 DEF EntriesInv
<1>2. CASE Tick
  <2>1. UNCHANGED player_id
    BY <1>2, UntouchedReach DEF OneLoginInv
  <2>2. CASE Break \/ game_loop_cb
    BY <1>1, <2>1, <2>2 DEF Break, game_loop_cb, history_vars
  <2>3. ASSUME NEW k \in visiting, response_to_client_cp(k), ~Break
        PROVE  \A r \in Sessions : player_id'[r] \notin known'[r]
    <3>1. PICK s : s = users_map_main[k]
      OBVIOUS
    <3>2. s \in Sessions /\ player_id[s] = k
      BY <3>1, MapTypes, EntryIsOfId DEF OneLoginInv
    <3>3. RegistrationReply(s) \/ UNCHANGED known
      BY <2>3, <3>1 DEF response_to_client_cp, MovementReply, NothingDue, history_vars
    <3>4. CASE RegistrationReply(s)
      <4>1. \A j \in Others(s) : player_id[users_map_main[j]] = j /\ j # player_id[s]
        BY EntryIsOfId DEF Others
      <4>2. ASSUME NEW r \in Sessions PROVE player_id[r] \notin Told(r, s)
        <5>1. r \in Recipients(s) => player_id[r] # player_id[s]
          BY <4>1 DEF Recipients
        <5>2. r = s => \A j \in Others(s) : player_id[users_map_main[j]] # player_id[r]
          BY <4>1
        <5> QED
          BY <5>1, <5>2 DEF Told
      <4> QED
        BY <2>1, <3>4, <4>2 DEF RegistrationReply, EntriesInv
    <3> QED
      BY <1>1, <2>1, <3>3, <3>4
  <2> QED
    BY <1>2, <2>2, <2>3 DEF Tick
<1>3. ASSUME NEW s \in Sessions, PeerInitiatedClose(s), ~Break
      PROVE  \A r \in Sessions : player_id'[r] \notin known'[r]
  <2>1. UNCHANGED player_id /\ known' = Leave(s)
    BY <1>3, PeerCloseReach DEF OneLoginInv
  <2>2. \A r \in Sessions : known'[r] \subseteq known[r]
    BY <2>1 DEF Leave
  <2> QED
    BY <2>1, <2>2 DEF EntriesInv
<1>4. ASSUME NEW s \in Sessions, Registration(s)
      PROVE  \A r \in Sessions : player_id'[r] \notin known'[r]
  <2>1. player_id' = [player_id EXCEPT ![s] = clock + 1] /\ UNCHANGED known
    BY <1>4, RegistrationStep DEF OneLoginInv, Registration, history_vars
  <2>2. clock + 1 \notin known[s]
    BY MapTypes DEF OneLoginInv
  <2> QED
    BY <2>1, <2>2, MapTypes DEF OneLoginInv, EntriesInv
<1>5. ASSUME NEW s \in Sessions,
             IdsUntouched(s) \/ Movement(s) \/ Break \/ UNCHANGED vars
      PROVE  \A r \in Sessions : player_id'[r] \notin known'[r]
  <2>1. UNCHANGED player_id
    BY <1>5, UntouchedReach, MovementReach DEF OneLoginInv
  <2>2. UNCHANGED known
    BY <1>5 DEF IdsUntouched, Established, SendLogin, SendMove, Receive, ConnectionLost,
           Movement, Break, vars, history_vars
  <2> QED
    BY <1>1, <2>1, <2>2
<1>6. CASE UNCHANGED vars
  BY <1>1, <1>6 DEF vars, pss_vars, history_vars
<1> QED
  BY <1>2, <1>3, <1>4, <1>5, <1>6 DEF Next, Client, Writeable, IdsUntouched

\* A report of a gem comes with one more gem eaten, and goes from the request to
\* the session.
LEMMA NextEaten ==
  ASSUME OneLoginInv, EntriesInv, [Next]_vars
  PROVE  \A s \in Sessions : EatenOK(s)'
<1>0. /\ buf \in [Sessions -> Requests] /\ collision_status \in [Sessions -> {0, GEM_EAT}]
      /\ gems_eaten \in [Sessions -> Nat]
  BY DEF OneLoginInv, TypeInv, TypeOK, NetTypeOK, PssTypeOK, ClientTypeOK
<1>1. CASE UNCHANGED <<buf, collision_status, gems_eaten>>
  BY <1>1 DEF EntriesInv, EatenOK
<1>2. CASE Tick
  <2>1. CASE Break \/ game_loop_cb
    BY <1>1, <2>1 DEF Break, game_loop_cb, net_vars, pss_vars, client_vars
  <2>2. ASSUME NEW k \in visiting, response_to_client_cp(k), ~Break
        PROVE  \A s \in Sessions : EatenOK(s)'
    <3>1. UNCHANGED <<buf, gems_eaten>>
      BY <2>2 DEF response_to_client_cp, net_vars
    <3>2. \A s \in Sessions : collision_status'[s] \in {0, collision_status[s]}
      BY <1>0, <2>2 DEF response_to_client_cp, RegistrationReply, MovementReply, NothingDue,
                  send_response_to_current_player
    <3> QED
      BY <3>1, <3>2 DEF EntriesInv, EatenOK
  <2> QED
    BY <1>2, <2>1, <2>2 DEF Tick
<1>3. ASSUME NEW s \in Sessions, Client(s)
      PROVE  \A r \in Sessions : EatenOK(r)'
  <2>1. CASE SendLogin(s)
    <3>1. buf' = [buf EXCEPT ![s] = LoginRequest] /\ UNCHANGED <<collision_status, gems_eaten>>
      BY <2>1 DEF SendLogin, Receive, pss_vars
    <3> QED
      BY <1>0, <3>1 DEF EntriesInv, EatenOK, LoginRequest
  <2>2. ASSUME NEW hit \in BOOLEAN, SendMove(s, hit)
        PROVE  \A r \in Sessions : EatenOK(r)'
    <3>1. UNCHANGED collision_status /\ \A r \in Sessions \ {s} : buf'[r] = buf[r]
      BY <1>0, <2>2 DEF SendMove, Receive, pss_vars
    <3>2. CASE hit
      <4>1. gems_eaten' = [gems_eaten EXCEPT ![s] = gems_eaten[s] + 1]
        BY <2>2, <3>2 DEF SendMove
      <4> QED
        BY <1>0, <3>1, <4>1 DEF EntriesInv, EatenOK
    <3>3. CASE ~hit
      <4>1. UNCHANGED gems_eaten /\ buf'[s] = MoveRequest(moves[s] + 1, 0, <<>>, 0)
        BY <1>0, <2>2, <3>3 DEF SendMove, Receive
      <4> QED
        BY <3>1, <4>1 DEF EntriesInv, EatenOK, MoveRequest
    <3> QED
      BY <3>2, <3>3
  <2>3. CASE Established(s) \/ PeerInitiatedClose(s) \/ ConnectionLost(s)
    BY <1>1, <2>3 DEF Established, PeerInitiatedClose, ConnectionLost, Break, net_vars,
                      pss_vars, client_vars
  <2> QED
    BY <1>3, <2>1, <2>2, <2>3 DEF Client
<1>4. ASSUME NEW s \in Sessions, Writeable(s)
      PROVE  \A r \in Sessions : EatenOK(r)'
  <2>1. CASE Registration(s) \/ Break
    BY <1>1, <2>1 DEF Registration, Break, net_vars, pss_vars, client_vars
  <2>2. CASE Movement(s) /\ ~Break
    <3>1. /\ UNCHANGED <<buf, gems_eaten>> /\ buf[s].status = MOVE
          /\ collision_status' = [collision_status EXCEPT ![s] = buf[s].collision_status]
      BY <2>2 DEF Movement, ServerWriteable, client_vars
    <3> QED
      BY <1>0, <3>1 DEF EntriesInv, EatenOK
  <2> QED
    BY <1>4, <2>1, <2>2 DEF Writeable
<1>5. CASE UNCHANGED vars
  BY <1>1, <1>5 DEF vars, net_vars, pss_vars, client_vars
<1> QED
  BY <1>2, <1>3, <1>4, <1>5 DEF Next

LEMMA NextEntries ==
  ASSUME OneLogin
  PROVE  OneLoginInv /\ EntriesInv /\ [Next]_vars => EntriesInv'
<1> SUFFICES ASSUME OneLoginInv, EntriesInv, [Next]_vars PROVE EntriesInv'
  OBVIOUS
<1>1. \A k \in DOMAIN users_map_main' : EntryOK(k)'
  <2>1. CASE UNCHANGED vars
    <3>1. UNCHANGED <<conn, player_id, users_map_main, user_json, known, status, done_srv_update>>
      BY <2>1 DEF vars, net_vars, pss_vars, history_vars
    <3> QED
      BY <3>1, EntriesFrame DEF Announced, Registered, RegistrationDue
  <2>2. CASE Tick
    BY <2>2, TickEntries
  <2>3. ASSUME NEW s \in Sessions, Client(s) PROVE \A k \in DOMAIN users_map_main' : EntryOK(k)'
    BY <2>3, CloseEntries, PlayEntries DEF Client, IdsUntouched
  <2>4. ASSUME NEW s \in Sessions, Writeable(s) PROVE \A k \in DOMAIN users_map_main' : EntryOK(k)'
    BY <2>4, RegistrationEntries, PlayEntries DEF Writeable
  <2> QED
    BY <2>1, <2>2, <2>3, <2>4 DEF Next
<1>2. (\A s \in Sessions : player_id[s] \notin known[s])'
  BY NextSelfUnknown
<1>3. (\A s \in Sessions : EatenOK(s))'
  BY NextEaten
<1> QED
  BY <1>1, <1>2, <1>3 DEF EntriesInv

-----------------------------------------------------------------------------
(***************************************************************************)
(* Clients that log in once per connection, play over it, say goodbye and  *)
(* keep to the rate cannot bring the server down, as long as not too many  *)
(* play at the same time.                                                  *)
(***************************************************************************)

\* No pointer of the users map is stale, everybody who is gone said goodbye, and a
\* move comes from a session that has its response and has not used up its moves
\* of the tick.
MapIsOpen == \A k \in DOMAIN users_map_main : conn[users_map_main[k]] = "open"
AllSaidGoodbye == \A s \in Sessions : conn[s] = "closed" => status[s] = LEFT
MovesFollowLogin == \A s \in Sessions : PendingMove(s) => user_json[s] # 0
BurstBound == \A s \in Sessions : burst[s] <= Burst
CrowdBound == IsFiniteSet(Open) /\ Cardinality(Open) <= Crowd

PoliteInv ==
  /\ ~broken /\ MapIsOpen /\ AllSaidGoodbye
  /\ MovesFollowLogin /\ BurstBound /\ CrowdBound

\* What the other theorems give.
BaseInv == OneLoginInv /\ QueueInv

LEMMA PoliteMeans ==
  ASSUME Polite
  PROVE  /\ OneLogin /\ Mishaps = {}
         /\ Burst < SeqLen /\ Burst \in Nat /\ SeqLen \in Nat
         /\ Burst < MovesRoom /\ MovesRoom \in Nat
         /\ Crowd <= PlayersRoom + 1 /\ Crowd \in Nat /\ PlayersRoom \in Nat
BY ConstantsAssumption DEF Polite, Roomy, OneLogin, UniqueIds

LEMMA InitPolite == Init => PoliteInv
<1> SUFFICES ASSUME Init PROVE PoliteInv
  OBVIOUS
<1>1. Open = {}
  BY DEF Init, Open
<1>2. CrowdBound
  BY <1>1, FS_EmptySet, ConstantsAssumption DEF CrowdBound
<1> QED
  BY <1>2, ConstantsAssumption DEF Init, PoliteInv, MapIsOpen, AllSaidGoodbye,
     MovesFollowLogin, BurstBound, PendingMove, EmptyMap

LEMMA CrowdFrame == CrowdBound /\ UNCHANGED conn => CrowdBound'
BY DEF CrowdBound, Open

\* No recipient is freed.
LEMMA NobodyFreed ==
  ASSUME BaseInv, PoliteInv, NEW s \in Sessions
  PROVE  ~Freed(Recipients(s))
BY DEF PoliteInv, MapIsOpen, Recipients, Others, Freed

\* A move finds its player in the map and room in the queue.
LEMMA MovementSafe ==
  ASSUME Polite, BaseInv, PoliteInv, NEW s \in Sessions, Movement(s)
  PROVE  ~Break
<1>1. conn[s] = "open" /\ PendingMove(s)
  BY DEF Movement, ServerWriteable, PendingMove
<1>2. user_json[s] # 0 /\ user_json[s] \in {0, player_id[s]}
  BY <1>1 DEF PoliteInv, MovesFollowLogin, BaseInv, OneLoginInv, LoginInv, LoginOK
<1>3. player_id[s] \in DOMAIN users_map_main
  BY <1>1, <1>2 DEF BaseInv, OneLoginInv, ReachInv, RegisteredReachable, Registered
<1>4. ~(Len(player_seq[s]) >= SeqLen)
  <2>1. Len(player_seq[s]) <= burst[s]
    BY <1>1 DEF BaseInv, QueueInv, QueueOK, QueueShort
  <2>2. burst[s] <= Burst /\ Burst < SeqLen /\ Burst \in Nat /\ SeqLen \in Nat
    BY PoliteMeans DEF PoliteInv, BurstBound
  <2>3. Len(player_seq[s]) \in Nat /\ burst[s] \in Nat
    BY QueueTypes DEF BaseInv, OneLoginInv
  <2> QED
    BY <2>1, <2>2, <2>3
<1>5. ~Freed({users_map_main[player_id[s]]})
  BY <1>3 DEF Freed, PoliteInv, MapIsOpen
<1> QED
  BY <1>3, <1>4, <1>5 DEF Movement, PutReturnsNull, hashmapContainsKey, Break, PoliteInv

\* Every other player of the map is another open connection, so the players of
\* a registration fit in it.
LEMMA OthersAreFew ==
  ASSUME Polite, BaseInv, PoliteInv, NEW s \in Sessions, s \in Open
  PROVE  IsFiniteSet(Others(s)) /\ Cardinality(Others(s)) <= PlayersRoom
<1> DEFINE f == [k \in Others(s) |-> users_map_main[k]]
           T == Open \ {s}
<1>1. \A k \in Others(s) : /\ k \in DOMAIN users_map_main /\ k # player_id[s]
                           /\ player_id[f[k]] = k
  BY DEF Others, BaseInv, OneLoginInv, KeyIsId
<1>2. \A k \in Others(s) : f[k] \in T
  BY <1>1, MapTypes DEF BaseInv, OneLoginInv, PoliteInv, MapIsOpen, Open
<1>3. f \in Injection(Others(s), T)
  BY <1>1, <1>2 DEF Injection, IsInjective
<1>4. IsFiniteSet(T) /\ Cardinality(T) = Cardinality(Open) - 1
  BY FS_RemoveElement DEF PoliteInv, CrowdBound
<1>5. IsFiniteSet(Others(s)) /\ Cardinality(Others(s)) <= Cardinality(T)
  BY <1>3, <1>4, FS_Injection
<1>6. Cardinality(Others(s)) \in Nat /\ Cardinality(Open) \in Nat
  BY <1>5, FS_CardinalityType DEF PoliteInv, CrowdBound
<1>7. Cardinality(Open) <= Crowd /\ Crowd <= PlayersRoom + 1
  BY PoliteMeans DEF PoliteInv, CrowdBound
<1> QED
  BY <1>4, <1>5, <1>6, <1>7, PoliteMeans

\* No response is longer than its buffer.
LEMMA ResponseFits ==
  ASSUME Polite, BaseInv, PoliteInv, NEW s \in Sessions, conn[s] = "open"
  PROVE  ~ResponseOverruns(s)
<1>1. Len(player_seq[s]) <= burst[s] + 1
  BY DEF BaseInv, QueueInv, QueueOK, QueueShort, PendingMove
<1>2. burst[s] <= Burst /\ Burst < MovesRoom /\ Burst \in Nat /\ MovesRoom \in Nat
  BY PoliteMeans DEF PoliteInv, BurstBound
<1>3. Len(player_seq[s]) \in Nat /\ burst[s] \in Nat
  BY QueueTypes DEF BaseInv, OneLoginInv
<1>4. Len(player_seq[s]) <= MovesRoom
  BY <1>1, <1>2, <1>3
<1>5. IsFiniteSet(Others(s)) /\ Cardinality(Others(s)) <= PlayersRoom
  BY OthersAreFew DEF Open
<1> QED
  BY <1>3, <1>4, <1>5, PoliteMeans, FS_CardinalityType DEF ResponseOverruns

LEMMA VisitSafe ==
  ASSUME Polite, BaseInv, PoliteInv, NEW k \in visiting, response_to_client_cp(k)
  PROVE  ~Break
<1>1. k \in DOMAIN users_map_main
  BY MapTypes DEF BaseInv, OneLoginInv
<1>2. users_map_main[k] \in Sessions
  BY <1>1, MapTypes DEF BaseInv, OneLoginInv
<1>3. ~Freed(Visited(users_map_main[k]))
  BY <1>1, <1>2, NobodyFreed DEF Visited, Freed, PoliteInv, MapIsOpen
<1>4. ~ResponseOverruns(users_map_main[k])
  BY <1>1, <1>2, ResponseFits DEF PoliteInv, MapIsOpen
<1> QED
  BY <1>3, <1>4 DEF response_to_client_cp, Break

LEMMA CloseSafe ==
  ASSUME Polite, BaseInv, PoliteInv, NEW s \in Sessions, PeerInitiatedClose(s)
  PROVE  ~Break
<1>1. user_json[s] # 0
  BY PoliteMeans DEF PeerInitiatedClose
<1>2. player_id[s] # 0
  BY <1>1 DEF BaseInv, OneLoginInv, LoginInv, LoginOK
<1>3. ~CloseMayFault(s)
  BY <1>1, <1>2, NobodyFreed DEF CloseMayFault, CloseFaults
<1> QED
  BY <1>3 DEF PeerInitiatedClose, Break, PoliteInv

LEMMA PoliteFrame ==
  ASSUME PoliteInv,
         UNCHANGED <<broken, conn, buf, writable, status, user_json, users_map_main, burst>>
  PROVE  PoliteInv'
BY CrowdFrame DEF PoliteInv, MapIsOpen, AllSaidGoodbye, MovesFollowLogin, BurstBound, PendingMove

LEMMA TickPolite ==
  ASSUME Polite, BaseInv, PoliteInv, Tick
  PROVE  PoliteInv'
<1>1. CASE game_loop_cb
  BY <1>1, PoliteFrame DEF game_loop_cb, net_vars, pss_vars, client_vars
<1>2. ASSUME NEW k \in visiting, response_to_client_cp(k)
      PROVE  PoliteInv'
  <2>1. PICK s : s = users_map_main[k]
    OBVIOUS
  <2>2. /\ s \in Sessions /\ player_id[s] = k /\ k # 0
        /\ user_json \in [Sessions -> 0 .. clock] /\ burst \in [Sessions -> Nat]
    BY <2>1, MapTypes, QueueTypes DEF BaseInv, OneLoginInv, KeyIsId
  <2>3. /\ RegistrationReply(s) \/ MovementReply(s) \/ NothingDue(s)
        /\ burst' = [burst EXCEPT ![s] = 0]
        /\ UNCHANGED <<broken, conn, buf, writable, users_map_main>>
    BY <1>2, <2>1, VisitSafe DEF response_to_client_cp, net_vars
  <2>4. \A t \in Sessions : user_json[t] # 0 => user_json'[t] # 0
    <3>1. CASE NothingDue(s)
      BY <3>1 DEF NothingDue
    <3>2. CASE RegistrationReply(s) \/ MovementReply(s)
      <4>1. user_json' = [user_json EXCEPT ![s] = player_id[s]]
        BY <3>2 DEF RegistrationReply, MovementReply, build_player_json_registrator,
                    build_player_json_movment, build_gems_score_json
      <4> QED
        BY <2>2, <4>1
    <3> QED
      BY <2>3, <3>1, <3>2
  <2>5. BurstBound'
    BY <2>2, <2>3, ConstantsAssumption DEF PoliteInv, BurstBound
  <2>6. AllSaidGoodbye'
    <3>1. conn[s] = "open"
      BY <1>2, <2>1, MapTypes DEF BaseInv, OneLoginInv, PoliteInv, MapIsOpen
    <3>2. \A t \in Sessions \ {s} : status'[t] = status[t]
      BY <2>3, MapTypes DEF BaseInv, OneLoginInv, TypeInv, TypeOK, PssTypeOK,
         RegistrationReply, MovementReply, NothingDue
    <3> QED
      BY <2>3, <3>1, <3>2 DEF PoliteInv, AllSaidGoodbye
  <2> QED
    BY <2>3, <2>4, <2>5, <2>6, CrowdFrame DEF PoliteInv, MapIsOpen, MovesFollowLogin, PendingMove
<1> QED
  BY <1>1, <1>2 DEF Tick

LEMMA WriteablePolite ==
  ASSUME Polite, BaseInv, PoliteInv, NEW s \in Sessions, Writeable(s)
  PROVE  PoliteInv'
<1> writable \in [Sessions -> BOOLEAN]
  BY QueueTypes DEF BaseInv, OneLoginInv
<1>0. status \in [Sessions -> {LOGIN, LOGIN_ACK, MOVE, MOVE_ACK, LEFT}]
  BY DEF BaseInv, OneLoginInv, TypeInv, TypeOK, PssTypeOK
<1>1. CASE Registration(s)
  <2>1. /\ DOMAIN users_map_main' = DOMAIN users_map_main \cup {clock + 1}
        /\ users_map_main'[clock + 1] = s
        /\ users_map_main' = hashmapPut(users_map_main, clock + 1, s)
    BY <1>1, PoliteMeans, RegistrationStep
       DEF BaseInv, OneLoginInv, Registration, ClockSteps, OneLogin, UniqueIds
  <2>2. /\ conn[s] = "open" /\ UNCHANGED <<broken, conn, buf, user_json, burst>>
        /\ writable' = [writable EXCEPT ![s] = FALSE]
        /\ status' = [status EXCEPT ![s] = LOGIN]
    BY <1>1 DEF Registration, ServerWriteable, client_vars
  <2>3. MapIsOpen' /\ AllSaidGoodbye'
    BY <1>0, <2>1, <2>2 DEF PoliteInv, MapIsOpen, AllSaidGoodbye, hashmapPut
  <2> QED
    BY <2>2, <2>3, CrowdFrame DEF PoliteInv, MovesFollowLogin, BurstBound, PendingMove
<1>2. CASE Movement(s)
  <2>1. ~Break /\ UNCHANGED users_map_main
    BY <1>2, MovementSafe, MovementReach DEF BaseInv, OneLoginInv
  <2>2. /\ conn[s] = "open" /\ UNCHANGED <<broken, conn, buf, user_json, burst>>
        /\ writable' = [writable EXCEPT ![s] = FALSE]
        /\ status' = [status EXCEPT ![s] = MOVE]
    BY <1>2, <2>1 DEF Movement, ServerWriteable, client_vars
  <2>3. AllSaidGoodbye'
    BY <1>0, <2>2 DEF PoliteInv, AllSaidGoodbye
  <2> QED
    BY <2>1, <2>2, <2>3, CrowdFrame DEF PoliteInv, MapIsOpen, MovesFollowLogin, BurstBound, PendingMove
<1> QED
  BY <1>1, <1>2 DEF Writeable

LEMMA ClientPolite ==
  ASSUME Polite, BaseInv, PoliteInv, NEW s \in Sessions, Client(s)
  PROVE  PoliteInv'
<1>1. /\ conn \in [Sessions -> {"new", "open", "closed"}]
      /\ buf \in [Sessions -> Requests] /\ writable \in [Sessions -> BOOLEAN]
      /\ burst \in [Sessions -> Nat] /\ burst[s] \in Nat
      /\ status \in [Sessions -> {LOGIN, LOGIN_ACK, MOVE, MOVE_ACK, LEFT}]
  BY QueueTypes DEF BaseInv, OneLoginInv, TypeInv, TypeOK, PssTypeOK
<1>2. CASE Established(s)
  <2>1. /\ conn' = [conn EXCEPT ![s] = "open"]
        /\ UNCHANGED <<broken, buf, writable, status, user_json, users_map_main, burst>>
    BY <1>2 DEF Established, client_vars
  <2>2. Open' = Open \cup {s} /\ s \notin Open /\ Cardinality(Open) < Crowd
    BY <1>1, <1>2, <2>1 DEF Established, Open
  <2>3. CrowdBound'
    <3>1. IsFiniteSet(Open) /\ Cardinality(Open) \in Nat
      BY FS_CardinalityType DEF PoliteInv, CrowdBound
    <3>2. /\ IsFiniteSet(Open \cup {s})
          /\ Cardinality(Open \cup {s}) = Cardinality(Open) + 1
      BY <2>2, <3>1, FS_AddElement
    <3> QED
      BY <2>2, <3>1, <3>2, PoliteMeans DEF CrowdBound
  <2> QED
    BY <1>1, <2>1, <2>3, MapTypes DEF PoliteInv, MapIsOpen, AllSaidGoodbye,
            MovesFollowLogin, BurstBound,
            PendingMove, BaseInv, OneLoginInv
<1>3. CASE SendLogin(s)
  <2>1. /\ buf' = [buf EXCEPT ![s] = LoginRequest]
        /\ writable' = [writable EXCEPT ![s] = TRUE]
        /\ UNCHANGED <<broken, conn, status, user_json, users_map_main, burst>>
    BY <1>3 DEF SendLogin, Receive, pss_vars
  <2> QED
    BY <1>1, <2>1, CrowdFrame DEF PoliteInv, MapIsOpen, AllSaidGoodbye,
            MovesFollowLogin, BurstBound,
            PendingMove, LoginRequest
<1>4. ASSUME NEW hit \in BOOLEAN, SendMove(s, hit)
      PROVE  PoliteInv'
  <2>1. user_json[s] # 0
    BY <1>4 DEF SendMove, Playing, LostInGame, PoliteInv, AllSaidGoodbye
  <2>2. /\ \A t \in Sessions \ {s} : PendingMove(t)' = PendingMove(t)
        /\ burst[s] < Burst /\ burst' = [burst EXCEPT ![s] = @ + 1]
    BY <1>4, SendMoveStep DEF SendMove, BaseInv, OneLoginInv
  <2>3. UNCHANGED <<broken, conn, status, user_json, users_map_main>>
    BY <1>4 DEF SendMove, Receive, pss_vars
  <2>4. BurstBound'
    BY <1>1, <2>2, PoliteMeans DEF PoliteInv, BurstBound
  <2> QED
    BY <2>1, <2>2, <2>3, <2>4, CrowdFrame DEF PoliteInv, MapIsOpen, AllSaidGoodbye,
            MovesFollowLogin
<1>5. CASE PeerInitiatedClose(s)
  <2>1. ~Break
    BY <1>5, CloseSafe
  <2>2. /\ conn[s] = "open" /\ conn' = [conn EXCEPT ![s] = "closed"]
        /\ UNCHANGED <<user_json, player_id>>
        /\ DOMAIN users_map_main' = DOMAIN users_map_main \ {player_id[s]}
        /\ \A k \in DOMAIN users_map_main' : users_map_main'[k] = users_map_main[k]
    BY <1>5, <2>1, PeerCloseReach DEF BaseInv, OneLoginInv
  <2>3. /\ UNCHANGED <<broken, buf, burst>>
        /\ writable' = [writable EXCEPT ![s] = FALSE]
        /\ status' = [status EXCEPT ![s] = LEFT]
    BY <1>5, <2>1 DEF PeerInitiatedClose, client_vars
  <2>4. MapIsOpen'
    BY <1>1, <2>2, MapTypes DEF PoliteInv, MapIsOpen, BaseInv, OneLoginInv, KeyIsId
  <2>5. Open' = Open \ {s}
    BY <1>1, <2>2 DEF Open
  <2>6. CrowdBound'
    <3>1. IsFiniteSet(Open) /\ Cardinality(Open) \in Nat /\ Cardinality(Open) <= Crowd
      BY FS_CardinalityType DEF PoliteInv, CrowdBound
    <3>2. /\ IsFiniteSet(Open \ {s})
          /\ Cardinality(Open \ {s}) \in {Cardinality(Open) - 1, Cardinality(Open)}
      BY <3>1, FS_RemoveElement
    <3> QED
      BY <2>5, <3>1, <3>2, PoliteMeans DEF CrowdBound
  <2> QED
    BY <1>1, <2>2, <2>3, <2>4, <2>6 DEF PoliteInv, AllSaidGoodbye, MovesFollowLogin, BurstBound, PendingMove
<1>6. ~ConnectionLost(s)
  BY PoliteMeans DEF ConnectionLost
<1> QED
  BY <1>2, <1>3, <1>4, <1>5, <1>6 DEF Client

LEMMA NextPolite ==
  ASSUME Polite
  PROVE  BaseInv /\ PoliteInv /\ [Next]_vars => PoliteInv'
<1>1. UNCHANGED vars /\ PoliteInv => PoliteInv'
  BY PoliteFrame DEF vars, net_vars, pss_vars, client_vars
<1> QED
  BY <1>1, TickPolite, ClientPolite, WriteablePolite DEF Next

LEMMA PoliteInvariant == ASSUME Polite PROVE Spec => []PoliteInv
<1>1. Init => BaseInv /\ PoliteInv
  BY InitOneLogin, InitQueueInv, InitPolite DEF BaseInv
<1>2. BaseInv /\ PoliteInv /\ [Next]_vars => (BaseInv /\ PoliteInv)'
  BY PoliteMeans, NextOneLogin, NextQueueInv, NextPolite DEF BaseInv, OneLoginInv
<1> QED
  BY <1>1, <1>2, PTL DEF Spec

\* With polite clients no NULL or freed pointer is ever followed and no array or
\* response buffer overrun, for every number of players over the server's life,
\* every SEQ_LEN above the rate and every size of the buffer that holds the moves
\* of a tick and the players of one time.
THEOREM PoliteServerStaysUp == Spec => []NoCrash
<1>1. CASE Polite
  <2>1. PoliteInv => NoCrash
    BY DEF PoliteInv, NoCrash
  <2> QED
    BY <1>1, <2>1, PoliteInvariant, PTL
<1>2. CASE ~Polite
  <2>1. NoCrash
    BY <1>2 DEF NoCrash
  <2> QED
    BY <2>1, PTL
<1> QED
  BY <1>1, <1>2

-----------------------------------------------------------------------------
(***************************************************************************)
(* What is known of the server when clients log in once.                   *)
(***************************************************************************)

\* A session with status 0 has not had its first response.
NotYetAnswered == \A s \in Sessions : status[s] = LOGIN => user_json[s] = 0

\* Everything that the steps of GameService rest on.
ServiceInv == OneLoginInv /\ RosterInv /\ QueueInv /\ NotYetAnswered

LEMMA InitService == Init => ServiceInv
BY InitOneLogin, InitRoster, InitQueueInv DEF ServiceInv, Init, NotYetAnswered

LEMMA NextNotYetAnswered ==
  ASSUME OneLogin, OneLoginInv, NotYetAnswered, [Next]_vars
  PROVE  NotYetAnswered'
<1>0. /\ status \in [Sessions -> {LOGIN, LOGIN_ACK, MOVE, MOVE_ACK, LEFT}]
      /\ user_json \in [Sessions -> 0 .. clock]
  BY DEF OneLoginInv, TypeInv, TypeOK, PssTypeOK
<1>1. CASE UNCHANGED <<status, user_json>>
  BY <1>1 DEF NotYetAnswered
<1>2. CASE Tick
  <2>1. CASE game_loop_cb \/ Break
    BY <1>1, <2>1 DEF game_loop_cb, Break, pss_vars
  <2>2. ASSUME NEW k \in visiting, response_to_client_cp(k), ~Break
        PROVE  NotYetAnswered'
    <3>1. PICK s : s = users_map_main[k]
      OBVIOUS
    <3>2. s \in Sessions
      BY <3>1, MapTypes DEF OneLoginInv
    <3>3. RegistrationReply(s) \/ MovementReply(s) \/ NothingDue(s)
      BY <2>2, <3>1 DEF response_to_client_cp
    <3>4. CASE NothingDue(s)
      BY <1>1, <3>4 DEF NothingDue
    <3>5. CASE RegistrationReply(s) \/ MovementReply(s)
      <4>1. /\ status'[s] # LOGIN
            /\ \A t \in Sessions \ {s} : status'[t] = status[t] /\ user_json'[t] = user_json[t]
        BY <1>0, <3>2, <3>5 DEF RegistrationReply, MovementReply
      <4> QED
        BY <4>1 DEF NotYetAnswered
    <3> QED
      BY <3>3, <3>4, <3>5
  <2> QED
    BY <1>2, <2>1, <2>2 DEF Tick
<1>3. ASSUME NEW s \in Sessions, Client(s)
      PROVE  NotYetAnswered'
  <2>1. CASE PeerInitiatedClose(s)
    <3>1. CASE Break
      BY <1>1, <3>1 DEF Break, pss_vars
    <3>2. CASE ~Break
      <4>1. status' = [status EXCEPT ![s] = LEFT] /\ UNCHANGED user_json
        BY <2>1, <3>2 DEF PeerInitiatedClose
      <4> QED
        BY <1>0, <4>1 DEF NotYetAnswered
    <3> QED
      BY <3>1, <3>2
  <2>2. CASE ~PeerInitiatedClose(s)
    BY <1>1, <1>3, <2>2 DEF Client, Established, SendLogin, SendMove, Receive,
                            ConnectionLost, pss_vars
  <2> QED
    BY <2>1, <2>2
<1>4. ASSUME NEW s \in Sessions, Writeable(s)
      PROVE  NotYetAnswered'
  <2>1. CASE Registration(s)
    <3>1. user_json[s] = 0
      BY <2>1, RegistrationStep DEF OneLoginInv
    <3>2. status' = [status EXCEPT ![s] = LOGIN] /\ UNCHANGED user_json
      BY <2>1 DEF Registration
    <3> QED
      BY <1>0, <3>1, <3>2 DEF NotYetAnswered
  <2>2. CASE Movement(s)
    <3>1. CASE Break
      BY <1>1, <3>1 DEF Break, pss_vars
    <3>2. CASE ~Break
      <4>1. status' = [status EXCEPT ![s] = MOVE] /\ UNCHANGED user_json
        BY <2>2, <3>2 DEF Movement
      <4> QED
        BY <1>0, <4>1 DEF NotYetAnswered
    <3> QED
      BY <3>1, <3>2
  <2> QED
    BY <1>4, <2>1, <2>2 DEF Writeable
<1>5. CASE UNCHANGED vars
  BY <1>1, <1>5 DEF vars, pss_vars
<1> QED
  BY <1>2, <1>3, <1>4, <1>5 DEF Next

LEMMA NextService ==
  ASSUME OneLogin
  PROVE  ServiceInv /\ [Next]_vars => ServiceInv'
BY NextOneLogin, NextRoster, NextQueueInv, NextNotYetAnswered DEF ServiceInv, OneLoginInv

LEMMA ServiceInvariant == ASSUME OneLogin PROVE Spec => []ServiceInv
BY InitService, NextService, PTL DEF Spec

-----------------------------------------------------------------------------
(***************************************************************************)
(* The actions of the server as steps of GameService.                      *)
(***************************************************************************)

\* The state functions that take the place of two variables of GameService.
Known == [s \in Sessions |-> IF conn[s] = "open" THEN known[s] ELSE {}]
Answered == {s \in Sessions : user_json[s] # 0}

\* What GameService does not speak of may change.
LEMMA HiddenStep ==
  ASSUME UNCHANGED <<conn, player_id, clock, users_map_main, user_json, known,
                     moves, last_relayed>>
  PROVE  UNCHANGED Service!vars
BY DEF Service!vars

LEMMA EstablishedConnects ==
  ASSUME ServiceInv, NEW s \in Sessions, Established(s)
  PROVE  Service!Connect(s)
<1>1. /\ conn[s] = "new" /\ conn' = [conn EXCEPT ![s] = "open"]
      /\ UNCHANGED <<player_id, clock, users_map_main, user_json, known, moves,
                     last_relayed>>
  BY DEF Established, client_vars, history_vars
<1>2. known[s] = {}
  BY <1>1 DEF ServiceInv, OneLoginInv, ReachInv, RosterInv
<1>3. UNCHANGED Known
  BY <1>1, <1>2, MapTypes DEF Known, ServiceInv, OneLoginInv
<1> QED
  BY <1>1, <1>3 DEF Service!Connect, Known

LEMMA MovePlays ==
  ASSUME NEW s \in Sessions, NEW hit \in BOOLEAN, SendMove(s, hit)
  PROVE  Service!Play(s)
<1>1. /\ conn[s] = "open" /\ moves' = [moves EXCEPT ![s] = @ + 1]
      /\ UNCHANGED <<conn, player_id, clock, users_map_main, user_json, known,
                     last_relayed>>
  BY DEF SendMove, Receive, pss_vars, history_vars
<1> QED
  BY <1>1 DEF Service!Play

LEMMA LostLoses ==
  ASSUME ServiceInv, NEW s \in Sessions, ConnectionLost(s)
  PROVE  Service!Lose(s)
<1>1. /\ conn[s] = "open" /\ conn' = [conn EXCEPT ![s] = "closed"]
      /\ UNCHANGED <<player_id, clock, users_map_main, user_json, known, moves,
                     last_relayed>>
  BY DEF ConnectionLost, pss_vars, client_vars, history_vars
<1>2. Known' = [Known EXCEPT ![s] = {}]
  BY <1>1, MapTypes DEF Known, ServiceInv, OneLoginInv
<1> QED
  BY <1>1, <1>2 DEF Service!Lose, Known

LEMMA RegistrationJoins ==
  ASSUME OneLogin, ServiceInv, NEW s \in Sessions, Registration(s)
  PROVE  Service!Join(s)
<1>1. /\ player_id[s] = 0
      /\ player_id' = [player_id EXCEPT ![s] = clock + 1]
      /\ DOMAIN users_map_main' = DOMAIN users_map_main \cup {clock + 1}
  BY RegistrationStep DEF ServiceInv, OneLoginInv
<1>2. /\ conn[s] = "open" /\ clock' = clock + 1
      /\ UNCHANGED <<conn, user_json, known, moves, last_relayed>>
  BY DEF Registration, ServerWriteable, ClockSteps, OneLogin, UniqueIds,
         client_vars, history_vars
<1> QED
  BY <1>1, <1>2 DEF Service!Join

LEMMA MovementHidden ==
  ASSUME ServiceInv, NEW s \in Sessions, Movement(s)
  PROVE  UNCHANGED Service!vars
<1>1. UNCHANGED <<player_id, users_map_main>>
  BY MovementReach DEF ServiceInv, OneLoginInv
<1>2. UNCHANGED <<conn, clock, user_json, known, moves, last_relayed>>
  BY DEF Movement, Break, net_vars, pss_vars, client_vars, history_vars
<1> QED
  BY <1>1, <1>2, HiddenStep

\* The player that leaves is in nobody's roster but that of the recipients.
LEMMA CloseLeaves ==
  ASSUME ServiceInv, NEW s \in Sessions, PeerInitiatedClose(s), ~Break
  PROVE  Service!Leave(s)
<1>1. /\ conn[s] = "open" /\ conn' = [conn EXCEPT ![s] = "closed"]
      /\ UNCHANGED <<player_id, user_json, clock, moves, last_relayed>>
      /\ known' = Leave(s) /\ ~CloseFaults(s)
      /\ DOMAIN users_map_main' = DOMAIN users_map_main \ {player_id[s]}
  BY PeerCloseReach DEF ServiceInv, OneLoginInv, PeerInitiatedClose, client_vars
<1>2. /\ conn'[s] = "closed"
      /\ \A q \in Sessions \ {s} : conn'[q] = conn[q]
      /\ user_json[s] \in {0, player_id[s]}
  BY <1>1, MapTypes DEF ServiceInv, OneLoginInv, LoginInv, LoginOK
<1>3. ASSUME NEW q \in Sessions \ {s}, conn[q] = "open"
      PROVE  known'[q] = known[q] \ {player_id[s]}
  <2>1. known'[q] = IF q \in Recipients(s) THEN known[q] \ {user_json[s]} ELSE known[q]
    BY <1>1 DEF Leave
  <2>2. CASE q \in Recipients(s)
    <3>1. MoreThanOneEntry(users_map_main)
      BY <2>2 DEF Recipients, Others
    <3>2. user_json[s] = player_id[s]
      BY <1>1, <1>2, <3>1 DEF CloseFaults
    <3> QED
      BY <2>1, <2>2, <3>2
  <2>3. CASE q \notin Recipients(s)
    <3>1. known[q] \subseteq DOMAIN users_map_main
      BY <1>3 DEF ServiceInv, RosterInv, NoGhosts
    <3>2. player_id[s] \notin known[q]
      <4>1. CASE player_id[s] = 0
        BY <3>1, <4>1, KeyNotNull DEF ServiceInv, OneLoginInv
      <4>2. CASE player_id[s] # 0 /\ known[q] # {}
        <5>1. Registered(s) /\ Registered(q)
          BY <1>1, <1>3, <4>2 DEF Registered, ServiceInv, RosterInv
        <5> QED
          BY <2>3, <5>1, OthersAreRecipients DEF ServiceInv
      <4> QED
        BY <4>1, <4>2
    <3> QED
      BY <2>1, <2>3, <3>2
  <2> QED
    BY <2>2, <2>3
<1>4. Known' = [q \in Sessions |-> IF q = s THEN {} ELSE Known[q] \ {player_id[s]}]
  BY <1>2, <1>3 DEF Known
<1> QED
  BY <1>1, <1>4 DEF Service!Leave, Known

\* The visit of a registration tells whom GameService tells.
LEMMA RegistrationAnnounces ==
  ASSUME ServiceInv, NEW s \in Sessions,
         player_id[s] \in DOMAIN users_map_main, users_map_main[player_id[s]] = s,
         RegistrationReply(s),
         UNCHANGED <<conn, player_id, clock, users_map_main, moves>>
  PROVE  Service!Announce(s)
<1>1. /\ status[s] = LOGIN
      /\ user_json' = [user_json EXCEPT ![s] = player_id[s]]
      /\ known' = [r \in Sessions |-> known[r] \cup Told(r, s)]
      /\ UNCHANGED last_relayed
  BY DEF RegistrationReply, RegistrationDue, build_player_json_registrator
<1>2. user_json[s] = 0 /\ player_id[s] # 0
  BY <1>1, KeyNotNull DEF ServiceInv, OneLoginInv, NotYetAnswered
<1>3. Answered' = Answered \cup {s}
  BY <1>1, <1>2, MapTypes DEF Answered, ServiceInv, OneLoginInv
<1>4. Others(s) = DOMAIN users_map_main \ {player_id[s]}
  BY DEF Others, MoreThanOneEntry
<1>5. {player_id[users_map_main[k]] : k \in Others(s)} = Others(s)
  BY <1>4 DEF ServiceInv, OneLoginInv, KeyIsId
<1>6. s \notin Recipients(s)
  BY <1>4 DEF Recipients, ServiceInv, OneLoginInv, KeyIsId
<1>7. ASSUME NEW q \in Sessions, conn[q] = "open"
      PROVE  known'[q] = IF player_id[q] = 0 THEN known[q]
                         ELSE known[q] \cup (IF q = s THEN Others(s) ELSE {player_id[s]})
  <2>1. CASE q = s
    BY <1>1, <1>2, <1>5, <1>6, <2>1 DEF Told
  <2>2. CASE q # s /\ player_id[q] = 0
    <3>1. q \notin Recipients(s)
      BY <2>2, KeyNotNull DEF Recipients, Others, ServiceInv, OneLoginInv, KeyIsId
    <3> QED
      BY <1>1, <2>2, <3>1 DEF Told
  <2>3. CASE q # s /\ player_id[q] # 0
    <3>1. player_id[q] \in DOMAIN users_map_main /\ users_map_main[player_id[q]] = q
      BY <1>7, <2>3 DEF ServiceInv, OneLoginInv, ReachInv, RegisteredReachable, Registered
    <3>2. q \in Recipients(s)
      BY <1>4, <2>3, <3>1 DEF Recipients
    <3> QED
      BY <1>1, <2>3, <3>2 DEF Told
  <2> QED
    BY <2>1, <2>2, <2>3
<1>8. Known' = [q \in Sessions |->
        IF ~(conn[q] = "open" /\ player_id[q] # 0) THEN Known[q]
        ELSE Known[q] \cup (IF q = s THEN DOMAIN users_map_main \ {player_id[s]}
                           ELSE {player_id[s]})]
  BY <1>4, <1>7 DEF Known
<1> QED
  BY <1>1, <1>2, <1>3, <1>8 DEF Service!Announce, Service!In, Known, Answered

\* The visit of a move relays the queue; that of a gem relays nothing.
LEMMA MovementRelays ==
  ASSUME ServiceInv, NEW s \in Sessions,
         player_id[s] \in DOMAIN users_map_main, MovementReply(s),
         UNCHANGED <<conn, player_id, clock, users_map_main, moves>>
  PROVE  Service!Relay(s) \/ UNCHANGED Service!vars
<1>1. /\ status[s] = MOVE
      /\ user_json' = [user_json EXCEPT ![s] = player_id[s]]
      /\ UNCHANGED known
  BY DEF MovementReply, MovementDue, build_player_json_movment, build_gems_score_json
<1>2. user_json[s] # 0 /\ player_id[s] # 0
  BY <1>1, KeyNotNull DEF ServiceInv, OneLoginInv, LoginInv, LoginOK
<1>3. Answered' = Answered /\ s \in Answered
  BY <1>1, <1>2, MapTypes DEF Answered, ServiceInv, OneLoginInv
<1>4. UNCHANGED Known
  BY <1>1 DEF Known
<1>5. CASE collision_status[s] = GEM_EAT
  <2>1. UNCHANGED last_relayed
    BY <1>5 DEF MovementReply
  <2> QED
    BY <1>1, <1>3, <1>4, <2>1 DEF Service!vars, Known, Answered
<1>6. CASE collision_status[s] # GEM_EAT
  <2> DEFINE last == player_seq[s][Len(player_seq[s])]
  <2>1. last_relayed' = [last_relayed EXCEPT ![s] = last]
    BY <1>6 DEF MovementReply, build_player_json_movment
  <2>2. /\ player_seq[s] # <<>> /\ player_seq[s] \in Seq(Nat)
        /\ last_relayed[s] \in Nat /\ moves[s] \in Nat
    BY <1>1 DEF ServiceInv, OneLoginInv, TypeInv, MoveQueued, TypeOK, PssTypeOK,
                HistoryTypeOK, ClientTypeOK
  <2>3. Len(player_seq[s]) \in 1 .. Len(player_seq[s]) /\ last \in Nat
    BY <2>2
  <2>4. last_relayed[s] < last /\ last <= moves[s]
    BY <2>3 DEF ServiceInv, QueueInv, QueueOK, MoveOrder
  <2>5. last \in last_relayed[s] + 1 .. moves[s]
    BY <2>2, <2>3, <2>4
  <2> QED
    BY <1>1, <1>3, <1>4, <2>1, <2>5 DEF Service!Relay, Known, Answered
<1> QED
  BY <1>5, <1>6

LEMMA TickServes ==
  ASSUME ServiceInv, Tick
  PROVE  Service!Next \/ UNCHANGED Service!vars
<1>1. CASE game_loop_cb \/ Break
  BY <1>1, HiddenStep DEF game_loop_cb, Break, net_vars, pss_vars, client_vars,
                          history_vars
<1>2. ASSUME NEW k \in visiting, response_to_client_cp(k), ~Break
      PROVE  Service!Next \/ UNCHANGED Service!vars
  <2>1. PICK s : s = users_map_main[k]
    OBVIOUS
  <2>2. /\ s \in Sessions /\ player_id[s] = k
        /\ k \in DOMAIN users_map_main
    BY <2>1, MapTypes DEF ServiceInv, OneLoginInv, KeyIsId
  <2>3. /\ RegistrationReply(s) \/ MovementReply(s) \/ NothingDue(s)
        /\ UNCHANGED <<conn, player_id, clock, users_map_main, moves>>
    BY <1>2, <2>1 DEF response_to_client_cp, net_vars
  <2>4. CASE RegistrationReply(s)
    BY <2>1, <2>2, <2>3, <2>4, RegistrationAnnounces DEF Service!Next
  <2>5. CASE MovementReply(s)
    BY <2>2, <2>3, <2>5, MovementRelays DEF Service!Next
  <2>6. CASE NothingDue(s)
    BY <2>3, <2>6, HiddenStep DEF NothingDue, history_vars
  <2> QED
    BY <2>3, <2>4, <2>5, <2>6
<1> QED
  BY <1>1, <1>2 DEF Tick

LEMMA ClientServes ==
  ASSUME ServiceInv, NEW s \in Sessions, Client(s)
  PROVE  Service!Next \/ UNCHANGED Service!vars
<1>1. CASE Established(s)
  BY <1>1, EstablishedConnects DEF Service!Next
<1>2. CASE SendLogin(s) \/ Break
  BY <1>2, HiddenStep DEF SendLogin, Receive, Break, net_vars, pss_vars,
                          client_vars, history_vars
<1>3. CASE \E hit \in BOOLEAN : SendMove(s, hit)
  BY <1>3, MovePlays DEF Service!Next
<1>4. CASE PeerInitiatedClose(s) /\ ~Break
  BY <1>4, CloseLeaves DEF Service!Next
<1>5. CASE ConnectionLost(s)
  BY <1>5, LostLoses DEF Service!Next
<1> QED
  BY <1>1, <1>2, <1>3, <1>4, <1>5 DEF Client

LEMMA NextServes ==
  ASSUME OneLogin
  PROVE  ServiceInv /\ [Next]_vars => [Service!Next]_(Service!vars)
<1> SUFFICES ASSUME ServiceInv, [Next]_vars
             PROVE  Service!Next \/ UNCHANGED Service!vars
  OBVIOUS
<1>1. CASE UNCHANGED vars
  BY <1>1, HiddenStep DEF vars, net_vars, pss_vars, client_vars, history_vars
<1>2. CASE Tick
  BY <1>2, TickServes
<1>3. ASSUME NEW s \in Sessions, Client(s)
      PROVE  Service!Next \/ UNCHANGED Service!vars
  BY <1>3, ClientServes
<1>4. ASSUME NEW s \in Sessions, Writeable(s)
      PROVE  Service!Next \/ UNCHANGED Service!vars
  BY <1>4, RegistrationJoins, MovementHidden DEF Writeable, Service!Next
<1> QED
  BY <1>1, <1>2, <1>3, <1>4 DEF Next

LEMMA InitServes == Init => Service!Init
<1> SUFFICES ASSUME Init PROVE Service!Init
  OBVIOUS
<1>1. /\ conn = [s \in Sessions |-> "new"] /\ clock = 1
      /\ player_id = [s \in Sessions |-> 0]
      /\ DOMAIN users_map_main = {}
      /\ moves = [s \in Sessions |-> 0] /\ last_relayed = [s \in Sessions |-> 0]
  BY DEF Init, EmptyMap
<1>2. Answered = {} /\ Known = [s \in Sessions |-> {}]
  BY DEF Init, Answered, Known
<1> QED
  BY <1>1, <1>2 DEF Service!Init, Answered, Known

\* For players that log in at most once per connection the server implements
\* GameService, for every number of them, every rate of moves and every order of
\* departures, lost connections and ticks: each is announced once, to all who
\* are there, moves are relayed in order, and who says goodbye is forgotten.
THEOREM ServerImplementsService == ASSUME OneLogin PROVE Spec => ImplementsService
<1>1. ServiceInv /\ [Next]_vars => [Service!Next]_(Service!vars)
  BY NextServes
<1>2. Init => Service!Init
  BY InitServes
<1> QED
  BY <1>1, <1>2, ServiceInvariant, PTL DEF Spec, ImplementsService, Service!Spec

=============================================================================
