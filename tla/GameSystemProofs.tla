-------------------------- MODULE GameSystemProofs --------------------------
(***************************************************************************)
(* Theorems about the game as a whole: the pages keep to what GameServer   *)
(* lets clients do, so that its theorems hold of the game, and the gems on *)
(* a page are gems of the server.                                          *)
(***************************************************************************)
EXTENDS GameServerIdProofs, GameSystem

USE DEF LOGIN, LOGIN_ACK, MOVE, MOVE_ACK, OTHER_LOGIN, OTHER_MOVE, LEFT,
        GEM_SCATTER, GEM_EAT, GEM_ACK

-----------------------------------------------------------------------------
(***************************************************************************)
(* Sequences of anything.                                                  *)
(***************************************************************************)
IsSeq(q) == \E S : q \in Seq(S)

LEMMA EmptyIsSeq == IsSeq(<<>>) /\ Len(<<>>) = 0
<1>1. <<>> \in Seq({})
  BY EmptySeq
<1> QED
  BY <1>1, EmptySeq DEF IsSeq

LEMMA OneIsSeq ==
  ASSUME NEW m
  PROVE  IsSeq(<<m>>) /\ Len(<<m>>) = 1 /\ <<m>>[1] = m
<1>1. <<m>> \in Seq({m}) /\ Len(<<m>>) = 1 /\ <<m>>[1] = m
  OBVIOUS
<1> QED
  BY <1>1 DEF IsSeq

LEMMA LenIsNat ==
  ASSUME NEW q, IsSeq(q)
  PROVE  Len(q) \in Nat /\ (q # <<>> => Len(q) >= 1)
<1>1. PICK S : q \in Seq(S)
  BY DEF IsSeq
<1> QED
  BY <1>1

LEMMA ConcatIsSeq ==
  ASSUME NEW p, NEW q, IsSeq(p), IsSeq(q)
  PROVE  /\ IsSeq(p \o q)
         /\ Len(p) \in Nat /\ Len(q) \in Nat
         /\ Len(p \o q) = Len(p) + Len(q)
         /\ \A i \in 1 .. Len(p) + Len(q) :
              (p \o q)[i] = IF i <= Len(p) THEN p[i] ELSE q[i - Len(p)]
<1>1. PICK S : p \in Seq(S)
  BY DEF IsSeq
<1>2. PICK T : q \in Seq(T)
  BY DEF IsSeq
<1>3. p \in Seq(S \cup T) /\ q \in Seq(S \cup T)
  BY <1>1, <1>2, SeqMonotonic
<1>4. Len(p) \in Nat /\ Len(q) \in Nat
  BY <1>1, <1>2, LenProperties
<1>5. /\ p \o q \in Seq(S \cup T)
      /\ Len(p \o q) = Len(p) + Len(q)
      /\ \A i \in 1 .. Len(p) + Len(q) :
           (p \o q)[i] = IF i <= Len(p) THEN p[i] ELSE q[i - Len(p)]
  BY <1>3, ConcatProperties
<1> QED
  BY <1>4, <1>5 DEF IsSeq

LEMMA TailIsSeq ==
  ASSUME NEW q, IsSeq(q), q # <<>>
  PROVE  /\ IsSeq(Tail(q)) /\ Head(q) = q[1]
         /\ Len(q) \in Nat /\ Len(q) >= 1 /\ Len(Tail(q)) = Len(q) - 1
         /\ \A i \in 1 .. Len(q) - 1 : Tail(q)[i] = q[i + 1]
<1>1. PICK S : q \in Seq(S)
  BY DEF IsSeq
<1>2. /\ Tail(q) \in Seq(S) /\ Len(Tail(q)) = Len(q) - 1
      /\ \A i \in 1 .. Len(Tail(q)) : Tail(q)[i] = q[i + 1]
  BY <1>1, HeadTailProperties
<1>3. Head(q) = q[1] /\ Len(q) \in Nat /\ Len(q) >= 1
  BY <1>1
<1> QED
  BY <1>2, <1>3 DEF IsSeq

-----------------------------------------------------------------------------
(***************************************************************************)
(* Players whose connection was lost.  Their entries stay in the users map *)
(* for good, so that the gems are not built again; and it is only then     *)
(* that a page plays over a connection that has not logged in.             *)
(***************************************************************************)
Lost == \E r \in Sessions : LostInGame(r)

LostInv ==
  /\ \A r \in Sessions : LostInGame(r) =>
       player_id[r] \in DOMAIN users_map_main /\ users_map_main[player_id[r]] = r
  /\ \A s \in Sessions : status[s] = LEFT => conn[s] = "closed"
  /\ \A s \in Sessions : conn[s] = "new" => logins[s] = 0
  /\ Len(gems_array) = 1

LEMMA OneGem ==
  ASSUME NEW g \in scatter_gems(<<>>)
  PROVE  Len(g) = 1
<1>1. PICK new \in [1 .. 1 -> GemPos] : g = <<>> \o new
  BY DEF scatter_gems, generate_random_gems
<1>2. new \in Seq(GemPos) /\ Len(new) = 1
  <2>1. Seq(GemPos) = UNION {[1 .. n -> GemPos] : n \in Nat}
    BY SeqDef, Zenon
  <2>2. [1 .. 1 -> GemPos] \in {[1 .. n -> GemPos] : n \in Nat}
    BY 1 \in Nat, Zenon
  <2>3. new \in Seq(GemPos)
    BY <1>1, <2>1, <2>2, Zenon
  <2>4. DOMAIN new = 1 .. Len(new) /\ DOMAIN new = 1 .. 1 /\ Len(new) \in Nat
    BY <1>1, <2>3
  <2> QED
    BY <2>3, <2>4
<1> QED
  BY <1>1, <1>2, EmptySeq, ConcatProperties

LEMMA InitLost == Init => LostInv
<1> SUFFICES ASSUME Init PROVE LostInv
  OBVIOUS
<1>1. Len(gems_array) = 1
  BY OneGem DEF Init
<1>2. \A s \in Sessions : user_json[s] = 0 /\ status[s] = 0 /\ logins[s] = 0
  BY DEF Init
<1> QED
  BY <1>1, <1>2 DEF LostInv, LostInGame

LEMMA LostFrame ==
  ASSUME LostInv,
         UNCHANGED <<conn, status, user_json, player_id, users_map_main, gems_array, logins>>
  PROVE  LostInv' /\ (Lost => Lost')
BY DEF LostInv, Lost, LostInGame

LEMMA VisitLost ==
  ASSUME OneLoginInv, LostInv, NEW k \in visiting, response_to_client_cp(k), ~Break
  PROVE  LostInv' /\ (Lost => Lost')
<1> DEFINE s == users_map_main[k]
<1>1. s \in Sessions /\ player_id[s] = k /\ k # 0 /\ k \in DOMAIN users_map_main
  BY MapTypes, KeyNotNull DEF OneLoginInv, KeyIsId
<1>2. /\ UNCHANGED <<conn, gems_array, player_id, users_map_main, logins>>
      /\ RegistrationReply(s) \/ MovementReply(s) \/ NothingDue(s)
  BY DEF response_to_client_cp, net_vars
<1>3. /\ status \in [Sessions -> {LOGIN, LOGIN_ACK, MOVE, MOVE_ACK, LEFT}]
      /\ user_json \in [Sessions -> 0 .. clock]
  BY LoginTypes DEF OneLoginInv, TypeInv, TypeOK, PssTypeOK
<1> HIDE DEF s
<1>4. /\ \A t \in Sessions \ {s} : status'[t] = status[t] /\ user_json'[t] = user_json[t]
      /\ \/ status'[s] \in {LOGIN_ACK, MOVE_ACK} /\ user_json'[s] # 0
         \/ status'[s] = status[s] /\ user_json'[s] = user_json[s]
  <2>1. CASE RegistrationReply(s)
    BY <1>1, <1>3, <2>1 DEF RegistrationReply, build_player_json_registrator
  <2>2. CASE MovementReply(s)
    <3>1. /\ user_json' = [user_json EXCEPT ![s] = player_id[s]]
          /\ status' = [status EXCEPT ![s] = MOVE_ACK]
      BY <2>2 DEF MovementReply, build_gems_score_json, build_player_json_movment
    <3> QED
      BY <1>1, <1>3, <3>1
  <2>3. CASE NothingDue(s)
    BY <2>3 DEF NothingDue
  <2> QED
    BY <1>2, <2>1, <2>2, <2>3
<1>5. users_map_main[player_id[s]] = s
  BY <1>1 DEF s
<1> QED
  BY <1>1, <1>2, <1>4, <1>5 DEF LostInv, Lost, LostInGame

LEMMA ClientLost ==
  ASSUME OneLoginInv, LostInv, NEW s \in Sessions, Client(s), ~Break
  PROVE  LostInv' /\ (Lost => Lost')
<1>1. /\ conn \in [Sessions -> {"new", "open", "closed"}]
      /\ status \in [Sessions -> {LOGIN, LOGIN_ACK, MOVE, MOVE_ACK, LEFT}]
      /\ logins \in [Sessions -> Nat]
  BY LoginTypes DEF OneLoginInv, TypeInv, TypeOK, NetTypeOK
<1>2. CASE Established(s)
  <2>1. /\ conn[s] = "new" /\ conn' = [conn EXCEPT ![s] = "open"]
        /\ UNCHANGED <<status, user_json, player_id, users_map_main, gems_array, logins>>
    BY <1>2 DEF Established, client_vars
  <2> QED
    BY <1>1, <2>1 DEF LostInv, Lost, LostInGame
<1>3. CASE SendLogin(s) \/ \E hit \in BOOLEAN : SendMove(s, hit)
  <2>1. /\ conn[s] = "open" /\ \A t \in Sessions \ {s} : logins'[t] = logins[t]
        /\ UNCHANGED <<conn, status, user_json, player_id, users_map_main, gems_array>>
    BY <1>1, <1>3 DEF SendLogin, SendMove, Receive, pss_vars
  <2> QED
    BY <2>1 DEF LostInv, Lost, LostInGame
<1>4. CASE PeerInitiatedClose(s)
  <2>1. /\ conn[s] = "open" /\ conn' = [conn EXCEPT ![s] = "closed"]
        /\ UNCHANGED <<player_id, user_json>>
        /\ DOMAIN users_map_main' = DOMAIN users_map_main \ {player_id[s]}
        /\ \A k \in DOMAIN users_map_main' : users_map_main'[k] = users_map_main[k]
    BY <1>4, PeerCloseReach DEF OneLoginInv
  <2>2. status' = [status EXCEPT ![s] = LEFT] /\ UNCHANGED logins
    BY <1>4 DEF PeerInitiatedClose, client_vars
  <2>3. Len(gems_array') = 1
    <3>1. UNCHANGED gems_array \/ gems_array' \in scatter_gems(<<>>)
      BY <1>4 DEF PeerInitiatedClose
    <3> QED
      BY <3>1, OneGem DEF LostInv
  <2>4. ASSUME NEW r \in Sessions
        PROVE  LostInGame(r)' <=> LostInGame(r)
    BY <1>1, <2>1, <2>2 DEF LostInGame
  <2>5. ASSUME NEW r \in Sessions, LostInGame(r)
        PROVE  player_id[r] # player_id[s]
    <3>1. r # s /\ player_id[r] \in DOMAIN users_map_main /\ users_map_main[player_id[r]] = r
      BY <2>1, <2>5 DEF LostInv, LostInGame
    <3>2. player_id[r] # 0
      BY <3>1, KeyNotNull DEF OneLoginInv
    <3> QED
      BY <2>1, <3>1, <3>2 DEF OneLoginInv, ReachInv, RegisteredReachable, Registered
  <2>6. \A r \in Sessions : LostInGame(r)' =>
          player_id'[r] \in DOMAIN users_map_main' /\ users_map_main'[player_id'[r]] = r
    BY <2>1, <2>4, <2>5 DEF LostInv
  <2>7. \A t \in Sessions : status'[t] = LEFT => conn'[t] = "closed"
    BY <1>1, <2>1, <2>2 DEF LostInv
  <2>8. \A t \in Sessions : conn'[t] = "new" => logins'[t] = 0
    BY <1>1, <2>1, <2>2 DEF LostInv
  <2> QED
    BY <2>3, <2>4, <2>6, <2>7, <2>8 DEF LostInv, Lost
<1>5. CASE ConnectionLost(s)
  <2>1. /\ conn[s] = "open" /\ conn' = [conn EXCEPT ![s] = "closed"]
        /\ UNCHANGED <<status, user_json, player_id, users_map_main, gems_array, logins>>
    BY <1>5 DEF ConnectionLost, pss_vars, client_vars
  <2>2. user_json[s] # 0 => player_id[s] \in DOMAIN users_map_main /\ users_map_main[player_id[s]] = s
    BY <2>1 DEF OneLoginInv, LoginInv, LoginOK, ReachInv, RegisteredReachable, Registered
  <2> QED
    BY <1>1, <2>1, <2>2 DEF LostInv, Lost, LostInGame
<1> QED
  BY <1>2, <1>3, <1>4, <1>5 DEF Client

LEMMA WriteableLost ==
  ASSUME OneLogin, OneLoginInv, LostInv, NEW s \in Sessions, Writeable(s), ~Break
  PROVE  LostInv' /\ (Lost => Lost')
<1>1. status \in [Sessions -> {LOGIN, LOGIN_ACK, MOVE, MOVE_ACK, LEFT}]
  BY LoginTypes DEF OneLoginInv, TypeInv
<1>2. conn[s] = "open" /\ UNCHANGED <<conn, user_json, gems_array, logins>>
  BY DEF Writeable, Registration, Movement, ServerWriteable, client_vars
<1>3. CASE Registration(s)
  <2>1. /\ player_id' = [player_id EXCEPT ![s] = clock + 1]
        /\ DOMAIN users_map_main' = DOMAIN users_map_main \cup {clock + 1}
    BY <1>3, RegistrationStep DEF OneLoginInv
  <2>2. /\ users_map_main' = hashmapPut(users_map_main, clock + 1, s)
        /\ status' = [status EXCEPT ![s] = LOGIN]
    BY <1>3 DEF Registration, ClockSteps, UniqueIds, OneLogin
  <2>3. \A k \in DOMAIN users_map_main :
          k # clock + 1 /\ users_map_main'[k] = users_map_main[k]
    BY <2>1, <2>2, MapTypes DEF OneLoginInv, hashmapPut
  <2>4. \A r \in Sessions \ {s} : player_id'[r] = player_id[r] /\ status'[r] = status[r]
    BY <1>1, <2>1, <2>2, MapTypes DEF OneLoginInv
  <2>5. status'[s] # LEFT
    BY <1>1, <2>2
  <2> QED
    BY <1>2, <2>1, <2>3, <2>4, <2>5 DEF LostInv, Lost, LostInGame
<1>4. CASE Movement(s)
  <2>1. UNCHANGED <<player_id, users_map_main>> /\ status' = [status EXCEPT ![s] = MOVE]
    BY <1>4, MovementReach DEF OneLoginInv, Movement
  <2> QED
    BY <1>1, <1>2, <2>1 DEF LostInv, Lost, LostInGame
<1> QED
  BY <1>3, <1>4 DEF Writeable

\* Who is lost stays lost.
LEMMA NextLost ==
  ASSUME OneLogin, OneLoginInv, LostInv, [Next]_vars
  PROVE  LostInv' /\ (Lost => Lost')
<1>1. CASE UNCHANGED vars \/ Break \/ game_loop_cb
  BY <1>1, LostFrame DEF vars, Break, game_loop_cb, net_vars, pss_vars, client_vars
<1>2. CASE ~Break /\ \E k \in visiting : response_to_client_cp(k)
  BY <1>2, VisitLost
<1>3. CASE ~Break /\ \E s \in Sessions : Client(s) \/ Writeable(s)
  BY <1>3, ClientLost, WriteableLost
<1> QED
  BY <1>1, <1>2, <1>3 DEF Next, Tick

-----------------------------------------------------------------------------
(***************************************************************************)
(* The page of a connection against the server.  The gems come before the  *)
(* acknowledgment; a page that has heard of either is of a player that is  *)
(* in the users map, or it has come from a connection that was lost; until *)
(* it has, the gems may still be built again.                              *)
(***************************************************************************)
Scattered(q, i) == \E j \in 1 .. i - 1 : q[j].status = GEM_SCATTER

InboxOK(s, q) ==
  /\ IsSeq(q)
  /\ \A i \in 1 .. Len(q) : q[i].status = GEM_SCATTER =>
       q[i].gems = gems_array /\ user_json[s] # 0
  /\ \A i \in 1 .. Len(q) : q[i].status = LOGIN_ACK =>
       /\ user_json[s] # 0
       /\ m_GameLayer[s] \/ msgProtocolGems[s] = gems_array \/ Scattered(q, i)

\* The page has heard of a registration.
Heard(s) == m_GameLayer[s] \/ msgProtocolGems[s] # <<>>

PageOK(s) ==
  /\ InboxOK(s, inbox[s])
  /\ conn[s] # "open" => inbox[s] = <<>>
  /\ conn[s] = "new" => ~Heard(s)
  /\ Heard(s) => (conn[s] = "open" /\ user_json[s] # 0) \/ Lost
  /\ msgProtocolGems[s] \in {<<>>, gems_array}
  /\ gems[s] = <<>> \/ (gems[s] = gems_array /\ m_GameLayer[s] /\ gems_eaten[s] = 0)
  /\ m_GameLayer[s] => user_json[s] # 0 \/ logins[s] = 0 \/ conn[s] = "closed"
  /\ ~m_GameLayer[s] =>
       \/ conn[s] = "closed" \/ gems_eaten[s] = 0
       \/ broken /\ inbox[s] = <<>>

PageTypes ==
  /\ m_GameLayer \in [Sessions -> BOOLEAN]
  /\ DOMAIN inbox = Sessions
  /\ DOMAIN msgProtocolGems = Sessions
  /\ DOMAIN gems = Sessions

SystemInv == OneLoginInv /\ LostInv /\ PageTypes /\ \A s \in Sessions : PageOK(s)

SamePage(s) ==
  /\ m_GameLayer'[s] = m_GameLayer[s] /\ gems'[s] = gems[s]
  /\ msgProtocolGems'[s] = msgProtocolGems[s]

\* Nothing has changed for s, but that it has connected, sent a login, been
\* answered or lost its connection, or that the process has broken down.
LEMMA QuietPage ==
  ASSUME NEW s \in Sessions, PageOK(s), SamePage(s), UNCHANGED gems_array, Lost => Lost',
         inbox'[s] = inbox[s] \/ inbox'[s] = <<>>,
         user_json'[s] = user_json[s] \/ user_json'[s] # 0,
         gems_eaten'[s] = gems_eaten[s], logins'[s] = logins[s] \/ ~m_GameLayer[s],
         \/ conn'[s] = conn[s] \/ (conn[s] = "new" /\ conn'[s] = "open")
         \/ conn'[s] = "closed" /\ inbox'[s] = <<>> /\ (Heard(s) => Lost'),
         broken => broken'
  PROVE  PageOK(s)'
<1>1. InboxOK(s, inbox[s])'
  <2>1. CASE inbox'[s] = <<>>
    BY <2>1, EmptyIsSeq DEF InboxOK
  <2>2. CASE inbox'[s] = inbox[s]
    BY <2>2 DEF InboxOK, PageOK, SamePage, Scattered
  <2> QED
    BY <2>1, <2>2
<1> QED
  BY <1>1 DEF PageOK, SamePage, Heard

\* What is sent to s while nothing else changes for it.
LEMMA SentPage ==
  ASSUME NEW s \in Sessions, PageOK(s), SamePage(s), UNCHANGED gems_array, Lost => Lost',
         NEW out, IsSeq(out), inbox'[s] = inbox[s] \o out, conn[s] = "open",
         user_json'[s] = user_json[s] \/ user_json'[s] # 0,
         \A i \in 1 .. Len(out) : out[i].status = GEM_SCATTER =>
           out[i].gems = gems_array /\ user_json'[s] # 0,
         \A i \in 1 .. Len(out) : out[i].status = LOGIN_ACK =>
           user_json'[s] # 0 /\ Scattered(out, i),
         gems_eaten'[s] = gems_eaten[s], logins'[s] = logins[s],
         conn'[s] = conn[s], ~broken
  PROVE  PageOK(s)'
<1> DEFINE q == inbox[s]
           both == q \o out
<1>1. InboxOK(s, q)
  BY DEF PageOK
<1>2. /\ IsSeq(both) /\ Len(q) \in Nat /\ Len(out) \in Nat
      /\ Len(both) = Len(q) + Len(out)
      /\ \A i \in 1 .. Len(q) + Len(out) :
           both[i] = IF i <= Len(q) THEN q[i] ELSE out[i - Len(q)]
  BY <1>1, ConcatIsSeq DEF InboxOK
<1> HIDE DEF both
<1>3. ASSUME NEW i \in 1 .. Len(both)
      PROVE  \/ i \in 1 .. Len(q) /\ both[i] = q[i]
             \/ i - Len(q) \in 1 .. Len(out) /\ both[i] = out[i - Len(q)]
  BY <1>2
<1>4. ASSUME NEW i \in 1 .. Len(q), Scattered(q, i)
      PROVE  Scattered(both, i)
  <2>1. PICK j \in 1 .. i - 1 : q[j].status = GEM_SCATTER
    BY <1>4 DEF Scattered
  <2>2. both[j] = q[j]
    BY <1>2, <2>1
  <2> QED
    BY <2>1, <2>2 DEF Scattered
<1>5. ASSUME NEW i \in 1 .. Len(both), i - Len(q) \in 1 .. Len(out),
             Scattered(out, i - Len(q))
      PROVE  Scattered(both, i)
  <2>1. PICK j \in 1 .. (i - Len(q)) - 1 : out[j].status = GEM_SCATTER
    BY <1>5 DEF Scattered
  <2>2. j + Len(q) \in 1 .. i - 1 /\ both[j + Len(q)] = out[j]
    <3>1. /\ j + Len(q) \in 1 .. i - 1 /\ j + Len(q) \in 1 .. Len(q) + Len(out)
          /\ ~(j + Len(q) <= Len(q)) /\ (j + Len(q)) - Len(q) = j
      BY <1>2, <1>5, <2>1
    <3> QED
      BY <1>2, <3>1
  <2> QED
    BY <2>1, <2>2 DEF Scattered
<1>6. InboxOK(s, inbox[s])'
  <2>1. inbox'[s] = both
    BY DEF both
  <2>2. ASSUME NEW i \in 1 .. Len(both), both[i].status = GEM_SCATTER
        PROVE  both[i].gems = gems_array' /\ user_json'[s] # 0
    BY <1>1, <1>3, <2>2 DEF InboxOK
  <2>3. ASSUME NEW i \in 1 .. Len(both), both[i].status = LOGIN_ACK
        PROVE  /\ user_json'[s] # 0
               /\ \/ m_GameLayer'[s] \/ msgProtocolGems'[s] = gems_array'
                  \/ Scattered(both, i)
    <3>1. CASE i \in 1 .. Len(q) /\ both[i] = q[i]
      BY <1>1, <1>4, <2>3, <3>1 DEF InboxOK, SamePage
    <3>2. CASE i - Len(q) \in 1 .. Len(out) /\ both[i] = out[i - Len(q)]
      BY <1>5, <2>3, <3>2
    <3> QED
      BY <1>3, <3>1, <3>2
  <2> QED
    BY <1>2, <2>1, <2>2, <2>3 DEF InboxOK, Scattered
<1> QED
  BY <1>6 DEF PageOK, SamePage, Heard

\* A page that its user has closed.
LEMMA GonePage ==
  ASSUME NEW s \in Sessions, PageTypes, Page!Gone(s), inbox'[s] = <<>>,
         conn'[s] = "closed" \/ broken'
  PROVE  PageOK(s)'
<1>1. ~m_GameLayer'[s] /\ msgProtocolGems'[s] = <<>> /\ gems'[s] = <<>>
  BY DEF Page!Gone, PageTypes
<1> QED
  BY <1>1, EmptyIsSeq DEF PageOK, InboxOK, Heard

LEMMA GoneSame ==
  ASSUME NEW s \in Sessions, PageTypes, Page!Gone(s)
  PROVE  \A t \in Sessions \ {s} : SamePage(t)
BY DEF Page!Gone, PageTypes, SamePage

LEMMA DeliverTypes ==
  ASSUME NEW out, Deliver(out)
  PROVE  /\ DOMAIN inbox' = Sessions
         /\ \A t \in Sessions : inbox'[t] =
              IF conn'[t] = "open" /\ ~broken' THEN inbox[t] \o out[t] ELSE <<>>
BY DEF Deliver

-----------------------------------------------------------------------------
(***************************************************************************)
(* What the server sends.                                                  *)
(***************************************************************************)

\* The gems and the acknowledgment go to the new player alone, in this order.
LEMMA RegistrationNews ==
  ASSUME NEW s \in Sessions, NEW c \in Sessions
  PROVE  LET out == RegistrationSent(s)[c] IN
         /\ IsSeq(out)
         /\ \A i \in 1 .. Len(out) : out[i].status = GEM_SCATTER =>
              out[i].gems = gems_array /\ c = s
         /\ \A i \in 1 .. Len(out) : out[i].status = LOGIN_ACK =>
              c = s /\ Scattered(out, i)
<1> DEFINE news == WithStatus(build_player_json_registrator(s), OTHER_LOGIN)
           X == IF c \in Recipients(s) THEN <<news>> ELSE <<>>
           out == RegistrationSent(s)[c]
<1>1. news.status = OTHER_LOGIN
  BY DEF WithStatus, build_player_json_registrator
<1>2. IsSeq(X) /\ \A i \in 1 .. Len(X) : X[i].status = OTHER_LOGIN
  <2> HIDE DEF news
  <2>1. CASE c \in Recipients(s)
    BY <1>1, <2>1, OneIsSeq
  <2>2. CASE c \notin Recipients(s)
    BY <2>2, EmptyIsSeq
  <2> QED
    BY <2>1, <2>2
<1> HIDE DEF X
<1>3. CASE c = s
  <2> DEFINE gemsMsg == build_gems_scatter_json(s)
             ackMsg == [status |-> build_player_json_registrator(s).status,
                        player_id |-> build_player_json_registrator(s).player_id,
                        players |-> {player_id[r] : r \in Recipients(s)}]
             rest == X \o <<ackMsg>>
             first == <<gemsMsg>>
  <2>1. out = first \o rest
    BY <1>3 DEF RegistrationSent, Then, ToSelf, ToOthers, X
  <2>2. /\ gemsMsg.status = GEM_SCATTER /\ gemsMsg.gems = gems_array
        /\ ackMsg.status = LOGIN_ACK
    BY DEF build_gems_scatter_json, build_player_json_registrator
  <2> HIDE DEF gemsMsg, ackMsg, out
  <2>3. /\ IsSeq(rest)
        /\ \A i \in 1 .. Len(rest) : rest[i].status \in {OTHER_LOGIN, LOGIN_ACK}
    <3>1. IsSeq(<<ackMsg>>) /\ Len(<<ackMsg>>) = 1 /\ <<ackMsg>>[1] = ackMsg
      BY OneIsSeq
    <3>2. /\ IsSeq(rest) /\ Len(X) \in Nat /\ Len(rest) = Len(X) + 1
          /\ \A i \in 1 .. Len(X) + 1 :
               rest[i] = IF i <= Len(X) THEN X[i] ELSE <<ackMsg>>[i - Len(X)]
      BY <1>2, <3>1, ConcatIsSeq
    <3>3. ASSUME NEW i \in 1 .. Len(X) + 1
          PROVE  rest[i].status \in {OTHER_LOGIN, LOGIN_ACK}
      <4>1. CASE i <= Len(X)
        BY <1>2, <3>2, <4>1
      <4>2. CASE ~(i <= Len(X))
        <5>1. i - Len(X) = 1
          BY <3>2, <4>2
        <5> QED
          BY <2>2, <3>1, <3>2, <4>2, <5>1
      <4> QED
        BY <4>1, <4>2
    <3> QED
      BY <3>2, <3>3
  <2> HIDE DEF rest
  <2>4. IsSeq(first) /\ Len(first) = 1 /\ first[1] = gemsMsg
    BY OneIsSeq
  <2> HIDE DEF first
  <2>5. /\ IsSeq(out) /\ Len(rest) \in Nat /\ Len(out) = 1 + Len(rest)
        /\ \A i \in 1 .. 1 + Len(rest) :
             out[i] = IF i <= 1 THEN first[i] ELSE rest[i - 1]
    <3>1. /\ IsSeq(first \o rest) /\ Len(rest) \in Nat
          /\ Len(first \o rest) = Len(first) + Len(rest)
          /\ \A i \in 1 .. Len(first) + Len(rest) : (first \o rest)[i] =
               IF i <= Len(first) THEN first[i] ELSE rest[i - Len(first)]
      BY <2>3, <2>4, ConcatIsSeq
    <3> QED
      BY <2>1, <2>4, <3>1
  <2>6. ASSUME NEW i \in 1 .. Len(out)
        PROVE  \/ i = 1 /\ out[i] = gemsMsg
               \/ i > 1 /\ out[i].status \in {OTHER_LOGIN, LOGIN_ACK}
    BY <2>3, <2>4, <2>5
  <2>7. \A i \in 1 .. Len(out) : out[i].status = GEM_SCATTER => out[i].gems = gems_array
    BY <2>2, <2>6
  <2>8. ASSUME NEW i \in 1 .. Len(out), out[i].status = LOGIN_ACK
        PROVE  Scattered(out, i)
    <3>1. i > 1
      BY <2>2, <2>6, <2>8
    <3>2. 1 \in 1 .. i - 1 /\ out[1].status = GEM_SCATTER
      BY <2>2, <2>4, <2>5, <3>1
    <3> QED
      BY <3>2 DEF Scattered
  <2> QED
    BY <1>3, <2>5, <2>7, <2>8 DEF out
<1>4. CASE c # s
  <2> DEFINE rest == X \o <<>>
  <2>1. out = <<>> \o rest
    BY <1>4 DEF RegistrationSent, Then, ToSelf, ToOthers, X
  <2> HIDE DEF out
  <2>2. /\ IsSeq(rest) /\ Len(rest) = Len(X) + 0 /\ Len(X) \in Nat
        /\ \A i \in 1 .. Len(X) + 0 : rest[i] = IF i <= Len(X) THEN X[i] ELSE <<>>[i - Len(X)]
    BY <1>2, EmptyIsSeq, ConcatIsSeq
  <2>3. \A i \in 1 .. Len(rest) : rest[i].status = OTHER_LOGIN
    BY <1>2, <2>2
  <2> HIDE DEF rest
  <2>4. /\ IsSeq(out) /\ Len(out) = 0 + Len(rest) /\ Len(rest) \in Nat
        /\ \A i \in 1 .. 0 + Len(rest) : out[i] = IF i <= 0 THEN <<>>[i] ELSE rest[i - 0]
    BY <2>1, <2>2, EmptyIsSeq, ConcatIsSeq
  <2>5. \A i \in 1 .. Len(out) : out[i].status = OTHER_LOGIN
    BY <2>3, <2>4
  <2> QED
    BY <2>4, <2>5 DEF out
<1> QED
  BY <1>3, <1>4

\* Moves and departures are neither.
LEMMA OtherNews ==
  ASSUME NEW s \in Sessions, NEW c \in Sessions,
         NEW out \in {MovementSent(s)[c], LeaveSent(s)[c], Nothing[c]}
  PROVE  IsSeq(out) /\ \A i \in 1 .. Len(out) : out[i].status \notin {GEM_SCATTER, LOGIN_ACK}
<1> DEFINE ack == IF collision_status[s] = GEM_EAT
                  THEN build_gems_score_json(s) ELSE build_player_json_movment(s)
           news == WithStatus(ack, OTHER_MOVE)
           left == [status |-> LEFT, player_id |-> user_json[s]]
<1>1. ack.status = MOVE_ACK
  BY DEF build_gems_score_json, build_player_json_movment
<1>2. news.status = OTHER_MOVE
  <2>1. CASE collision_status[s] = GEM_EAT
    BY <2>1 DEF WithStatus, build_gems_score_json
  <2>2. CASE collision_status[s] # GEM_EAT
    BY <2>2 DEF WithStatus, build_player_json_movment
  <2> QED
    BY <2>1, <2>2
<1>3. left.status = LEFT
  OBVIOUS
<1>4. CASE out = Nothing[c]
  <2>1. out = <<>>
    BY <1>4 DEF Nothing
  <2> QED
    BY <2>1, EmptyIsSeq
<1>5. CASE out = LeaveSent(s)[c]
  <2>1. out = IF c \in Recipients(s) THEN <<left>> ELSE <<>>
    BY <1>5 DEF LeaveSent, ToOthers
  <2> HIDE DEF left
  <2>2. CASE c \in Recipients(s)
    BY <1>3, <2>1, <2>2, OneIsSeq
  <2>3. CASE c \notin Recipients(s)
    BY <2>1, <2>3, EmptyIsSeq
  <2> QED
    BY <2>2, <2>3
<1>6. CASE out = MovementSent(s)[c]
  <2> DEFINE p == IF c \in Recipients(s) THEN <<news>> ELSE <<>>
             q == IF c = s THEN <<ack>> ELSE <<>>
  <2>1. out = p \o q
    BY <1>6 DEF MovementSent, Then, ToOthers, ToSelf
  <2> HIDE DEF news, ack
  <2>2. IsSeq(p) /\ \A i \in 1 .. Len(p) : p[i].status = OTHER_MOVE
    <3>1. CASE c \in Recipients(s)
      BY <1>2, <3>1, OneIsSeq
    <3>2. CASE c \notin Recipients(s)
      BY <3>2, EmptyIsSeq
    <3> QED
      BY <3>1, <3>2
  <2>3. IsSeq(q) /\ \A i \in 1 .. Len(q) : q[i].status = MOVE_ACK
    <3>1. CASE c = s
      BY <1>1, <3>1, OneIsSeq
    <3>2. CASE c # s
      BY <3>2, EmptyIsSeq
    <3> QED
      BY <3>1, <3>2
  <2> HIDE DEF p, q
  <2>4. /\ IsSeq(out) /\ Len(p) \in Nat /\ Len(q) \in Nat
        /\ Len(out) = Len(p) + Len(q)
        /\ \A i \in 1 .. Len(p) + Len(q) : out[i] = IF i <= Len(p) THEN p[i] ELSE q[i - Len(p)]
    BY <2>1, <2>2, <2>3, ConcatIsSeq
  <2>5. ASSUME NEW i \in 1 .. Len(out)
        PROVE  out[i].status \in {OTHER_MOVE, MOVE_ACK}
    <3>1. CASE i <= Len(p)
      BY <2>2, <2>4, <3>1
    <3>2. CASE ~(i <= Len(p))
      <4>1. i - Len(p) \in 1 .. Len(q)
        BY <2>4, <3>2
      <4> QED
        BY <2>3, <2>4, <3>2, <4>1
    <3> QED
      BY <3>1, <3>2
  <2> QED
    BY <2>4, <2>5
<1> QED
  BY <1>4, <1>5, <1>6

-----------------------------------------------------------------------------
(***************************************************************************)
(* The steps of the server and of a connection that ends.                  *)
(***************************************************************************)

LEMMA QuietPages ==
  ASSUME SystemInv, UNCHANGED <<page_vars, gems_array, user_json, gems_eaten>>,
         Lost => Lost', \A c \in Sessions : logins'[c] = logins[c] \/ ~m_GameLayer[c],
         \/ inbox' = inbox
         \/ DOMAIN inbox' = Sessions /\ \A c \in Sessions : inbox'[c] = <<>>,
         \A c \in Sessions :
           conn'[c] = conn[c] \/ (conn[c] = "new" /\ conn'[c] = "open"),
         broken => broken'
  PROVE  PageTypes' /\ \A c \in Sessions : PageOK(c)'
<1>1. PageTypes'
  BY DEF SystemInv, PageTypes, page_vars
<1>2. \A c \in Sessions : SamePage(c)
  BY DEF SamePage, page_vars
<1> QED
  BY <1>1, <1>2, QuietPage DEF SystemInv

LEMMA VisitPages ==
  ASSUME SystemInv, NEW k \in visiting, response_to_client_cp(k),
         Deliver(VisitSent(users_map_main[k])), UNCHANGED page_vars, Lost => Lost'
  PROVE  PageTypes' /\ \A c \in Sessions : PageOK(c)'
<1> DEFINE s == users_map_main[k]
<1>0. s \in Sessions /\ player_id[s] = k /\ k # 0 /\ k \in DOMAIN users_map_main
  BY MapTypes, KeyNotNull DEF SystemInv, OneLoginInv, KeyIsId
<1>1. DOMAIN inbox' = Sessions /\ PageTypes'
  BY DeliverTypes DEF SystemInv, PageTypes, page_vars
<1>2. \A c \in Sessions : inbox'[c] =
        IF conn'[c] = "open" /\ ~broken' THEN inbox[c] \o VisitSent(s)[c] ELSE <<>>
  BY DeliverTypes
<1>3. CASE Break
  <2>1. /\ UNCHANGED <<conn, gems_array, user_json, gems_eaten, logins>> /\ broken'
    BY <1>3 DEF Break, net_vars, pss_vars, client_vars
  <2>2. \A c \in Sessions : inbox'[c] = <<>>
    BY <1>2, <2>1
  <2> QED
    BY <1>1, <2>1, <2>2, QuietPages
<1>4. CASE ~Break
  <2>1. /\ UNCHANGED <<conn, gems_array, gems_eaten, logins, broken>>
        /\ RegistrationReply(s) \/ MovementReply(s) \/ NothingDue(s)
    BY <1>4 DEF response_to_client_cp, net_vars
  <2>2. ~broken
    BY DEF response_to_client_cp
  <2>3. user_json \in [Sessions -> 0 .. clock]
    BY DEF SystemInv, OneLoginInv, TypeInv, TypeOK, PssTypeOK
  <2>4. ASSUME NEW c \in Sessions
        PROVE  user_json'[c] = user_json[c] \/ user_json'[c] # 0
    <3>1. CASE RegistrationReply(s)
      BY <1>0, <2>3, <3>1 DEF RegistrationReply, build_player_json_registrator
    <3>2. CASE MovementReply(s)
      <4>1. user_json' = [user_json EXCEPT ![s] = player_id[s]]
        BY <3>2 DEF MovementReply, build_gems_score_json, build_player_json_movment
      <4> QED
        BY <1>0, <2>3, <4>1
    <3>3. CASE NothingDue(s)
      BY <3>3 DEF NothingDue
    <3> QED
      BY <2>1, <3>1, <3>2, <3>3
  <2>5. ASSUME NEW c \in Sessions
        PROVE  PageOK(c)'
    <3>1. PageOK(c) /\ SamePage(c)
      BY DEF SystemInv, SamePage, page_vars
    <3>2. CASE conn[c] # "open"
      <4>1. inbox'[c] = <<>>
        BY <1>2, <2>1, <3>2
      <4> QED
        BY <2>1, <2>4, <3>1, <4>1, QuietPage
    <3>3. CASE conn[c] = "open" /\ RegistrationReply(s)
      <4>1. RegistrationDue(s) /\ user_json'[s] # 0
        BY <1>0, <2>3, <3>3 DEF RegistrationReply, build_player_json_registrator
      <4>2. VisitSent(s) = RegistrationSent(s)
        BY <4>1 DEF VisitSent, RegistrationDue, MovementDue
      <4>3. inbox'[c] = inbox[c] \o RegistrationSent(s)[c]
        BY <1>2, <2>1, <2>2, <3>3, <4>2
      <4>4. /\ IsSeq(RegistrationSent(s)[c])
            /\ \A i \in 1 .. Len(RegistrationSent(s)[c]) :
                 RegistrationSent(s)[c][i].status = GEM_SCATTER =>
                   RegistrationSent(s)[c][i].gems = gems_array /\ c = s
            /\ \A i \in 1 .. Len(RegistrationSent(s)[c]) :
                 RegistrationSent(s)[c][i].status = LOGIN_ACK =>
                   c = s /\ Scattered(RegistrationSent(s)[c], i)
        BY <1>0, RegistrationNews
      <4> HIDE DEF s
      <4> QED
        BY <2>1, <2>2, <2>4, <3>1, <3>3, <4>1, <4>3, <4>4, SentPage
    <3>4. CASE conn[c] = "open" /\ ~RegistrationReply(s)
      <4>1. PICK out \in {MovementSent(s)[c], LeaveSent(s)[c], Nothing[c]} :
              inbox'[c] = inbox[c] \o out
        <5>1. CASE MovementReply(s)
          <6>1. VisitSent(s) = MovementSent(s)
            BY <5>1 DEF VisitSent, RegistrationDue, MovementDue, MovementReply
          <6> QED
            BY <1>2, <2>1, <2>2, <3>4, <6>1
        <5>2. CASE NothingDue(s)
          <6>1. VisitSent(s) = Nothing
            BY <5>2 DEF VisitSent, NothingDue
          <6> QED
            BY <1>2, <2>1, <2>2, <3>4, <6>1
        <5> QED
          BY <2>1, <3>4, <5>1, <5>2
      <4>2. /\ IsSeq(out)
            /\ \A i \in 1 .. Len(out) : out[i].status \notin {GEM_SCATTER, LOGIN_ACK}
        BY <1>0, <4>1, OtherNews
      <4> QED
        BY <2>1, <2>2, <2>4, <3>1, <3>4, <4>1, <4>2, SentPage
    <3> QED
      BY <3>2, <3>3, <3>4
  <2> QED
    BY <1>1, <2>5
<1> QED
  BY <1>3, <1>4

LEMMA ServerStepPages ==
  ASSUME SystemInv, ServerStep, Lost => Lost'
  PROVE  PageTypes' /\ \A c \in Sessions : PageOK(c)'
<1>1. CASE (game_loop_cb \/ \E s \in Sessions : Established(s) \/ Writeable(s)) /\ Quiet
  <2>1. inbox' = inbox /\ UNCHANGED page_vars
    BY <1>1 DEF Quiet
  <2>2. UNCHANGED <<gems_array, user_json, gems_eaten, logins>> /\ (broken => broken')
    <3>1. CASE game_loop_cb
      BY <3>1 DEF game_loop_cb, pss_vars, client_vars
    <3>2. ASSUME NEW s \in Sessions, Established(s)
          PROVE  UNCHANGED <<gems_array, user_json, gems_eaten, logins>> /\ (broken => broken')
      BY <3>2 DEF Established, client_vars
    <3>3. ASSUME NEW s \in Sessions, Registration(s)
          PROVE  UNCHANGED <<gems_array, user_json, gems_eaten, logins>> /\ (broken => broken')
      BY <3>3 DEF Registration, client_vars
    <3>4. ASSUME NEW s \in Sessions, Movement(s)
          PROVE  UNCHANGED <<gems_array, user_json, gems_eaten, logins>> /\ (broken => broken')
      <4>1. CASE Break
        BY <4>1 DEF Break, pss_vars, client_vars
      <4>2. CASE ~Break
        <5>1. UNCHANGED <<broken, user_json, gems_array, client_vars>>
          BY <3>4, <4>2 DEF Movement
        <5> QED
          BY <5>1 DEF client_vars
      <4> QED
        BY <4>1, <4>2
    <3> QED
      BY <1>1, <3>1, <3>2, <3>3, <3>4 DEF Writeable
  <2>3. conn \in [Sessions -> {"new", "open", "closed"}]
    BY DEF SystemInv, OneLoginInv, TypeInv, TypeOK, NetTypeOK
  <2>4. ASSUME NEW c \in Sessions
        PROVE  conn'[c] = conn[c] \/ (conn[c] = "new" /\ conn'[c] = "open")
    <3>1. CASE conn' = conn
      BY <3>1
    <3>2. CASE \E s \in Sessions : Established(s)
      BY <2>3, <3>2 DEF Established
    <3>3. CASE game_loop_cb \/ \E s \in Sessions : Writeable(s)
      BY <3>1, <3>3 DEF game_loop_cb, Writeable, Registration, Movement, Break, net_vars
    <3> QED
      BY <1>1, <3>2, <3>3
  <2> QED
    BY <2>1, <2>2, <2>4, QuietPages
<1>2. CASE \E k \in visiting :
             /\ response_to_client_cp(k)
             /\ Deliver(VisitSent(users_map_main[k]))
             /\ UNCHANGED page_vars
  BY <1>2, VisitPages
<1> QED
  BY <1>1, <1>2 DEF ServerStep, LoopTick, WriteableStep

\* The gems are built again when no player is left in the map, and none was lost
\* either: no page that is still there has heard of the old ones.
LEMMA NobodyHasGems ==
  ASSUME OneLoginInv', NobodyIn(users_map_main)', NEW c \in Sessions, conn'[c] = "open"
  PROVE  user_json'[c] = 0
<1>1. player_id'[c] = 0
  BY DEF OneLoginInv, ReachInv, RegisteredReachable, Registered, NobodyIn, EmptyMap
<1> QED
  BY <1>1 DEF OneLoginInv, LoginInv, LoginOK

LEMMA NobodyIsLost ==
  ASSUME LostInv', NobodyIn(users_map_main)'
  PROVE  ~Lost'
BY DEF LostInv, Lost, NobodyIn, EmptyMap

LEMMA UnheardPage ==
  ASSUME NEW c \in Sessions, PageOK(c), SamePage(c), UNCHANGED user_json, user_json[c] = 0,
         ~Heard(c), logins'[c] = logins[c],
         NEW out, IsSeq(out), inbox'[c] = inbox[c] \o out, ~broken,
         \A i \in 1 .. Len(out) : out[i].status \notin {GEM_SCATTER, LOGIN_ACK},
         conn'[c] = conn[c], conn[c] = "open", gems_eaten'[c] = gems_eaten[c]
  PROVE  PageOK(c)'
<1> DEFINE q == inbox[c]
           both == q \o out
<1>1. InboxOK(c, q)
  BY DEF PageOK
<1>2. \A i \in 1 .. Len(q) : q[i].status \notin {GEM_SCATTER, LOGIN_ACK}
  BY <1>1 DEF InboxOK
<1>3. /\ IsSeq(both) /\ Len(q) \in Nat /\ Len(out) \in Nat
      /\ Len(both) = Len(q) + Len(out)
      /\ \A i \in 1 .. Len(q) + Len(out) :
           both[i] = IF i <= Len(q) THEN q[i] ELSE out[i - Len(q)]
  BY <1>1, ConcatIsSeq DEF InboxOK
<1> HIDE DEF both
<1>4. ASSUME NEW i \in 1 .. Len(both)
      PROVE  both[i].status \notin {GEM_SCATTER, LOGIN_ACK}
  <2>1. CASE i <= Len(q)
    <3>1. i \in 1 .. Len(q) /\ both[i] = q[i]
      BY <1>3, <2>1
    <3> QED
      BY <1>2, <3>1
  <2>2. CASE ~(i <= Len(q))
    <3>1. i - Len(q) \in 1 .. Len(out) /\ both[i] = out[i - Len(q)]
      BY <1>3, <2>2
    <3> QED
      BY <3>1
  <2> QED
    BY <2>1, <2>2
<1>5. inbox'[c] = both
  BY DEF both
<1>6. InboxOK(c, inbox[c])'
  BY <1>3, <1>4, <1>5 DEF InboxOK
<1> QED
  BY <1>6 DEF PageOK, SamePage, Heard

LEMMA ClosesPages ==
  ASSUME SystemInv, OneLoginInv', LostInv', Lost => Lost', NEW s \in Sessions, Closes(s)
  PROVE  PageTypes' /\ \A c \in Sessions : PageOK(c)'
<1>1. /\ DOMAIN inbox' = Sessions
      /\ \A c \in Sessions : inbox'[c] =
           IF conn'[c] = "open" /\ ~broken' THEN inbox[c] \o LeaveSent(s)[c] ELSE <<>>
  BY DeliverTypes DEF Closes
<1>2. Page!Gone(s) /\ PageTypes
  BY DEF Closes, SystemInv
<1>3. PageTypes'
  BY <1>1, <1>2 DEF PageTypes, Page!Gone
<1>4. \A c \in Sessions \ {s} : SamePage(c)
  BY <1>2, GoneSame
<1>5. UNCHANGED <<user_json, gems_eaten, logins>>
  BY DEF Closes, PeerInitiatedClose, Break, pss_vars, client_vars
<1>6. conn \in [Sessions -> {"new", "open", "closed"}]
  BY DEF SystemInv, OneLoginInv, TypeInv, TypeOK, NetTypeOK
<1>7. CASE Break
  <2>1. broken' /\ UNCHANGED <<conn, gems_array>>
    BY <1>7 DEF Break, net_vars
  <2>2. \A c \in Sessions : inbox'[c] = <<>>
    BY <1>1, <2>1
  <2>3. PageOK(s)'
    BY <1>2, <2>1, <2>2, GonePage
  <2>4. \A c \in Sessions \ {s} : PageOK(c)'
    BY <1>4, <1>5, <2>1, <2>2, QuietPage DEF SystemInv
  <2> QED
    BY <1>3, <2>3, <2>4
<1>8. CASE ~Break
  <2>1. conn' = [conn EXCEPT ![s] = "closed"] /\ UNCHANGED broken /\ ~broken
    BY <1>8 DEF Closes, PeerInitiatedClose, Idle
  <2>2. UNCHANGED gems_array \/ NobodyIn(users_map_main)'
    BY <1>8 DEF Closes, PeerInitiatedClose, NobodyIn
  <2>3. PageOK(s)'
    <3>1. conn'[s] = "closed" /\ inbox'[s] = <<>>
      BY <1>1, <1>6, <2>1
    <3> QED
      BY <1>2, <3>1, GonePage
  <2>4. ASSUME NEW c \in Sessions \ {s}
        PROVE  PageOK(c)'
    <3>1. PageOK(c) /\ SamePage(c) /\ conn'[c] = conn[c]
      BY <1>4, <2>1 DEF SystemInv
    <3>2. CASE conn[c] # "open"
      <4>1. inbox'[c] = <<>>
        BY <1>1, <3>1, <3>2
      <4>2. CASE UNCHANGED gems_array
        BY <1>5, <2>1, <3>1, <4>1, <4>2, QuietPage
      <4>3. CASE NobodyIn(users_map_main)'
        <5>1. ~Heard(c)
          BY <3>1, <3>2, <4>3, NobodyIsLost DEF PageOK
        <5> QED
          BY <1>5, <2>1, <3>1, <3>2, <4>1, <5>1, EmptyIsSeq
             DEF PageOK, SamePage, InboxOK, Heard
      <4> QED
        BY <2>2, <4>2, <4>3
    <3>3. CASE conn[c] = "open"
      <4>1. LeaveSent(s)[c] \in {MovementSent(s)[c], LeaveSent(s)[c], Nothing[c]}
        OBVIOUS
      <4>2. /\ IsSeq(LeaveSent(s)[c])
            /\ \A i \in 1 .. Len(LeaveSent(s)[c]) :
                 LeaveSent(s)[c][i].status \notin {GEM_SCATTER, LOGIN_ACK}
        BY <4>1, OtherNews
      <4>3. inbox'[c] = inbox[c] \o LeaveSent(s)[c]
        BY <1>1, <2>1, <3>1, <3>3
      <4>4. CASE UNCHANGED gems_array
        BY <1>5, <2>1, <3>1, <3>3, <4>2, <4>3, <4>4, SentPage
      <4>5. CASE NobodyIn(users_map_main)'
        <5>1. user_json[c] = 0
          BY <1>5, <3>1, <3>3, <4>5, NobodyHasGems
        <5>2. ~Heard(c)
          BY <3>1, <4>5, <5>1, NobodyIsLost DEF PageOK
        <5> QED
          BY <1>5, <2>1, <3>1, <3>3, <4>2, <4>3, <5>1, <5>2, UnheardPage
      <4> QED
        BY <2>2, <4>4, <4>5
    <3> QED
      BY <3>2, <3>3
  <2> QED
    BY <1>3, <2>3, <2>4
<1> QED
  BY <1>7, <1>8

\* A page that loses its connection after its registration has lost a player.
LEMMA LosesPages ==
  ASSUME SystemInv, Lost => Lost', NEW s \in Sessions, Loses(s)
  PROVE  PageTypes' /\ \A c \in Sessions : PageOK(c)'
<1>1. /\ conn[s] = "open" /\ conn' = [conn EXCEPT ![s] = "closed"] /\ ~broken
      /\ UNCHANGED <<broken, status, user_json, gems_array, gems_eaten, logins>>
  BY DEF Loses, ConnectionLost, Idle, pss_vars, client_vars
<1>2. /\ DOMAIN inbox' = Sessions
      /\ \A c \in Sessions : inbox'[c] =
           IF conn'[c] = "open" /\ ~broken' THEN inbox[c] \o Nothing[c] ELSE <<>>
  BY DeliverTypes DEF Loses
<1>3. PageTypes' /\ \A c \in Sessions : PageOK(c) /\ SamePage(c)
  BY <1>2 DEF Loses, SystemInv, PageTypes, SamePage, page_vars
<1>4. conn \in [Sessions -> {"new", "open", "closed"}]
  BY DEF SystemInv, OneLoginInv, TypeInv, TypeOK, NetTypeOK
<1>5. PageOK(s)'
  <2>1. conn'[s] = "closed" /\ inbox'[s] = <<>>
    BY <1>1, <1>2, <1>4
  <2>2. Heard(s) => Lost'
    <3>1. user_json[s] # 0 => LostInGame(s)'
      BY <1>1, <2>1 DEF SystemInv, LostInv, LostInGame
    <3> QED
      BY <1>3, <3>1 DEF PageOK, Lost
  <2> QED
    BY <1>1, <1>3, <2>1, <2>2, QuietPage
<1>6. ASSUME NEW c \in Sessions \ {s}
      PROVE  PageOK(c)'
  <2>1. conn'[c] = conn[c]
    BY <1>1
  <2>2. CASE conn[c] # "open"
    BY <1>1, <1>2, <1>3, <2>1, <2>2, QuietPage
  <2>3. CASE conn[c] = "open"
    <3>1. /\ IsSeq(Nothing[c])
          /\ \A i \in 1 .. Len(Nothing[c]) :
               Nothing[c][i].status \notin {GEM_SCATTER, LOGIN_ACK}
      <4>1. Nothing[c] \in {MovementSent(s)[c], LeaveSent(s)[c], Nothing[c]}
        OBVIOUS
      <4> QED
        BY <4>1, OtherNews
    <3>2. inbox'[c] = inbox[c] \o Nothing[c]
      BY <1>1, <1>2, <2>1, <2>3
    <3> QED
      BY <1>1, <1>3, <2>1, <2>3, <3>1, <3>2, SentPage
  <2> QED
    BY <2>2, <2>3
<1> QED
  BY <1>3, <1>5, <1>6

-----------------------------------------------------------------------------
(***************************************************************************)
(* The steps of a page.                                                    *)
(***************************************************************************)

\* A response that is taken leaves the rest in order; the gems are kept.
LEMMA TakenInbox ==
  ASSUME NEW s \in Sessions, PageOK(s), inbox[s] # <<>>, inbox'[s] = Tail(inbox[s]),
         UNCHANGED <<gems_array, user_json>>, m_GameLayer[s] => m_GameLayer'[s],
         \/ msgProtocolGems'[s] = msgProtocolGems[s] /\ Head(inbox[s]).status # GEM_SCATTER
         \/ msgProtocolGems'[s] = gems_array
  PROVE  InboxOK(s, inbox[s])'
<1> DEFINE q == inbox[s]
           r == Tail(q)
<1>1. InboxOK(s, q)
  BY DEF PageOK
<1>2. /\ IsSeq(r) /\ Head(q) = q[1] /\ Len(q) \in Nat /\ Len(q) >= 1
      /\ Len(r) = Len(q) - 1
      /\ \A i \in 1 .. Len(q) - 1 : r[i] = q[i + 1]
  BY <1>1, TailIsSeq DEF InboxOK
<1>3. inbox'[s] = r /\ gems_array' = gems_array /\ user_json'[s] = user_json[s]
  OBVIOUS
<1> HIDE DEF r
<1>4. ASSUME NEW i \in 1 .. Len(r)
      PROVE  i + 1 \in 1 .. Len(q) /\ r[i] = q[i + 1]
  BY <1>2
<1>5. ASSUME NEW i \in 1 .. Len(r), r[i].status = GEM_SCATTER
      PROVE  r[i].gems = gems_array /\ user_json[s] # 0
  BY <1>1, <1>4, <1>5 DEF InboxOK
<1>6. ASSUME NEW i \in 1 .. Len(r), r[i].status = LOGIN_ACK
      PROVE  /\ user_json[s] # 0
             /\ \/ m_GameLayer'[s] \/ msgProtocolGems'[s] = gems_array
                \/ Scattered(r, i)
  <2>1. /\ user_json[s] # 0
        /\ m_GameLayer[s] \/ msgProtocolGems[s] = gems_array \/ Scattered(q, i + 1)
    BY <1>1, <1>4, <1>6 DEF InboxOK
  <2>2. CASE m_GameLayer[s]
    BY <2>1, <2>2
  <2>3. CASE msgProtocolGems[s] = gems_array
    BY <2>1, <2>3
  <2>4. CASE Scattered(q, i + 1)
    <3>1. PICK j \in 1 .. (i + 1) - 1 : q[j].status = GEM_SCATTER
      BY <2>4 DEF Scattered
    <3>2. CASE j = 1
      BY <1>2, <2>1, <3>1, <3>2
    <3>3. CASE j # 1
      <4>1. /\ j - 1 \in 1 .. i - 1 /\ j - 1 \in 1 .. Len(q) - 1
            /\ (j - 1) + 1 = j
        BY <1>2, <3>1, <3>3
      <4>2. r[j - 1].status = GEM_SCATTER
        BY <1>2, <3>1, <4>1
      <4> QED
        BY <2>1, <4>1, <4>2 DEF Scattered
    <3> QED
      BY <3>2, <3>3
  <2> QED
    BY <2>1, <2>2, <2>3, <2>4
<1> QED
  BY <1>2, <1>3, <1>5, <1>6 DEF InboxOK, Scattered

\* What a response does to the page that takes it: nothing to the gems, but for
\* the two responses of the registration.
Taken(s) ==
  /\ inbox[s] # <<>> /\ inbox' = [inbox EXCEPT ![s] = Tail(@)]
  /\ \/ /\ Head(inbox[s]).status = GEM_SCATTER
        /\ msgProtocolGems' = [msgProtocolGems EXCEPT ![s] = Head(inbox[s]).gems]
        /\ UNCHANGED <<m_GameLayer, gems>>
     \/ /\ Head(inbox[s]).status = LOGIN_ACK /\ ~m_GameLayer[s]
        /\ m_GameLayer' = [m_GameLayer EXCEPT ![s] = TRUE]
        /\ gems' = [gems EXCEPT ![s] = @ \o msgProtocolGems[s]]
        /\ UNCHANGED msgProtocolGems
     \/ /\ Head(inbox[s]).status # GEM_SCATTER
        /\ UNCHANGED <<m_GameLayer, gems, msgProtocolGems>>

LEMMA ResponseTaken ==
  ASSUME NEW s \in Sessions, Page!handleServerResponse(s)
  PROVE  Taken(s)
<1> USE DEF Page!Receives, Page!LayerReceives, Page!Response, Page!LOGIN_ACK, Page!MOVE_ACK,
            Page!OTHER_LOGIN, Page!OTHER_MOVE, Page!LEFT, Page!GEM_SCATTER
<1>1. CASE Page!TakeGems(s)
  BY <1>1 DEF Page!TakeGems, Taken
<1>2. CASE Page!switchToGame(s)
  <2>1. CASE m_GameLayer[s]
    BY <1>2, <2>1 DEF Page!switchToGame, Taken
  <2>2. CASE ~m_GameLayer[s]
    BY <1>2, <2>2 DEF Page!switchToGame, Taken
  <2> QED
    BY <2>1, <2>2
<1>3. CASE Page!NoLayerYet(s)
  <2>1. PICK m \in {MOVE_ACK, OTHER_LOGIN, OTHER_MOVE, LEFT} : Page!Receives(s, m)
    BY <1>3 DEF Page!NoLayerYet
  <2>2. UNCHANGED <<m_GameLayer, gems, msgProtocolGems>>
    BY <1>3 DEF Page!NoLayerYet, Page!page_vars
  <2>3. /\ inbox[s] # <<>> /\ inbox' = [inbox EXCEPT ![s] = Tail(@)]
        /\ Head(inbox[s]).status = m
    BY <2>1
  <2>4. m # GEM_SCATTER
    BY <2>1
  <2> QED
    BY <2>2, <2>3, <2>4 DEF Taken
<1>4. CASE Page!syncPlayerActions(s)
  <2>1. Page!LayerReceives(s, MOVE_ACK) /\ UNCHANGED <<m_GameLayer, msgProtocolGems, gems>>
    BY <1>4 DEF Page!syncPlayerActions
  <2> QED
    BY <2>1 DEF Taken
<1>5. CASE Page!AddOtherPlayerOnRegister(s)
  <2>1. Page!LayerReceives(s, OTHER_LOGIN) /\ UNCHANGED <<m_GameLayer, msgProtocolGems, gems>>
    BY <1>5 DEF Page!AddOtherPlayerOnRegister
  <2> QED
    BY <2>1 DEF Taken
<1>6. CASE Page!updateOtherPlayerOnMovment(s)
  <2>1. Page!LayerReceives(s, OTHER_MOVE) /\ UNCHANGED <<m_GameLayer, msgProtocolGems, gems>>
    BY <1>6 DEF Page!updateOtherPlayerOnMovment
  <2> QED
    BY <2>1 DEF Taken
<1>7. CASE Page!deletePlayer(s)
  <2>1. Page!LayerReceives(s, LEFT) /\ UNCHANGED <<m_GameLayer, msgProtocolGems, gems>>
    BY <1>7 DEF Page!deletePlayer
  <2> QED
    BY <2>1 DEF Taken
<1> QED
  BY <1>1, <1>2, <1>3, <1>4, <1>5, <1>6, <1>7 DEF Page!handleServerResponse

LEMMA TakenPage ==
  ASSUME SystemInv, NEW s \in Sessions, conn[s] = "open", Taken(s), UNCHANGED vars
  PROVE  PageOK(s)'
<1>1. PageTypes /\ PageOK(s) /\ inbox[s] # <<>> /\ inbox'[s] = Tail(inbox[s])
  BY DEF SystemInv, PageTypes, Taken
<1>2. UNCHANGED <<conn, broken, status, gems_array, user_json, gems_eaten, logins>>
  BY DEF vars, net_vars, pss_vars, client_vars
<1>3. Lost => Lost'
  BY <1>2 DEF Lost, LostInGame
<1>4. 1 \in 1 .. Len(inbox[s]) /\ Head(inbox[s]) = inbox[s][1]
  BY <1>1, TailIsSeq DEF PageOK, InboxOK
<1>5. CASE /\ Head(inbox[s]).status = GEM_SCATTER
           /\ msgProtocolGems'[s] = Head(inbox[s]).gems
           /\ m_GameLayer'[s] = m_GameLayer[s] /\ gems'[s] = gems[s]
  <2>1. msgProtocolGems'[s] = gems_array /\ user_json[s] # 0
    BY <1>1, <1>4, <1>5 DEF PageOK, InboxOK
  <2>2. InboxOK(s, inbox[s])'
    BY <1>1, <1>2, <1>5, <2>1, TakenInbox
  <2> QED
    BY <1>1, <1>2, <1>3, <1>5, <2>1, <2>2 DEF PageOK, Heard
<1>6. CASE /\ Head(inbox[s]).status = LOGIN_ACK /\ ~m_GameLayer[s]
           /\ m_GameLayer'[s] /\ gems'[s] = gems[s] \o msgProtocolGems[s]
           /\ msgProtocolGems'[s] = msgProtocolGems[s]
  <2>1. ~Scattered(inbox[s], 1)
    BY DEF Scattered
  <2>2. msgProtocolGems[s] = gems_array /\ user_json[s] # 0
    BY <1>1, <1>4, <1>6, <2>1 DEF PageOK, InboxOK
  <2>3. gems[s] = <<>> /\ gems_eaten[s] = 0
    BY <1>1, <1>6 DEF PageOK
  <2>4. gems_array \in Seq(GemPos)
    BY DEF SystemInv, OneLoginInv, TypeInv, TypeOK, GameTypeOK
  <2>5. gems'[s] = gems_array
    BY <1>6, <2>2, <2>3, <2>4
  <2>6. InboxOK(s, inbox[s])'
    BY <1>1, <1>2, <1>6, TakenInbox
  <2> QED
    BY <1>1, <1>2, <1>3, <1>6, <2>2, <2>3, <2>5, <2>6 DEF PageOK, Heard
<1>7. CASE /\ Head(inbox[s]).status # GEM_SCATTER
           /\ m_GameLayer'[s] = m_GameLayer[s] /\ gems'[s] = gems[s]
           /\ msgProtocolGems'[s] = msgProtocolGems[s]
  <2>1. InboxOK(s, inbox[s])'
    BY <1>1, <1>2, <1>7, TakenInbox
  <2> QED
    BY <1>1, <1>2, <1>3, <1>7, <2>1 DEF PageOK, Heard
<1>8. \/ /\ Head(inbox[s]).status = GEM_SCATTER
         /\ msgProtocolGems'[s] = Head(inbox[s]).gems
         /\ m_GameLayer'[s] = m_GameLayer[s] /\ gems'[s] = gems[s]
      \/ /\ Head(inbox[s]).status = LOGIN_ACK /\ ~m_GameLayer[s]
         /\ m_GameLayer'[s] /\ gems'[s] = gems[s] \o msgProtocolGems[s]
         /\ msgProtocolGems'[s] = msgProtocolGems[s]
      \/ /\ Head(inbox[s]).status # GEM_SCATTER
         /\ m_GameLayer'[s] = m_GameLayer[s] /\ gems'[s] = gems[s]
         /\ msgProtocolGems'[s] = msgProtocolGems[s]
  BY <1>1 DEF Taken, PageTypes
<1> QED
  BY <1>5, <1>6, <1>7, <1>8

\* What the pages' steps that nobody else sees leave as it is.
LEMMA VarsSame ==
  ASSUME UNCHANGED vars
  PROVE  /\ UNCHANGED <<conn, broken, gems_array, user_json, gems_eaten, logins>>
         /\ Lost => Lost'
<1>1. UNCHANGED <<conn, broken, status, gems_array, user_json, gems_eaten, logins>>
  BY DEF vars, net_vars, pss_vars, client_vars
<1> QED
  BY <1>1 DEF Lost, LostInGame

LEMMA TakesPages ==
  ASSUME SystemInv, NEW s \in Sessions, Takes(s)
  PROVE  PageTypes' /\ \A c \in Sessions : PageOK(c)'
<1>1. Taken(s) /\ conn[s] = "open" /\ UNCHANGED vars
  BY ResponseTaken DEF Takes
<1>2. UNCHANGED <<conn, broken, gems_array, user_json, gems_eaten, logins>> /\ (Lost => Lost')
  BY <1>1, VarsSame
<1>3. PageTypes'
  BY <1>1 DEF SystemInv, PageTypes, Taken
<1>4. ASSUME NEW c \in Sessions \ {s}
      PROVE  PageOK(c)'
  <2>1. SamePage(c) /\ inbox'[c] = inbox[c]
    BY <1>1 DEF SystemInv, PageTypes, Taken, SamePage
  <2> QED
    BY <1>2, <2>1, QuietPage DEF SystemInv
<1> QED
  BY <1>1, <1>3, <1>4, TakenPage

LEMMA DrawsPages ==
  ASSUME SystemInv, NEW s \in Sessions, Draws(s)
  PROVE  PageTypes' /\ \A c \in Sessions : PageOK(c)'
<1>1. UNCHANGED <<inbox, m_GameLayer, msgProtocolGems, gems>> /\ UNCHANGED vars
  BY DEF Draws, Page!IdleFrame
<1>2. UNCHANGED <<conn, broken, gems_array, user_json, gems_eaten, logins>> /\ (Lost => Lost')
  BY <1>1, VarsSame
<1>3. PageTypes'
  BY <1>1 DEF SystemInv, PageTypes
<1>4. \A c \in Sessions : SamePage(c)
  BY <1>1 DEF SamePage
<1> QED
  BY <1>1, <1>2, <1>3, <1>4, QuietPage DEF SystemInv

LEMMA LogsInPages ==
  ASSUME SystemInv, Lost => Lost', NEW s \in Sessions, LogsIn(s)
  PROVE  PageTypes' /\ \A c \in Sessions : PageOK(c)'
<1>1. inbox' = inbox /\ UNCHANGED page_vars
  BY DEF LogsIn, Quiet
<1>2. UNCHANGED <<broken, conn, gems_array, user_json, gems_eaten>>
  BY DEF LogsIn, SendLogin, Receive, pss_vars
<1>3. \A c \in Sessions : logins'[c] = logins[c] \/ ~m_GameLayer[c]
  <2>1. logins \in [Sessions -> Nat]
    BY DEF SystemInv, OneLoginInv, TypeInv, TypeOK, ClientTypeOK
  <2> QED
    BY <2>1 DEF LogsIn, SendLogin
<1> QED
  BY <1>1, <1>2, <1>3, QuietPages

\* A frame in which the player moves; it runs into the gem it was sent at most
\* once.
LEMMA FramePages ==
  ASSUME SystemInv, NEW s \in Sessions, NEW hit \in BOOLEAN, Page!MovingFrame(s, hit)
  PROVE  /\ PageTypes' /\ m_GameLayer[s]
         /\ \A c \in Sessions :
              /\ inbox'[c] = inbox[c] /\ m_GameLayer'[c] = m_GameLayer[c]
              /\ msgProtocolGems'[c] = msgProtocolGems[c]
         /\ \A c \in Sessions \ {s} : SamePage(c)
         /\ hit => gems[s] = gems_array /\ gems_eaten[s] = 0 /\ gems'[s] = <<>>
         /\ ~hit => SamePage(s)
<1>1. /\ m_GameLayer[s] /\ UNCHANGED <<inbox, m_GameLayer, msgProtocolGems>>
      /\ hit => gems[s] # <<>> /\ gems' = [gems EXCEPT ![s] = Tail(@)]
      /\ ~hit => UNCHANGED gems
  BY DEF Page!MovingFrame, Page!Collided
<1>2. PageTypes /\ PageOK(s)
  BY DEF SystemInv
<1>3. PageTypes'
  BY <1>1, <1>2 DEF PageTypes
<1>4. \A c \in Sessions \ {s} : SamePage(c)
  BY <1>1, <1>2 DEF SamePage, PageTypes
<1>5. CASE hit
  <2>1. gems[s] = gems_array /\ gems_eaten[s] = 0 /\ gems'[s] = Tail(gems_array)
    BY <1>1, <1>2, <1>5 DEF PageOK, PageTypes
  <2>2. Tail(gems_array) = <<>>
    <3>1. gems_array \in Seq(GemPos) /\ Len(gems_array) = 1
      BY DEF SystemInv, OneLoginInv, LostInv, TypeInv, TypeOK, GameTypeOK
    <3>2. Tail(gems_array) \in Seq(GemPos) /\ Len(Tail(gems_array)) = 0
      BY <3>1, HeadTailProperties
    <3> QED
      BY <3>2, EmptySeq
  <2> QED
    BY <1>1, <1>3, <1>4, <1>5, <2>1, <2>2
<1>6. CASE ~hit
  BY <1>1, <1>3, <1>4, <1>6 DEF SamePage
<1> QED
  BY <1>5, <1>6

\* A page in the game is of a player that has its registration, or has come from
\* a connection that was lost; it has the gem if it has not yet run into it: it
\* moves as GameServer lets clients do.
LEMMA MovesPages ==
  ASSUME SystemInv, NEW s \in Sessions, NEW hit \in BOOLEAN, Moves(s, hit)
  PROVE  SendMove(s, hit) /\ PageTypes' /\ \A c \in Sessions : PageOK(c)'
<1>1. /\ moves[s] < MaxMoves /\ burst[s] < Burst /\ Page!MovingFrame(s, hit)
      /\ moves' = [moves EXCEPT ![s] = @ + 1] /\ burst' = [burst EXCEPT ![s] = @ + 1]
      /\ UNCHANGED logins
  BY DEF Moves
<1>2. /\ PageTypes' /\ m_GameLayer[s]
      /\ \A c \in Sessions :
           /\ inbox'[c] = inbox[c] /\ m_GameLayer'[c] = m_GameLayer[c]
           /\ msgProtocolGems'[c] = msgProtocolGems[c]
      /\ \A c \in Sessions \ {s} : SamePage(c)
      /\ hit => gems[s] = gems_array /\ gems_eaten[s] = 0 /\ gems'[s] = <<>>
      /\ ~hit => SamePage(s)
  BY <1>1, FramePages
<1>3. PageOK(s) /\ conn[s] = "open"
  BY DEF SystemInv, Moves, Receive
<1>4. Playing(s)
  BY <1>2, <1>3 DEF PageOK, Heard, Playing, Lost
<1>5. /\ gems_array \in Seq(GemPos) /\ Len(gems_array) = 1
      /\ gems_eaten \in [Sessions -> Nat]
  BY DEF SystemInv, OneLoginInv, LostInv, TypeInv, TypeOK, GameTypeOK, ClientTypeOK
<1>6. UNCHANGED <<broken, conn, status, gems_array, user_json, logins>>
  BY DEF Moves, Receive, pss_vars
<1>7. Lost => Lost'
  BY <1>6 DEF Lost, LostInGame
<1>8. ASSUME NEW c \in Sessions \ {s}
      PROVE  PageOK(c)'
  <2>1. gems_eaten'[c] = gems_eaten[c]
    BY <1>5 DEF Moves
  <2> QED
    BY <1>2, <1>6, <1>7, <2>1, QuietPage DEF SystemInv
<1>9. CASE hit
  <2>1. /\ Receive(s, MoveRequest(moves[s] + 1, GEM_EAT, <<Head(gems[s])>>, gems_eaten[s] + 1))
        /\ gems_eaten' = [gems_eaten EXCEPT ![s] = gems_eaten[s] + 1]
    BY <1>9 DEF Moves
  <2>2. gems_eaten[s] < Len(gems_array) /\ Head(gems[s]) = gems_array[gems_eaten[s] + 1]
    BY <1>2, <1>5, <1>9
  <2>3. SendMove(s, hit)
    BY <1>1, <1>4, <1>9, <2>1, <2>2 DEF SendMove
  <2>4. PageOK(s)'
    BY <1>2, <1>3, <1>6, <1>7, <1>9 DEF PageOK, InboxOK, Scattered, Heard
  <2> QED
    BY <1>2, <1>8, <2>3, <2>4
<1>10. CASE ~hit
  <2>1. Receive(s, MoveRequest(moves[s] + 1, 0, <<>>, 0)) /\ UNCHANGED gems_eaten
    BY <1>10 DEF Moves
  <2>2. SendMove(s, hit)
    BY <1>1, <1>4, <1>10, <2>1 DEF SendMove
  <2>3. PageOK(s)'
    BY <1>2, <1>3, <1>6, <1>7, <1>10, <2>1, QuietPage
  <2> QED
    BY <1>2, <1>8, <2>2, <2>3
<1> QED
  BY <1>9, <1>10

\* A page without a connection goes on drawing its frames.
LEMMA RedialsPages ==
  ASSUME SystemInv, NEW s \in Sessions, Redials(s)
  PROVE  PageTypes' /\ \A c \in Sessions : PageOK(c)'
<1>1. conn[s] = "closed" /\ UNCHANGED vars
  BY DEF Redials
<1>2. UNCHANGED <<conn, broken, gems_array, user_json, gems_eaten, logins>> /\ (Lost => Lost')
  BY <1>1, VarsSame
<1>3. CASE inbox' = inbox /\ UNCHANGED page_vars
  BY <1>2, <1>3, QuietPages
<1>4. ASSUME NEW hit \in BOOLEAN, Page!MovingFrame(s, hit)
      PROVE  PageTypes' /\ \A c \in Sessions : PageOK(c)'
  <2>1. /\ PageTypes' /\ m_GameLayer[s]
        /\ \A c \in Sessions :
             /\ inbox'[c] = inbox[c] /\ m_GameLayer'[c] = m_GameLayer[c]
             /\ msgProtocolGems'[c] = msgProtocolGems[c]
        /\ \A c \in Sessions \ {s} : SamePage(c)
        /\ hit => gems[s] = gems_array /\ gems_eaten[s] = 0 /\ gems'[s] = <<>>
        /\ ~hit => SamePage(s)
    BY <1>4, FramePages
  <2>2. \A c \in Sessions \ {s} : PageOK(c)'
    BY <1>2, <2>1, QuietPage DEF SystemInv
  <2>3. CASE hit
    <3>1. PageOK(s) /\ inbox'[s] = inbox[s] /\ gems'[s] = <<>>
      BY <2>1, <2>3 DEF SystemInv
    <3>2. PageOK(s)'
      BY <1>1, <1>2, <2>1, <3>1 DEF PageOK, InboxOK, Scattered, Heard
    <3> QED
      BY <2>1, <2>2, <3>2
  <2>4. CASE ~hit
    BY <1>2, <2>1, <2>2, <2>4, QuietPage DEF SystemInv
  <2> QED
    BY <2>3, <2>4
<1>5. \/ inbox' = inbox /\ UNCHANGED page_vars
      \/ \E hit \in BOOLEAN : Page!MovingFrame(s, hit)
  BY DEF Redials, Page!Drops, Page!page_vars, page_vars
<1> QED
  BY <1>3, <1>4, <1>5

\* A page that goes on over a new connection takes along what it has.
LEMMA ReconnectsPages ==
  ASSUME SystemInv, Lost => Lost', NEW s \in Sessions, NEW t \in Sessions, Reconnects(s, t)
  PROVE  PageTypes' /\ \A c \in Sessions : PageOK(c)'
<1>1. /\ conn[s] = "closed" /\ conn[t] = "new" /\ conn' = [conn EXCEPT ![t] = "open"] /\ ~broken
      /\ UNCHANGED <<broken, user_json, gems_array, gems_eaten, logins, inbox>>
  BY DEF Reconnects, Established, Idle, client_vars, Page!Reopens
<1>2. conn \in [Sessions -> {"new", "open", "closed"}]
  BY DEF SystemInv, OneLoginInv, TypeInv, TypeOK, NetTypeOK
<1>3. PageTypes /\ \A c \in Sessions : PageOK(c)
  BY DEF SystemInv
<1>4. /\ m_GameLayer' = [m_GameLayer EXCEPT ![t] = m_GameLayer[s], ![s] = FALSE]
      /\ msgProtocolGems' = [msgProtocolGems EXCEPT ![t] = msgProtocolGems[s], ![s] = <<>>]
      /\ gems' = [gems EXCEPT ![t] = gems[s], ![s] = <<>>]
  BY DEF Reconnects, Page!Reopens
<1>5. PageTypes'
  BY <1>1, <1>3, <1>4 DEF PageTypes
<1>6. ASSUME NEW c \in Sessions \ {s, t}
      PROVE  PageOK(c)'
  <2>1. m_GameLayer'[c] = m_GameLayer[c] /\ conn'[c] = conn[c]
    BY <1>1, <1>2, <1>3, <1>4 DEF PageTypes
  <2>2. msgProtocolGems'[c] = msgProtocolGems[c]
    BY <1>3, <1>4 DEF PageTypes
  <2>3. gems'[c] = gems[c]
    BY <1>3, <1>4 DEF PageTypes
  <2> QED
    BY <1>1, <1>3, <2>1, <2>2, <2>3, QuietPage DEF SamePage
<1>7. inbox[s] = <<>> /\ inbox[t] = <<>>
  BY <1>1, <1>3 DEF PageOK
<1>8. PageOK(s)'
  <2>1. ~m_GameLayer'[s] /\ msgProtocolGems'[s] = <<>> /\ gems'[s] = <<>>
    BY <1>3, <1>4 DEF PageTypes
  <2>2. conn'[s] = "closed"
    BY <1>1
  <2> QED
    BY <1>1, <1>7, <2>1, <2>2, EmptyIsSeq DEF PageOK, InboxOK, Heard
<1>9. PageOK(t)'
  <2>1. /\ m_GameLayer'[t] = m_GameLayer[s] /\ msgProtocolGems'[t] = msgProtocolGems[s]
        /\ gems'[t] = gems[s] /\ conn'[t] = "open"
    BY <1>1, <1>2, <1>3, <1>4 DEF PageTypes
  <2>2. gems_eaten[t] = 0 /\ logins[t] = 0
    BY <1>1, <1>3 DEF PageOK, Heard, SystemInv, LostInv
  <2>3. Heard(s) => Lost'
    BY <1>1, <1>3 DEF PageOK
  <2>4. /\ msgProtocolGems[s] \in {<<>>, gems_array}
        /\ gems[s] = <<>> \/ (gems[s] = gems_array /\ m_GameLayer[s])
    BY <1>3 DEF PageOK
  <2>5. InboxOK(t, inbox[t])'
    BY <1>1, <1>7, EmptyIsSeq DEF InboxOK
  <2> QED
    BY <1>1, <1>7, <2>1, <2>2, <2>3, <2>4, <2>5 DEF PageOK, Heard
<1> QED
  BY <1>5, <1>6, <1>8, <1>9

-----------------------------------------------------------------------------
(***************************************************************************)
(* The theorems.                                                           *)
(***************************************************************************)

\* A step of the game is one of the server and its clients, or none for them.
LEMMA NextSystem ==
  ASSUME OneLogin
  PROVE  SystemInv /\ [SystemNext]_system_vars => [Next]_vars /\ SystemInv'
<1> SUFFICES ASSUME SystemInv, [SystemNext]_system_vars
             PROVE  [Next]_vars /\ SystemInv'
  OBVIOUS
<1> USE DEF Next, Tick, Client
<1>1. ASSUME [Next]_vars PROVE OneLoginInv' /\ LostInv' /\ (Lost => Lost')
  BY <1>1, NextOneLogin, NextLost DEF SystemInv
<1>2. CASE UNCHANGED system_vars
  <2>1. UNCHANGED vars /\ inbox' = inbox /\ UNCHANGED page_vars
    BY <1>2 DEF system_vars
  <2>2. UNCHANGED <<conn, broken, gems_array, user_json, gems_eaten, logins>> /\ (Lost => Lost')
    BY <2>1, VarsSame
  <2>3. PageTypes' /\ \A c \in Sessions : PageOK(c)'
    BY <2>1, <2>2, QuietPages
  <2> QED
    BY <1>1, <2>1, <2>3 DEF SystemInv
<1>3. CASE ServerStep
  <2>1. Next
    BY <1>3 DEF ServerStep, LoopTick, WriteableStep
  <2> QED
    BY <1>1, <1>3, <2>1, ServerStepPages DEF SystemInv
<1>4. ASSUME NEW s \in Sessions, LogsIn(s)
      PROVE  [Next]_vars /\ SystemInv'
  <2>1. Next
    BY <1>4 DEF LogsIn
  <2> QED
    BY <1>1, <1>4, <2>1, LogsInPages DEF SystemInv
<1>5. ASSUME NEW s \in Sessions, Takes(s)
      PROVE  [Next]_vars /\ SystemInv'
  <2>1. UNCHANGED vars
    BY <1>5 DEF Takes
  <2> QED
    BY <1>1, <1>5, <2>1, TakesPages DEF SystemInv
<1>6. ASSUME NEW s \in Sessions, Draws(s)
      PROVE  [Next]_vars /\ SystemInv'
  <2>1. UNCHANGED vars
    BY <1>6 DEF Draws
  <2> QED
    BY <1>1, <1>6, <2>1, DrawsPages DEF SystemInv
<1>7. ASSUME NEW s \in Sessions, Closes(s) \/ Loses(s)
      PROVE  [Next]_vars /\ SystemInv'
  <2>1. Next
    BY <1>7 DEF Closes, Loses
  <2> QED
    BY <1>1, <1>7, <2>1, ClosesPages, LosesPages DEF SystemInv
<1>8. ASSUME NEW s \in Sessions, NEW hit \in BOOLEAN, Moves(s, hit)
      PROVE  [Next]_vars /\ SystemInv'
  <2>1. Next /\ PageTypes' /\ \A c \in Sessions : PageOK(c)'
    BY <1>8, MovesPages
  <2> QED
    BY <1>1, <2>1 DEF SystemInv
<1>9. ASSUME NEW s \in Sessions, Redials(s)
      PROVE  [Next]_vars /\ SystemInv'
  <2>1. UNCHANGED vars
    BY <1>9 DEF Redials
  <2> QED
    BY <1>1, <1>9, <2>1, RedialsPages DEF SystemInv
<1>10. ASSUME NEW s \in Sessions, NEW t \in Sessions, Reconnects(s, t)
       PROVE  [Next]_vars /\ SystemInv'
  <2>1. Next
    BY <1>10 DEF Reconnects
  <2> QED
    BY <1>1, <1>10, <2>1, ReconnectsPages DEF SystemInv
<1> QED
  BY <1>2, <1>3, <1>4, <1>5, <1>6, <1>7, <1>8, <1>9, <1>10 DEF SystemNext, PageStep

LEMMA InitSystem == SystemInit => Init /\ SystemInv
<1> SUFFICES ASSUME SystemInit PROVE Init /\ SystemInv
  OBVIOUS
<1>1. Init /\ OneLoginInv /\ LostInv
  BY InitOneLogin, InitLost DEF SystemInit
<1>2. PageTypes
  BY DEF SystemInit, Page!Init, PageTypes
<1>3. ASSUME NEW s \in Sessions PROVE PageOK(s)
  <2>1. /\ inbox[s] = <<>> /\ ~m_GameLayer[s] /\ msgProtocolGems[s] = <<>>
        /\ gems[s] = <<>>
    BY DEF SystemInit, Page!Init
  <2>2. gems_eaten[s] = 0
    BY <1>1 DEF Init
  <2> QED
    BY <2>1, <2>2, EmptyIsSeq DEF PageOK, InboxOK, Heard
<1> QED
  BY <1>1, <1>2, <1>3 DEF SystemInv

\* The pages, whatever the order in which they take the server's responses and
\* whichever of them go on over a new connection after a lost one, do to the
\* server what GameServer lets its clients do: a page moves over the connection
\* it has registered on, or without a login once a player has been lost, and
\* reports the gem once.  So the theorems about GameServer hold of the game, with
\* NoCrash for as long as no connection is lost.
THEOREM PagesImplementClients == ASSUME OneLogin PROVE SystemSpec => PagesPlayByTheRules
BY InitSystem, NextSystem, PTL DEF SystemSpec, PagesPlayByTheRules, Spec

\* A page in the game shows gems of the server and no others.
THEOREM GemsOnPagesAreServers == ASSUME OneLogin PROVE SystemSpec => []GemsAreServers
<1>1. SystemInv => GemsAreServers
  <2> SUFFICES ASSUME SystemInv, NEW s \in Sessions, NEW i \in 1 .. Len(gems[s])
               PROVE  \E j \in 1 .. Len(gems_array) : gems[s][i] = gems_array[j]
    BY DEF GemsAreServers
  <2>1. gems[s] = <<>> \/ gems[s] = gems_array
    BY DEF SystemInv, PageOK
  <2> QED
    BY <2>1, EmptyIsSeq
<1> QED
  BY <1>1, InitSystem, NextSystem, PTL DEF SystemSpec

=============================================================================
