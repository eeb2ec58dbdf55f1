------------------------- MODULE ClientSocketProofs -------------------------
(***************************************************************************)
(* The theorem that a game which has lost no connection is played over one *)
(* that has logged in, for every number of WebSockets a page can have.     *)
(***************************************************************************)
EXTENDS ClientSocket, TLAPS

States == {"none", "CONNECTING", "OPEN", "CLOSED"}

SocketTypes ==
  /\ readyState \in [Sockets -> States]
  /\ m_wsiSendBinary \in Sockets
  /\ logged_in \subseteq Sockets
  /\ lost \in Nat

\* What makes PlaysOverLogin inductive: the game follows a login, and from the
\* first login on the connection made last is open, so that none replaces it.
Faithful ==
  /\ in_game => logged_in # {}
  /\ lost = 0 /\ logged_in # {} =>
       m_wsiSendBinary \in logged_in /\ readyState[m_wsiSendBinary] = "OPEN"

SocketInv == SocketTypes /\ Faithful

LEMMA InitSocket == Init => SocketInv
BY DEF Init, SocketInv, SocketTypes, Faithful, States

LEMMA NextSocket == SocketInv /\ [Next]_vars => SocketInv'
<1> SUFFICES ASSUME SocketInv, [Next]_vars PROVE SocketInv'
  OBVIOUS
<1> USE DEF SocketInv, SocketTypes, Faithful, States
<1>1. CASE sendMassage
  <2>1. CASE Ready /\ UNCHANGED <<readyState, m_wsiSendBinary>>
    BY <1>1, <2>1 DEF sendMassage, Ready, Dropped
  <2>2. CASE Dropped /\ UNCHANGED logged_in
    <3>1. lost = 0 => logged_in = {}
      BY <2>2 DEF Dropped, Ready
    <3>2. readyState' \in [Sockets -> States] /\ m_wsiSendBinary' \in Sockets
      BY <2>2 DEF Dropped, init
    <3> QED
      BY <1>1, <2>2, <3>1, <3>2 DEF sendMassage
  <2> QED
    BY <1>1, <2>1, <2>2 DEF sendMassage
<1>2. ASSUME NEW w \in Sockets, onmessage(w) PROVE SocketInv'
  BY <1>2 DEF onmessage
<1>3. ASSUME NEW w \in Sockets, Opens(w) PROVE SocketInv'
  BY <1>3 DEF Opens, Unused
<1>4. ASSUME NEW w \in Sockets, Ends(w) PROVE SocketInv'
  BY <1>4 DEF Ends, Unused
<1>5. CASE UNCHANGED vars
  BY <1>5 DEF vars
<1> QED
  BY <1>1, <1>2, <1>3, <1>4, <1>5 DEF Next

\* A page that keeps sending the login while connections open, and takes the
\* acknowledgment late, still plays over a connection the server knows it by.
THEOREM GamePlaysOverLogin == Spec => []PlaysOverLogin
<1>1. SocketInv => PlaysOverLogin
  BY DEF SocketInv, Faithful, PlaysOverLogin
<1> QED
  BY <1>1, InitSocket, NextSocket, PTL DEF Spec

=============================================================================
