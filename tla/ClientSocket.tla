---------------------------- MODULE ClientSocket -----------------------------
(***************************************************************************)
(* The connections of one page (client/src/Websockts.js): init makes a     *)
(* WebSocket, sendMassage sends over the one made last if that is open and *)
(* makes a new one if it is not, and the message is dropped.  Responses    *)
(* are taken from every connection.  The handlers of errors and closes     *)
(* write to the window and not to the page.                                *)
(***************************************************************************)
EXTENDS Naturals

CONSTANTS
  Sockets,    \* WebSockets the page can have at a time
  MaxLost     \* bound: connections that are lost or refused

VARIABLES
  readyState,       \* of each WebSocket
  m_wsiSendBinary,  \* the one made last
  in_game,          \* the game layer has taken the place of the menu
  logged_in,        \* connections a login has been sent over
  last,             \* what became of the last message
  lost              \* connections lost or refused

vars == <<readyState, m_wsiSendBinary, in_game, logged_in, last, lost>>

\* LayerController.js calls init when the page is loaded.
Init ==
  \E first \in Sockets :
    /\ readyState = [w \in Sockets |-> IF w = first THEN "CONNECTING" ELSE "none"]
    /\ m_wsiSendBinary = first
    /\ in_game = FALSE
    /\ logged_in = {}
    /\ last = "none"
    /\ lost = 0


\* A new WebSocket takes the place of the one before it, which goes on
\* connecting.
init ==
  \E w \in Sockets :
    /\ readyState[w] = "none"
    /\ readyState' = [readyState EXCEPT ![w] = "CONNECTING"]
    /\ m_wsiSendBinary' = w

\* Mutant of Ready: a connection is used for one login.
ReadyWhenNew ==
  readyState[m_wsiSendBinary] = "OPEN" /\ (m_wsiSendBinary \in logged_in => in_game)

Ready == readyState[m_wsiSendBinary] = "OPEN"

Dropped == ~Ready /\ init /\ last' = "dropped"

\* A login of the menu, or a move of a frame of the game.
sendMassage ==
  /\ \/ /\ Ready
        /\ logged_in' = IF in_game THEN logged_in ELSE logged_in \cup {m_wsiSendBinary}
        /\ last' = "sent"
        /\ UNCHANGED <<readyState, m_wsiSendBinary>>
     \/ Dropped /\ UNCHANGED logged_in
  /\ UNCHANGED <<in_game, lost>>

\* onmessage: the acknowledgment of a login, over the connection it went.
onmessage(w) ==
  /\ readyState[w] = "OPEN" /\ w \in logged_in
  /\ in_game' = TRUE
  /\ UNCHANGED <<readyState, m_wsiSendBinary, logged_in, last, lost>>

\* A connection that is neither the last one made nor logged in is of no more
\* interest to the page, which never closes it.
Unused(w) == w # m_wsiSendBinary /\ w \notin logged_in

Opens(w) ==
  /\ readyState[w] = "CONNECTING"
  /\ readyState' = [readyState EXCEPT ![w] = IF Unused(w) THEN "none" ELSE "OPEN"]
  /\ UNCHANGED <<m_wsiSendBinary, in_game, logged_in, last, lost>>

\* The connection ends, or the server has refused it.
Ends(w) ==
  /\ readyState[w] \in {"CONNECTING", "OPEN"} /\ lost < MaxLost
  /\ readyState' = [readyState EXCEPT ![w] = IF Unused(w) THEN "none" ELSE "CLOSED"]
  /\ lost' = lost + 1
  /\ UNCHANGED <<m_wsiSendBinary, in_game, logged_in, last>>

Next == sendMassage \/ \E w \in Sockets : onmessage(w) \/ Opens(w) \/ Ends(w)

\* Every connection that is being made comes to be open or is refused.
Answered(w) == readyState[w] = "CONNECTING" /\ (Opens(w) \/ Ends(w))
Spec == Init /\ [][Next]_vars /\ \A w \in Sockets : WF_vars(Answered(w))

-----------------------------------------------------------------------------
\* However often the menu sends the login and whenever connections open: a game
\* that has not lost a connection is played over one that has logged in, for
\* hashmapPut gives the server NULL at a move over any other.
PlaysOverLogin == in_game /\ lost = 0 => m_wsiSendBinary \in logged_in

\* A page that keeps sending.
KeepsSending == []<><<sendMassage>>_vars


=============================================================================
