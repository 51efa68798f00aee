------------------------------- MODULE WebLink -------------------------------
(***************************************************************************)
(* The link of the web page to the device: CWebSocketV2, which opens,      *)
(* watches and closes the socket of the browser, and what CAppl does when  *)
(* the link opens (runtime.js; the page loads its copy _runtime.js).       *)
(*                                                                         *)
(* All of it runs in the one thread of the page: every event handler and   *)
(* every tick of a timer is one step.  What the browser and the network do *)
(* to a socket in between is free: an attempt to connect may take longer   *)
(* than the five seconds between two ticks, so that several attempts are   *)
(* under way at once, and they may succeed or fail in any order.           *)
(***************************************************************************)
EXTENDS Integers, FiniteSets

CONSTANTS
    Sockets,     \* the WebSocket objects that may exist at a time
    NoSocket,    \* null
    MaxConnects  \* bound on the calls of connect()

ASSUME LinkAssumption == NoSocket \notin Sockets /\ MaxConnects \in Nat

VARIABLES
    readyState,  \* of each WebSocket object, "closed" also before it is made
    current,     \* _oWebSocket
    available,   \* _isConnectionAvailable
    desired,     \* _bDesiredOpen
    monitors,    \* the intervals in which _monCon() is called
    asked,       \* CAppl._bInitialDataReceived
    request,     \* the "getconfig" on each socket
    config,      \* the configuration has been received
    reachable    \* the device answers

linkVars == <<readyState, current, available, desired, monitors, asked, request, config, reachable>>

States == {"connecting", "open", "closing", "closed"}

Init ==
    /\ readyState = [s \in Sockets |-> "closed"]
    /\ current = NoSocket
    /\ available = FALSE
    /\ desired = TRUE
    /\ monitors = 0
    /\ asked = FALSE
    /\ request = [s \in Sockets |-> "none"]
    /\ config = FALSE
    /\ reachable \in BOOLEAN

-------------------------------------------------------------------------------
(* CWebSocketV2.                                                             *)

\* _openSocket(): the new object takes the place of one that may still connect.
OpenSocket ==
    IF available THEN UNCHANGED <<readyState, current>>
    ELSE \E s \in Sockets :
            /\ readyState[s] = "closed"
            /\ readyState' = [readyState EXCEPT ![s] = "connecting"]
            /\ current' = s

\* connect(): the test for a running timer reads oMonTimeID, the timer is stored
\* in oMonTimerID: each call starts one more.
Connect(bRecon) ==
    /\ monitors < MaxConnects
    /\ desired' = TRUE
    /\ OpenSocket
    /\ monitors' = IF bRecon THEN monitors + 1 ELSE monitors
    /\ UNCHANGED <<available, asked, request, config, reachable>>

\* Mutants of MonCon: a link that nobody wants is reopened; a lost one is not.
MonConUnasked ==
    /\ monitors > 0 /\ ~available
    /\ OpenSocket
    /\ UNCHANGED <<available, desired, monitors, asked, request, config, reachable>>

MonConOnlyFirst ==
    /\ monitors > 0 /\ desired /\ ~available /\ current = NoSocket
    /\ OpenSocket
    /\ UNCHANGED <<available, desired, monitors, asked, request, config, reachable>>

\* _monCon(): a tick of a monitor that finds no connection.
MonCon ==
    /\ monitors > 0
    /\ desired /\ ~available
    /\ OpenSocket
    /\ UNCHANGED <<available, desired, monitors, asked, request, config, reachable>>

\* close(): for the reason above no timer is stopped, and only the last socket is
\* closed.
Close ==
    /\ desired' = FALSE
    /\ readyState' = [s \in Sockets |->
                        IF s = current /\ readyState[s] \in {"connecting", "open"} THEN "closing"
                        ELSE readyState[s]]
    /\ UNCHANGED <<current, available, monitors, asked, request, config, reachable>>

-------------------------------------------------------------------------------
(* CAppl.onSocketStatus("open").                                             *)

\* A mutant of AskConfig: at every opening.
AskConfigAlways ==
    IF readyState'[current] = "connecting" THEN UNCHANGED <<asked, request>>
    ELSE /\ asked' = TRUE
         /\ request' = IF readyState'[current] = "open"
                       THEN [request EXCEPT ![current] = "sent"] ELSE request

\* The configuration is asked for once.  send() uses the last socket, which need
\* not be the one that opened: while that one is connecting, send() throws and the
\* flag stays; when it is closed, the browser drops the message without a word.
AskConfig ==
    IF asked \/ readyState'[current] = "connecting" THEN UNCHANGED <<asked, request>>
    ELSE /\ asked' = TRUE
         /\ request' = IF readyState'[current] = "open"
                       THEN [request EXCEPT ![current] = "sent"] ELSE request

OnOpen(s) ==
    /\ reachable
    /\ readyState[s] = "connecting"
    /\ readyState' = [readyState EXCEPT ![s] = "open"]
    /\ available' = TRUE
    /\ AskConfig
    /\ UNCHANGED <<current, desired, monitors, config, reachable>>

\* onclose: a link that was lost or closed, or an attempt that failed.
OnClose(s) ==
    /\ readyState[s] # "closed"
    /\ readyState[s] = "connecting" => ~reachable
    /\ readyState' = [readyState EXCEPT ![s] = "closed"]
    /\ available' = FALSE
    /\ request' = [request EXCEPT ![s] = "none"]
    /\ UNCHANGED <<current, desired, monitors, asked, config, reachable>>

\* onSocketMessage(): the answer, "update" of "config".
OnConfig(s) ==
    /\ readyState[s] = "open" /\ request[s] = "answered"
    /\ config' = TRUE
    /\ request' = [request EXCEPT ![s] = "none"]
    /\ UNCHANGED <<readyState, current, available, desired, monitors, asked, reachable>>

-------------------------------------------------------------------------------
(* The device and the network.                                               *)

DeviceAnswers(s) ==
    /\ reachable /\ readyState[s] = "open" /\ request[s] = "sent"
    /\ request' = [request EXCEPT ![s] = "answered"]
    /\ UNCHANGED <<readyState, current, available, desired, monitors, asked, config, reachable>>

DeviceComesOrGoes ==
    /\ reachable' = ~reachable
    /\ UNCHANGED <<readyState, current, available, desired, monitors, asked, request, config>>

Next ==
    \/ \E bRecon \in BOOLEAN : Connect(bRecon)
    \/ MonCon
    \/ Close
    \/ \E s \in Sockets : OnOpen(s) \/ OnClose(s) \/ OnConfig(s) \/ DeviceAnswers(s)
    \/ DeviceComesOrGoes

\* The timers run, and the browser reports what happens to a socket: an attempt
\* opens while the device can be reached, a closing handshake ends.
Fairness ==
    /\ WF_linkVars(MonCon)
    /\ \A s \in Sockets :
          /\ WF_linkVars(OnOpen(s))
          /\ WF_linkVars(readyState[s] = "closing" /\ OnClose(s))
          /\ WF_linkVars(DeviceAnswers(s))
          /\ WF_linkVars(OnConfig(s))

Spec     == Init /\ [][Next]_linkVars
FairSpec == Spec /\ Fairness

-------------------------------------------------------------------------------
TypeOK ==
    /\ readyState \in [Sockets -> States]
    /\ current \in Sockets \cup {NoSocket}
    /\ available \in BOOLEAN /\ desired \in BOOLEAN /\ asked \in BOOLEAN
    /\ monitors \in 0..MaxConnects
    /\ request \in [Sockets -> {"none", "sent", "answered"}]
    /\ config \in BOOLEAN /\ reachable \in BOOLEAN

\* "Is the connection activ and available ?": whichever attempts overlap, and in
\* whatever order they succeed, fail and are lost, the flag that send() trusts is
\* never left behind when no socket is open any more.
AvailableIsOpen == available => \E s \in Sockets : readyState[s] \in {"open", "closing"}

\* The configuration is asked for at most once, on one socket, however often the
\* link is lost and opened again: a second answer would overwrite what the user
\* has changed since the first.
AskedOnce ==
    /\ config => asked
    /\ \A s \in Sockets :
          request[s] # "none" =>
              /\ asked /\ ~config
              /\ readyState[s] \in {"open", "closing"}
              /\ \A t \in Sockets : request[t] # "none" => t = s

LinkInv ==
    /\ TypeOK
    /\ AvailableIsOpen
    /\ AskedOnce
    /\ \A s \in Sockets : readyState[s] # "closed" => current # NoSocket

\* "the only valid way to stop the socket, otherwise the reconnect will try to
\* reopen again": the monitors outlive close(), but none of them makes a socket
\* until connect() is called again.
ClosedStaysClosed ==
    [][\A s \in Sockets :
          readyState[s] = "closed" /\ readyState'[s] = "connecting" => desired']_linkVars

\* A page that wants the link and has a monitor gets it back whenever it was lost,
\* once the device stays reachable - also when older attempts get in its way.
LinkComesBack ==
    <>[](reachable /\ desired /\ monitors > 0) => []<>available

\* "stop the monitor timer, if it is in place..." (close(), runtime.js:2630).
CloseStopsMonitor == ~desired => monitors = 0
===============================================================================
