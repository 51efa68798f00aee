---------------------------- MODULE MqttConnection ----------------------------
(***************************************************************************)
(* The connection of CMQTTController (CMQTTControler.cpp): setup() connects *)
(* once, and every turn of the loop tries again when a delay is over, sends *)
(* the heartbeat twice if it is due, and hands out the messages that came.  *)
(* Here these are the "online" messages of Home Assistant, which the        *)
(* controller answers with its discovery data; MqttInbox has the others.    *)
(*                                                                         *)
(* The loop task and the task of the MQTT library share the connection, so  *)
(* what the loop has tested may have changed when it acts.  The library, the*)
(* broker and Home Assistant are external.  A tick of millis() is a time in *)
(* which the loop completes a turn.                                         *)
(***************************************************************************)
EXTENDS SimpleDelay

CONSTANTS
    TryDelay,    \* the delay between two attempts: 5000
    Interval,    \* Config.PublishInterval * 1000
    UseHA,       \* Config.useHA
    MaxWaiting   \* bound: "online" messages that wait

ASSUME ConnectionAssumption ==
    /\ TryDelay \in Millis \ {0} /\ Interval \in Millis
    /\ UseHA \in BOOLEAN /\ MaxWaiting \in Nat

VARIABLES
    enabled,     \* Config.isEnabled
    configured,  \* has setup() set the server, the topics and the callbacks?
    link,        \* the state of the library: "down", "connecting" or "up"
    pc,          \* what the loop task does next
    retry,       \* m_oTryConnectDelay
    last,        \* m_ulLastHeartBeat
    millis,
    told,        \* the last event on the bus
    waiting,     \* the number of "online" messages in m_tMessageQeue
    known,       \* does Home Assistant have the discovery data?
    turns,       \* since the tick, a turn of the loop: 0 none, 1 begun, 2 completed
    quiet,       \* the time since the loop's last attempt, up to TryDelay + 1
    beat         \* since the tick, has a heartbeat been published?

config == <<enabled, configured>>
home   == <<waiting, known>>
clock  == <<millis, turns, quiet, beat>>
vars   == <<config, link, pc, retry, last, told, home, clock>>

Loop == {"turn", "connect", "announce", "heartbeat", "publish", "queue",
         "heartbeat again", "publish again"}

-------------------------------------------------------------------------------
\* CMQTTController(): the delay is prepared and expired.
Init ==
    /\ enabled \in BOOLEAN /\ configured = FALSE
    /\ link = "down" /\ pc = "setup" /\ told = "nothing"
    /\ retry = Expired(Prepared(Unused, TryDelay)) /\ last = 0
    /\ waiting = 0 /\ known = FALSE
    /\ millis = 1 /\ turns = 2 /\ quiet = TryDelay + 1 /\ beat = FALSE

\* A mutant of Connecting: a client without a server connects.
ConnectingAnyway(set) == IF link = "down" THEN "connecting" ELSE link

\* AsyncMqttClient::connect(): nothing, while it connects or is connected, and a
\* failure without a server.
Connecting(set) == IF set /\ link = "down" THEN "connecting" ELSE link

Setup ==
    /\ pc = "setup" /\ pc' = "start"
    /\ configured' = enabled
    /\ link' = Connecting(enabled)
    /\ UNCHANGED <<enabled, retry, last, told, home, clock>>

\* publishHomeAssistantDiscovery()
Discovered == known \/ (link = "up" /\ UseHA)

\* receiveEvent(MSG_APPL_STARTED), which the program sends once.
ApplStarted ==
    /\ pc = "start" /\ pc' = "turn"
    /\ known' = Discovered
    /\ UNCHANGED <<config, link, retry, last, told, waiting, clock>>

\* readConfigFrom(): the page switches MQTT on or off.
Configure ==
    /\ pc = "turn"
    /\ enabled' = ~enabled
    /\ UNCHANGED <<configured, link, pc, retry, last, told, home, clock>>

\* enableConnection(): is it time for an attempt?
CheckConnection ==
    /\ pc = "turn"
    /\ pc' = IF enabled /\ link # "up" /\ IsDone(retry, millis) THEN "connect" ELSE "heartbeat"
    /\ turns' = IF turns = 0 THEN 1 ELSE turns
    /\ UNCHANGED <<config, link, retry, last, told, home, millis, quiet, beat>>

\* A mutant of Connect: the delay stays expired.
ConnectAtOnce ==
    /\ pc = "connect" /\ pc' = "announce"
    /\ link' = Connecting(configured)
    /\ quiet' = 0
    /\ UNCHANGED <<config, retry, last, told, home, millis, turns, beat>>

Connect ==
    /\ pc = "connect" /\ pc' = "announce"
    /\ link' = Connecting(configured)
    /\ retry' = Restarted(retry, millis)
    /\ quiet' = 0
    /\ UNCHANGED <<config, last, told, home, millis, turns, beat>>

Announce ==
    /\ pc = "announce" /\ pc' = "heartbeat"
    /\ told' = "starting"
    /\ UNCHANGED <<config, link, retry, last, home, clock>>

\* The loop task goes on with next; "turn" completes the turn that has begun.
Goto(next) ==
    /\ pc' = next
    /\ turns' = IF next = "turn" /\ turns = 1 THEN 2 ELSE turns

\* A mutant of NextBeat: the sum is computed in a wider integer.
NextBeatWide == last + Interval

NextBeat == Added(last, Interval)

HeartBeatIsDue == link = "up" /\ Interval > 0 /\ NextBeat < millis

\* publishHeartBeat(), up to the text of the status; then comes next.
CheckHeartBeat(check, publish, next) ==
    /\ pc = check
    /\ Goto(IF HeartBeatIsDue THEN publish ELSE next)
    /\ UNCHANGED <<config, link, retry, last, told, home, millis, quiet, beat>>

\* The heartbeat goes out if there is still a connection; the time is set anyway.
HeartBeat(check, publish, next) ==
    \/ CheckHeartBeat(check, publish, next)
    \/ /\ pc = publish
       /\ Goto(next)
       /\ beat' = (beat \/ link = "up")
       /\ last' = millis
       /\ UNCHANGED <<config, link, retry, told, home, millis, quiet>>

\* A mutant of DispatchMessages: the bus recognises the sender, and the controller
\* does not hear of the message.
DispatchUnheard ==
    /\ pc = "queue"
    /\ IF waiting > 0
       THEN waiting' = waiting - 1 /\ UNCHANGED <<known, pc, turns>>
       ELSE Goto("heartbeat again") /\ UNCHANGED home
    /\ UNCHANGED <<config, link, retry, last, told, millis, quiet, beat>>

\* dispatch(): the messages of the queue, one by one.  The controller receives its
\* own event, as its receiver is not its first base, and answers.
DispatchMessages ==
    /\ pc = "queue"
    /\ IF waiting > 0
       THEN waiting' = waiting - 1 /\ known' = Discovered /\ UNCHANGED <<pc, turns>>
       ELSE Goto("heartbeat again") /\ UNCHANGED home
    /\ UNCHANGED <<config, link, retry, last, told, millis, quiet, beat>>

-------------------------------------------------------------------------------
\* onMqttConnect()
OnMqttConnect ==
    /\ link = "connecting"
    /\ link' = "up" /\ told' = "connected"
    /\ UNCHANGED <<config, pc, retry, last, home, clock>>

\* onMqttDisconnect(): an attempt has failed, or the connection is lost.
OnMqttDisconnect ==
    /\ link # "down"
    /\ link' = "down" /\ told' = "disconnected"
    /\ UNCHANGED <<config, pc, retry, last, home, clock>>

\* Home Assistant starts, without the data of devices, and says so to those who
\* have subscribed.  It takes longer to start than dispatch() to empty the queue, so
\* that only the first MaxWaiting messages of a turn are of interest.
HomeAssistantStarts ==
    /\ UseHA /\ waiting < MaxWaiting /\ pc = "turn"
    /\ known' = FALSE
    /\ waiting' = IF link = "up" THEN waiting + 1 ELSE waiting
    /\ UNCHANGED <<config, link, pc, retry, last, told, clock>>

Tick ==
    /\ turns = 2 /\ turns' = 0
    /\ millis' = IF millis + 1 = Wrap THEN 0 ELSE millis + 1
    /\ quiet' = IF quiet > TryDelay THEN quiet ELSE quiet + 1
    /\ beat' = FALSE
    /\ UNCHANGED <<config, link, pc, retry, last, told, home>>

LoopGoesOn ==
    \/ Setup \/ ApplStarted
    \/ CheckConnection \/ Connect \/ Announce
    \/ HeartBeat("heartbeat", "publish", "queue")
    \/ DispatchMessages
    \/ HeartBeat("heartbeat again", "publish again", "turn")

Next ==
    \/ LoopGoesOn
    \/ Configure
    \/ OnMqttConnect \/ OnMqttDisconnect
    \/ HomeAssistantStarts
    \/ Tick

Spec == Init /\ [][Next]_vars

\* The loop runs, and time passes.
FairSpec == Spec /\ WF_vars(LoopGoesOn) /\ WF_vars(Tick)

-------------------------------------------------------------------------------
TypeOK ==
    /\ enabled \in BOOLEAN /\ configured \in BOOLEAN
    /\ link \in {"down", "connecting", "up"} /\ (link # "down" => configured)
    /\ pc \in {"setup", "start"} \cup Loop
    /\ retry \in Delays /\ last \in Millis /\ millis \in Millis
    /\ told \in {"nothing", "starting", "connected", "disconnected"}
    /\ waiting \in 0 .. MaxWaiting /\ known \in BOOLEAN
    /\ turns \in 0 .. 2 /\ quiet \in 0 .. TryDelay + 1 /\ beat \in BOOLEAN

\* What the proof needs: in the delay behind an attempt, quiet is the time since the
\* start of the delay.
ConnectionInv ==
    /\ TypeOK
    /\ pc = "setup" => ~configured
    /\ retry.delay = TryDelay
    /\ quiet <= TryDelay => ~retry.expired /\ millis = Added(retry.start, quiet)
    /\ pc = "connect" => quiet > TryDelay \/ retry.start + TryDelay >= Wrap

\* Between two attempts of the loop the delay passes, except for the last attempts
\* before millis() wraps - however often the connection fails in between.
AttemptsKeepDistance ==
    [][Connect => quiet > TryDelay \/ retry.start + TryDelay >= Wrap]_vars

\* The loop never gives up: as long as MQTT is enabled and disconnected, there is
\* another attempt, later or sooner, unless the last one began in the millisecond 0
\* or the end of its delay is the largest number.
RetryCanEnd == retry.expired \/ (retry.start # 0 /\ Added(retry.start, retry.delay) # Wrap - 1)

RetryGoesOn ==
    enabled /\ link = "down" /\ RetryCanEnd ~> quiet = 0 \/ link # "down" \/ ~enabled

\* While it is connected the device sends heartbeats again and again, with the same
\* exception.
HeartBeatGoesOn ==
    link = "up" /\ Interval > 0 /\ NextBeat # Wrap - 1 ~> beat \/ link # "up"

\* Home Assistant gets the discovery data after it said that it is online, unless
\* the connection is lost before the loop comes to the message.
OnlineIsAnswered == waiting > 0 ~> known \/ link # "up"

\* "If MQTT is enabled but disconnected and the retry delay has elapsed, this
\* starts a new connection attempt" (enableConnection): the loop does not find
\* that it is not yet time when the delay is over.
ElapsedIsRetried ==
    [][CheckConnection /\ pc' = "heartbeat" /\ enabled /\ link # "up" => quiet <= TryDelay]_vars

\* "Heartbeat interval in seconds" (MQTTController.h): two heartbeats are not
\* closer than that.
HeartBeatsKeepInterval == [][beat' /\ ~beat => (millis - last) % Wrap >= Interval]_vars

\* "true when MQTT should connect/publish." (MQTTController.h): a controller that is
\* switched off does not publish.
DisabledIsSilent == [][beat' /\ ~beat => enabled]_vars

\* "Negotiation to server started" (Msgs.h): nobody is told so when the connection
\* has been announced.
StartingIsFirst == [][Announce => told # "connected"]_vars

\* "true to publish Home Assistant MQTT discovery data." (MQTTController.h): it is
\* published for a connection that lasts.
ConnectedIsKnown == <>[](link = "up") /\ UseHA => <>known
===============================================================================
