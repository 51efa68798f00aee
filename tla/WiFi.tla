--------------------------------- MODULE WiFi ---------------------------------
(***************************************************************************)
(* CWiFiController (CWiFiController.cpp): startWiFi() opens an access point *)
(* or joins a network, a join that fails may fall back to the access point  *)
(* or plan a retry, and restartIfNeeded(), called by the program in its     *)
(* loop, retries or gives up.                                               *)
(*                                                                         *)
(* startWiFi() runs for up to 15 seconds; pc is where it is.  millis() is a *)
(* counter of Wrap values that starts over at 0.  The WiFi library and the  *)
(* network are external: an access point opens or not, a network is found   *)
(* or not and may be lost again.                                            *)
(***************************************************************************)
EXTENDS Integers

CONSTANTS
    Wrap,              \* millis() is less than this: 2^32
    JoinTimeout,       \* nTimeout of joinNetwork()
    RetryTimeout,      \* Config.retryTimeoutSeconds
    RetryCount,        \* Config.retryCount
    StartsAgain        \* does the program call startWiFi() while it is connected?

ASSUME WiFiAssumption ==
    /\ Wrap \in Nat \ {0} /\ RetryCount \in Nat
    /\ JoinTimeout \in 1 .. Wrap - 1 /\ RetryTimeout \in 1 .. Wrap - 1
    /\ StartsAgain \in BOOLEAN

VARIABLES
    config,    \* Config: the flags accessPointMode and autoFallbackMode
    pc,        \* "idle", or what startWiFi() does next
    status,    \* Status, see TypeOK
    radio,     \* is the access point open, or the network joined?
    millis,
    began,     \* now in joinNetwork()
    told       \* the last event on the bus: <<event, mode>>

vars == <<config, pc, status, radio, millis, began, told>>

Millis == 0 .. Wrap - 1
None   == Wrap - 1     \* restartTimeInMillis = -1, as an unsigned long

AP == "accesspoint"
Station == "station"

Configs == [accessPointMode : BOOLEAN, autoFallbackMode : BOOLEAN]

Init ==
    /\ config \in Configs
    /\ pc = "idle" /\ radio = FALSE /\ millis = 0 /\ began = 0
    /\ status = [connected |-> FALSE, mode |-> "none", restart |-> None,
                 retries |-> 0, wrongPassword |-> FALSE]
    /\ told = <<"nothing", "none">>

Elapsed == (millis - began) % Wrap

\* A mutant of TimedOut: the end of the join is computed in a wider integer.
TimedOutWide == millis >= began + JoinTimeout

TimedOut == Elapsed >= JoinTimeout

\* Time passes, but not while the loop of joinNetwork() has to end.
Tick ==
    /\ ~(pc = "joining" /\ Elapsed >= JoinTimeout)
    /\ millis' = (millis + 1) % Wrap
    /\ UNCHANGED <<config, pc, status, radio, began, told>>

\* The network is found, or found again, or lost.
NetworkChanges ==
    /\ status.mode = Station
    /\ radio' = ~radio
    /\ UNCHANGED <<config, pc, status, millis, began, told>>

\* readConfigFrom(), between two calls of startWiFi().
Configure ==
    /\ pc = "idle"
    /\ config' \in Configs
    /\ UNCHANGED <<pc, status, radio, millis, began, told>>

\* startWiFi(bUseConfigData)
Started(bUseConfigData) ==
    /\ status' = [status EXCEPT !.restart = None]
    /\ pc' = IF ~bUseConfigData THEN "default only"
             ELSE IF config.accessPointMode THEN "access point" ELSE "join"

StartWiFi(bUseConfigData) ==
    /\ pc = "idle"
    /\ status.connected => StartsAgain
    /\ Started(bUseConfigData)
    /\ UNCHANGED <<config, radio, millis, began, told>>

\* A mutant of OpenAccessPoint: the status is set before the access point opens.
OpenAccessPointAnyway(next) ==
    /\ status' = [status EXCEPT !.mode = AP, !.wrongPassword = FALSE, !.connected = TRUE]
    /\ \E open \in BOOLEAN :
          /\ radio' = open
          /\ told' = <<IF open THEN "connected" ELSE "starting", AP>>
          /\ pc' = IF open THEN "idle" ELSE next
    /\ UNCHANGED <<config, millis, began>>

\* startAccessPoint(pszSSID, ...): it opens, or next is what the caller does.
OpenAccessPoint(next) ==
    \E open \in BOOLEAN :
        /\ status' = [status EXCEPT !.mode = AP, !.wrongPassword = FALSE, !.connected = open,
                      !.retries = IF open /\ pc \in {"fallback", "fallback default"} THEN 0 ELSE @]
        /\ radio' = open
        /\ told' = <<IF open THEN "connected" ELSE "starting", AP>>
        /\ pc' = IF open THEN "idle" ELSE next
        /\ UNCHANGED <<config, millis, began>>

\* A mutant of AccessPoint: the default access point is not tried.
AccessPointOnce ==
    \/ pc = "access point" /\ OpenAccessPoint("idle")
    \/ pc = "default only" /\ OpenAccessPoint("idle")

\* startAccessPoint(bUseConfigData): the default access point, if the configured
\* one did not open.
AccessPoint ==
    \/ pc = "access point" /\ OpenAccessPoint("default only")
    \/ pc = "default only" /\ OpenAccessPoint("idle")

Fallback ==
    \/ pc = "fallback" /\ OpenAccessPoint("fallback default")
    \/ pc = "fallback default" /\ OpenAccessPoint("plan retry")

\* joinNetwork(), to the end of WiFi.begin().
Join ==
    /\ pc = "join"
    /\ \E wrong \in BOOLEAN :
          status' = [status EXCEPT !.mode = Station, !.restart = None, !.wrongPassword = wrong]
    /\ radio' = FALSE
    /\ told' = <<"starting", Station>>
    /\ began' = millis
    /\ pc' = "joining"
    /\ UNCHANGED <<config, millis>>

\* The events are sent before the status changes; a failure leaves isWiFiConnected
\* as it is.
JoinEnds ==
    /\ pc = "joining"
    /\ radio \/ TimedOut
    /\ told' = <<IF radio THEN "connected" ELSE "error", Station>>
    /\ pc' = IF radio THEN "announced" ELSE "joined"
    /\ UNCHANGED <<config, status, radio, millis, began>>

Joined ==
    /\ pc = "announced"
    /\ status' = [status EXCEPT !.connected = TRUE]
    /\ pc' = "joined"
    /\ UNCHANGED <<config, radio, millis, began, told>>

\* startWiFi() behind joinNetwork().
JoinSucceeded ==
    /\ pc = "joined" /\ status.connected
    /\ pc' = "idle"
    /\ UNCHANGED <<config, status, radio, millis, began, told>>

FallsBack == config.autoFallbackMode \/ status.wrongPassword

JoinFailed ==
    /\ pc = "joined" /\ ~status.connected
    /\ pc' = IF FallsBack THEN "fallback" ELSE "plan retry"
    /\ UNCHANGED <<config, status, radio, millis, began, told>>

PlannedRestart == (millis + RetryTimeout) % Wrap

PlanRetry ==
    /\ pc = "plan retry"
    /\ status' = [status EXCEPT !.restart = PlannedRestart]
    /\ pc' = "idle"
    /\ UNCHANGED <<config, radio, millis, began, told>>

\* disableWiFi()
Disabled ==
    /\ status' = [status EXCEPT !.connected = FALSE, !.mode = "none", !.restart = None]
    /\ radio' = FALSE
    /\ told' = <<"disabled", "none">>

\* restartIfNeeded()
RestartIfNeeded ==
    /\ pc = "idle"
    /\ ~status.connected
    /\ status.restart > millis
    /\ IF RetryCount < status.retries
       THEN /\ status' = [status EXCEPT !.restart = None, !.retries = @ + 1]
            /\ pc' = IF config.accessPointMode THEN "access point" ELSE "join"
            /\ UNCHANGED <<radio, told>>
       ELSE Disabled /\ UNCHANGED pc
    /\ UNCHANGED <<config, millis, began>>

StartWiFiGoesOn ==
    \/ AccessPoint \/ Fallback
    \/ Join \/ JoinEnds \/ Joined \/ JoinSucceeded \/ JoinFailed \/ PlanRetry

Next ==
    \/ Tick
    \/ NetworkChanges
    \/ Configure
    \/ \E bUseConfigData \in BOOLEAN : StartWiFi(bUseConfigData)
    \/ StartWiFiGoesOn
    \/ RestartIfNeeded

Spec == Init /\ [][Next]_vars

\* The code of startWiFi() runs, and so does the clock.
FairSpec == Spec /\ WF_vars(StartWiFiGoesOn) /\ WF_vars(Tick)

-------------------------------------------------------------------------------
TypeOK ==
    /\ config \in Configs
    /\ pc \in {"idle", "access point", "default only", "fallback", "fallback default",
               "join", "joining", "announced", "joined", "plan retry"}
    /\ status \in [connected : BOOLEAN, mode : {"none", AP, Station}, restart : Millis,
                   retries : 0 .. RetryCount, wrongPassword : BOOLEAN]
    /\ radio \in BOOLEAN /\ millis \in Millis /\ began \in Millis

\* The status that everybody can read is what the last event said, after every
\* sequence of starts, failures and fallbacks: connected, and in which mode - but
\* not yet for those who are called with MSG_WIFI_CONNECTED in station mode.
StatusIsTold ==
    pc # "announced" =>
        /\ status.connected <=> told[1] = "connected"
        /\ status.connected => told[2] = status.mode

\* After any sequence of starts, failures and fallbacks, whatever millis() is.
WiFiInv == TypeOK /\ StatusIsTold

\* startWiFi() returns.
StartWiFiReturns == pc # "idle" ~> pc = "idle"

\* "Maximum number of reconnect attempts before WiFi is disabled."
\* (WiFiController.h)
RetriesBeforeDisable ==
    [][told'[1] = "disabled" /\ told[1] # "disabled" => status.retries >= RetryCount]_vars

\* "millis() value for the next scheduled reconnect, or -1 if none."
\* (WiFiController.h): nothing is done before that time.
NothingBeforeRestartTime ==
    [][RestartIfNeeded => status.restart # None /\ status.restart <= millis]_vars

\* "@return true if the station connection was established before the timeout."
\* (CWiFiController.cpp, joinNetwork)
JoinTellsTheTruth == pc = "joined" /\ status.connected => told = <<"connected", Station>>
===============================================================================
