------------------------------ MODULE WiFiProofs ------------------------------
(***************************************************************************)
(* Proofs about CWiFiController: for every width of millis(), every timeout *)
(* and every number of retries, and as long as the program does not call    *)
(* startWiFi() while it is connected.                                       *)
(***************************************************************************)
EXTENDS WiFi, TLAPS

Statuses == [connected : BOOLEAN, mode : {"none", AP, Station}, restart : Millis,
             retries : 0 .. RetryCount, wrongPassword : BOOLEAN]

\* What startWiFi() relies on while it runs: nothing is connected before joinNetwork() has
\* said so, and between that and the change of the status the last event says it already.
WhileItRuns ==
    /\ status.connected => pc \in {"idle", "joined"}
    /\ pc \in {"joining", "announced", "joined"} => status.mode = Station
    /\ pc = "announced" => told = <<"connected", Station>>

IInv == WiFiInv /\ WhileItRuns

\* Times stay in the width of millis().
LEMMA TimesFit ==
    ASSUME WiFiAssumption, millis \in Millis
    PROVE  None \in Millis /\ 0 \in Millis /\ (millis + 1) % Wrap \in Millis /\ PlannedRestart \in Millis
  BY SMT DEF WiFiAssumption, Millis, None, PlannedRestart

LEMMA RetriesFit == ASSUME WiFiAssumption PROVE 0 \in 0 .. RetryCount
  BY SMT DEF WiFiAssumption

LEMMA InitInv == ASSUME WiFiAssumption, Init PROVE IInv
<1>1. None \in Millis /\ 0 \in Millis
  BY SMT DEF WiFiAssumption, Millis, None
<1>2. status \in Statuses
  BY <1>1, RetriesFit DEF Init, Statuses
<1> QED BY <1>1, <1>2 DEF Init, IInv, WiFiInv, TypeOK, StatusIsTold, WhileItRuns, Statuses

\* startAccessPoint() of one name, wherever startWiFi() calls it: if it does not open,
\* the caller goes on with next.
LEMMA OpenAccessPointKeepsInv ==
    ASSUME WiFiAssumption, IInv, ~status.connected,
           NEW next \in {"idle", "default only", "fallback default", "plan retry"},
           OpenAccessPoint(next)
    PROVE  IInv'
<1>1. status \in Statuses
  BY DEF IInv, WiFiInv, TypeOK, Statuses
<1>0. 0 \in 0 .. RetryCount
  BY RetriesFit
<1>2. PICK open \in BOOLEAN :
        /\ status' = [status EXCEPT !.mode = AP, !.wrongPassword = FALSE, !.connected = open,
                      !.retries = IF open /\ pc \in {"fallback", "fallback default"} THEN 0 ELSE @]
        /\ radio' = open
        /\ told' = <<IF open THEN "connected" ELSE "starting", AP>>
        /\ pc' = IF open THEN "idle" ELSE next
        /\ UNCHANGED <<config, millis, began>>
  BY DEF OpenAccessPoint
<1>3. status' \in Statuses /\ status'.connected = open /\ status'.mode = AP
  BY <1>0, <1>1, <1>2, Zenon DEF Statuses
<1>4. TypeOK'
  BY <1>2, <1>3 DEF IInv, WiFiInv, TypeOK, Statuses
<1>5. StatusIsTold'
  BY <1>2, <1>3 DEF StatusIsTold
<1>6. WhileItRuns'
  BY <1>2, <1>3 DEF WhileItRuns
<1> QED BY <1>4, <1>5, <1>6 DEF IInv, WiFiInv

LEMMA StepKeepsInv == ASSUME WiFiAssumption, ~StartsAgain, IInv, [Next]_vars PROVE IInv'
<1> USE DEF AP, Station
<1>0. /\ status \in Statuses /\ millis \in Millis /\ began \in Millis /\ config \in Configs
      /\ None \in Millis /\ PlannedRestart \in Millis
  BY TimesFit DEF IInv, WiFiInv, TypeOK, Statuses
<1>1. CASE Tick
  BY <1>1, TimesFit DEF Tick, IInv, WiFiInv, TypeOK, StatusIsTold, WhileItRuns
<1>2. CASE NetworkChanges
  BY <1>2 DEF NetworkChanges, IInv, WiFiInv, TypeOK, StatusIsTold, WhileItRuns
<1>3. CASE Configure
  BY <1>3 DEF Configure, IInv, WiFiInv, TypeOK, StatusIsTold, WhileItRuns
<1>4. ASSUME NEW b \in BOOLEAN, StartWiFi(b) PROVE IInv'
  <2>1. status' \in Statuses /\ status'.connected = FALSE /\ status'.mode = status.mode
    BY <1>0, <1>4, Zenon DEF StartWiFi, Started, Statuses
  <2>2. ~status.connected /\ pc' \in {"default only", "access point", "join"}
    BY <1>4 DEF StartWiFi, Started
  <2>3. UNCHANGED <<config, radio, millis, began, told>>
    BY <1>4 DEF StartWiFi
  <2> QED BY <2>1, <2>2, <2>3, <1>4 DEF StartWiFi, IInv, WiFiInv, TypeOK, StatusIsTold, WhileItRuns, Statuses
<1>5. CASE AccessPoint \/ Fallback
  BY <1>5, OpenAccessPointKeepsInv DEF AccessPoint, Fallback, IInv, WhileItRuns
<1>6. CASE Join
  <2>1. /\ status' \in Statuses /\ status'.connected = status.connected /\ status'.mode = Station
    BY <1>0, <1>6, Zenon DEF Join, Statuses
  <2>2. ~status.connected
    BY <1>6 DEF Join, IInv, WhileItRuns
  <2> QED BY <1>0, <1>6, <2>1, <2>2 DEF Join, IInv, WiFiInv, TypeOK, StatusIsTold, WhileItRuns, Statuses
<1>7. CASE JoinEnds
  BY <1>7 DEF JoinEnds, IInv, WiFiInv, TypeOK, StatusIsTold, WhileItRuns
<1>8. CASE Joined
  <2>1. /\ status' \in Statuses /\ status'.connected = TRUE /\ status'.mode = status.mode
    BY <1>0, <1>8, Zenon DEF Joined, Statuses
  <2> QED BY <1>0, <1>8, <2>1 DEF Joined, IInv, WiFiInv, TypeOK, StatusIsTold, WhileItRuns, Statuses
<1>9. CASE JoinSucceeded \/ JoinFailed
  <2>1. pc = "joined" /\ pc' \in {"idle", "fallback", "plan retry"}
    BY <1>9 DEF JoinSucceeded, JoinFailed
  <2>2. UNCHANGED <<config, status, radio, millis, began, told>>
    BY <1>9 DEF JoinSucceeded, JoinFailed
  <2>3. pc' # "idle" => ~status.connected
    BY <1>9 DEF JoinSucceeded, JoinFailed
  <2> QED BY <2>1, <2>2, <2>3 DEF IInv, WiFiInv, TypeOK, StatusIsTold, WhileItRuns
<1>10. CASE PlanRetry
  <2>1. /\ status' \in Statuses /\ status'.connected = status.connected /\ status'.mode = status.mode
    BY <1>0, <1>10, Zenon DEF PlanRetry, Statuses
  <2> QED BY <1>0, <1>10, <2>1 DEF PlanRetry, IInv, WiFiInv, TypeOK, StatusIsTold, WhileItRuns, Statuses
<1>11. CASE RestartIfNeeded
  <2>1. CASE RetryCount < status.retries
    <3>1. RetryCount \in Nat /\ status.retries \in 0 .. RetryCount
      BY <1>0 DEF Statuses, WiFiAssumption
    <3> QED BY <2>1, <3>1
  <2>2. CASE ~(RetryCount < status.retries)
    <3>1. Disabled /\ UNCHANGED <<pc, config, millis, began>> /\ pc = "idle"
      BY <1>11, <2>2 DEF RestartIfNeeded
    <3>2. /\ status' \in Statuses /\ status'.connected = FALSE
      BY <1>0, <3>1, Zenon DEF Disabled, Statuses
    <3> QED BY <1>0, <3>1, <3>2 DEF Disabled, IInv, WiFiInv, TypeOK, StatusIsTold, WhileItRuns, Statuses
  <2> QED BY <2>1, <2>2
<1>12. CASE UNCHANGED vars
  BY <1>12 DEF vars, IInv, WiFiInv, TypeOK, StatusIsTold, WhileItRuns
<1> QED BY <1>1, <1>2, <1>3, <1>4, <1>5, <1>6, <1>7, <1>8, <1>9, <1>10, <1>11, <1>12 DEF Next, StartWiFiGoesOn

-------------------------------------------------------------------------------
(* The theorems.                                                             *)

\* The status that everybody can read is what the last event said: after any sequence of
\* starts, failed joins, fallbacks and retries of CWiFiController, whatever the clock is.
THEOREM WiFiIsTold == ASSUME ~StartsAgain PROVE Spec => []WiFiInv
<1>1. Init => IInv
  BY WiFiAssumption, InitInv
<1>2. IInv /\ [Next]_vars => IInv'
  BY WiFiAssumption, StepKeepsInv
<1>3. IInv => WiFiInv
  BY DEF IInv
<1> QED BY <1>1, <1>2, <1>3, PTL DEF Spec
===============================================================================
