------------------------------ MODULE ApplReboot ------------------------------
(***************************************************************************)
(* The life of a device between two restarts, as far as the application    *)
(* object decides it: CAppl on its own message bus (CAppl.cpp), with the   *)
(* reboot protocol                                                         *)
(*                                                                         *)
(*   MSG_REBOOT_REQUEST   asks every module; CAppl itself, the first entry *)
(*                        of the table, answers CALL_AGAIN_WHEN_ALL_OK and *)
(*                        reboots when it is called again;                 *)
(*   MSG_APPL_SHUTDOWN    announces the reboot, then delay(), then         *)
(*                        ESP.restart(), which never returns.              *)
(*                                                                         *)
(* Several tasks run this code: the loop, the task in which the web server *)
(* and the MQTT client call back, and interrupt handlers.  They share      *)
(* m_isRebootPending without a lock; CAppl tests it and sets it in two     *)
(* steps.                                                                  *)
(***************************************************************************)
EXTENDS EventBus

CONSTANTS
    Appl,        \* the application object
    MaxRequests  \* bound on the reboot requests between two restarts

Loop     == "loop"      \* MSG_APPL_LOOP, and any other message
Reboot   == "reboot"    \* MSG_REBOOT_REQUEST
Shutdown == "shutdown"  \* MSG_APPL_SHUTDOWN

ASSUME ApplAssumption ==
    /\ Appl \in Receivers
    /\ Appl \notin FirstBase
    /\ Messages = {Loop, Reboot, Shutdown}
    /\ MaxRequests \in Nat

VARIABLES
    m_isRebootPending,
    arming,    \* the tasks in which CAppl has seen the flag FALSE and not yet set it
    requests   \* history: reboot requests sent since the start, at most MaxRequests

vars == <<table, stack, m_isRebootPending, arming, requests>>

Modules    == Receivers \ {Appl}
applVars   == <<m_isRebootPending, arming, requests>>

\* The state after power on: the constructor of CAppl has registered it.
ApplInit ==
    /\ table = <<Appl>>
    /\ stack = [t \in Tasks |-> <<>>]
    /\ m_isRebootPending = FALSE
    /\ arming = {}
    /\ requests = 0

-------------------------------------------------------------------------------
(* What the program sends from outside of a receiver.                        *)

RegisterModule(r) == Register(r) /\ UNCHANGED applVars

\* CAppl::dispatch(): the Arduino loop() tells everybody.
DispatchLoop(t) == Post(t, Loop, ThisOf(Appl)) /\ UNCHANGED applVars

\* A finished firmware upload, a button or a module asks for a reboot.
RequestReboot(t, s) ==
    /\ requests < MaxRequests
    /\ Post(t, Reboot, s)
    /\ requests' = requests + 1
    /\ UNCHANGED <<m_isRebootPending, arming>>

\* The program calls Appl.reboot() itself.
CallReboot(t, bForce) ==
    /\ ~Busy(t)
    /\ Push(t, NewFrame(Shutdown, ThisOf(Appl), bForce))
    /\ UNCHANGED <<table, applVars>>

-------------------------------------------------------------------------------
(* CAppl::receiveEvent().                                                    *)

ApplIsCalled(t, m) == Called(t) /\ Top(t).cur = Appl /\ Top(t).msg = m

ApplIgnores(t) ==
    /\ Called(t)
    /\ Top(t).cur = Appl
    /\ Top(t).msg # Reboot
    /\ Answer(t, OK)
    /\ UNCHANGED applVars

\* A mutant of ApplFindsNonePending: the flag is set without leaving the call,
\* and the test for a pending request follows.
ApplFallsThrough(t) ==
    /\ ApplIsCalled(t, Reboot)
    /\ ~m_isRebootPending
    /\ m_isRebootPending' = TRUE
    /\ UNCHANGED <<busVars, arming, requests>>

\* if(!m_isRebootPending): the test ...
ApplFindsNonePending(t) ==
    /\ ApplIsCalled(t, Reboot)
    /\ t \notin arming
    /\ ~m_isRebootPending
    /\ arming' = arming \cup {t}
    /\ UNCHANGED <<busVars, m_isRebootPending, requests>>

\* ... and the assignment, with the request to be called again.
ApplDefers(t) ==
    /\ t \in arming
    /\ m_isRebootPending' = TRUE
    /\ arming' = arming \ {t}
    /\ Answer(t, AGAIN)
    /\ UNCHANGED requests

\* A request that finds one pending: reboot(nDelay, true).
ApplReboots(t) ==
    /\ ApplIsCalled(t, Reboot)
    /\ t \notin arming
    /\ m_isRebootPending
    /\ Push(t, NewFrame(Shutdown, ThisOf(Appl), TRUE))
    /\ UNCHANGED <<table, applVars>>

-------------------------------------------------------------------------------
(* The other receivers: modules of the library and of the user.              *)

ModuleIsCalled(t) == Called(t) /\ Top(t).cur # Appl

ModuleAnswers(t, a) == ModuleIsCalled(t) /\ Answer(t, a) /\ UNCHANGED applVars

\* A module asks for a reboot while it handles a message: the web socket when
\* a command of the browser is dispatched in MSG_APPL_LOOP.
ModuleRequestsReboot(t) ==
    /\ ModuleIsCalled(t)
    /\ requests < MaxRequests
    /\ Nest(t, Reboot, ThisOf(Top(t).cur))
    /\ requests' = requests + 1
    /\ UNCHANGED <<m_isRebootPending, arming>>

-------------------------------------------------------------------------------
(* The bus, and reboot() after its broadcast.                                *)

BusSteps(t) ==
    /\ Deliver(t) \/ EndFirst(t) \/ EndAgain(t)
    /\ UNCHANGED applVars

ReturnToSender(t) ==
    /\ Busy(t)
    /\ Top(t).msg # Shutdown
    /\ Return(t)
    /\ UNCHANGED applVars

\* Mutants: the result of the broadcast is not tested, or bForce is not.
RebootGoesOnAnyway(t) ==
    /\ Busy(t)
    /\ LET f == Top(t)
       IN  /\ f.msg = Shutdown /\ f.pass = "done"
           /\ SetTop(t, [f EXCEPT !.pass = "delay"])
    /\ UNCHANGED <<table, applVars>>

RebootIsDroppedDespiteForce(t) ==
    /\ Busy(t)
    /\ Top(t).msg = Shutdown
    /\ Top(t).total # OK
    /\ Return(t)
    /\ UNCHANGED applVars

\* if(nResult == OK || bForce): delay() before the restart ...
RebootGoesOn(t) ==
    /\ Busy(t)
    /\ LET f == Top(t)
       IN  /\ f.msg = Shutdown /\ f.pass = "done"
           /\ f.total = OK \/ f.force
           /\ SetTop(t, [f EXCEPT !.pass = "delay"])
    /\ UNCHANGED <<table, applVars>>

\* ... otherwise reboot() returns.
RebootIsDropped(t) ==
    /\ Busy(t)
    /\ Top(t).msg = Shutdown
    /\ Top(t).total # OK /\ ~Top(t).force
    /\ Return(t)
    /\ UNCHANGED applVars

\* ESP.restart(): all tasks end, the program starts over.
Restart(t) ==
    /\ Busy(t)
    /\ Top(t).pass = "delay"
    /\ table' = <<Appl>>
    /\ stack' = [u \in Tasks |-> <<>>]
    /\ m_isRebootPending' = FALSE
    /\ arming' = {}
    /\ requests' = 0

-------------------------------------------------------------------------------
ApplSteps(t) ==
    ApplIgnores(t) \/ ApplFindsNonePending(t) \/ ApplDefers(t) \/ ApplReboots(t)

RebootSteps(t) ==
    RebootGoesOn(t) \/ RebootIsDropped(t) \/ Restart(t)

\* The code of a task that is inside sendEvent() goes on.
Runs(t) ==
    \/ BusSteps(t)
    \/ ApplSteps(t)
    \/ \E a \in Answers : ModuleAnswers(t, a)
    \/ ReturnToSender(t)
    \/ RebootSteps(t)

Sends(t) ==
    \/ DispatchLoop(t)
    \/ \E r \in Modules : RequestReboot(t, ThisOf(r))
    \/ RequestReboot(t, NoSender)
    \/ \E bForce \in BOOLEAN : CallReboot(t, bForce)
    \/ ModuleRequestsReboot(t)

ApplNext ==
    \/ \E r \in Modules : RegisterModule(r)
    \/ \E t \in Tasks : Sends(t) \/ Runs(t)

ApplSpec == ApplInit /\ [][ApplNext]_vars

\* Every task is scheduled: the ESP32 runs tasks preemptively, on the ESP8266
\* delay() and the return to loop() yield.
ApplFairSpec == ApplSpec /\ \A t \in Tasks : WF_vars(Runs(t))
-------------------------------------------------------------------------------
ApplTypeOK ==
    /\ TypeOK
    /\ m_isRebootPending \in BOOLEAN
    /\ arming \subseteq Tasks
    /\ requests \in 0..MaxRequests

\* The activation below frame i of task t is the reboot request that made CAppl
\* announce the shutdown which frame i sends.
DemandedBy(t, i) ==
    /\ i > 1
    /\ stack[t][i].msg = Shutdown
    /\ stack[t][i - 1].msg = Reboot
    /\ stack[t][i - 1].cur = Appl

\* Everybody has been asked by this request, and nobody has objected.
Unanimous(f) ==
    /\ f.pass = "again"
    /\ f.against = {}
    /\ \A r \in Registered : f.sender # InterfaceOf(r) => r \in f.heard

\* The first reboot request after a start makes the device restart only when
\* each registered receiver has been asked and none has answered WARN, ERROR
\* or STOP - whatever the tasks, the nesting and the modules do meanwhile.
FirstRequestIsUnanimous ==
    requests = 1 =>
        \A t \in Tasks : \A i \in 1..Len(stack[t]) :
            DemandedBy(t, i) => Unanimous(stack[t][i - 1])

\* In the delay before ESP.restart() every registered receiver has been told
\* MSG_APPL_SHUTDOWN, unless one of them answered STOP to it; and a reboot()
\* that was not forced has got there without any objection.
RestartIsAnnounced ==
    \A f \in AllFrames :
        f.pass = "delay" =>
            /\ f.msg = Shutdown
            /\ f.total = STOP \/ Registered \subseteq f.heard
            /\ ~f.force => f.total = OK /\ f.against = {}

\* "So a module can stop a reboot if it is currently not the best time to do
\* so." (README.md): no request leads to a shutdown which not all were asked.
ModuleCanStopReboot ==
    \A t \in Tasks : \A i \in 1..Len(stack[t]) :
        DemandedBy(t, i) => Unanimous(stack[t][i - 1])

\* A request to which nobody objected leads to a restart: only ESP.restart()
\* takes m_isRebootPending back.
AgreedRequestRestarts ==
    (\E f \in AllFrames : f.msg = Reboot /\ f.pass = "again") ~> ~m_isRebootPending

-------------------------------------------------------------------------------
(* The inductive invariant behind FirstRequestIsUnanimous (BusProofs).        *)

Requests(t) == {i \in 1..Len(stack[t]) : stack[t][i].msg = Reboot}

\* CAppl is in the middle of arming only while it handles a request.
ArmingOK == \A t \in arming : ApplIsCalled(t, Reboot)

\* Before the first request no activation carries one and none is pending.
NoneBeforeFirst ==
    requests = 0 => ~m_isRebootPending /\ \A t \in Tasks : Requests(t) = {}

\* The first request has one activation; once it is pending, CAppl has deferred
\* that very activation; and a shutdown on top of it comes in its second pass.
FirstIsAlone ==
    requests = 1 =>
        \A t, u \in Tasks : \A i \in Requests(t), j \in Requests(u) : t = u /\ i = j

FirstIsDeferred ==
    requests = 1 /\ m_isRebootPending =>
        \A t \in Tasks : \A i \in Requests(t) : Appl \in stack[t][i].heard

FirstDemandsLate ==
    requests = 1 =>
        \A t \in Tasks : \A i \in 1..Len(stack[t]) :
            DemandedBy(t, i) => stack[t][i - 1].pass = "again"

RebootInv ==
    /\ BusInv
    /\ ApplTypeOK
    /\ ArmingOK
    /\ NoneBeforeFirst
    /\ FirstIsAlone
    /\ FirstIsDeferred
    /\ FirstDemandsLate

\* Behind RestartIsAnnounced: only CAppl sends the shutdown, and a reboot() is in
\* its delay only if it was forced or its broadcast has ended with OK.
AnnouncementOK(f) ==
    /\ f.msg = Shutdown => f.sender = ThisOf(Appl)
    /\ f.pass = "delay" => f.msg = Shutdown /\ (f.force \/ f.total = OK)

AnnouncementsOK == \A t \in Tasks : \A i \in 1..Len(stack[t]) : AnnouncementOK(stack[t][i])
===============================================================================
