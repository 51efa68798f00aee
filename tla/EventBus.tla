------------------------------- MODULE EventBus -------------------------------
(***************************************************************************)
(* The message bus of the runtime, CEventHandler (CEventHandler.cpp).      *)
(*                                                                         *)
(* sendEvent() is synchronous: it calls receiveEvent() of one registered   *)
(* receiver after the other, in the order of registration, and a receiver  *)
(* may send further events before it answers.  What is running at any time *)
(* is therefore a stack of activations of sendEvent(), one stack for each  *)
(* task that executes code of the program (the Arduino loop, the task of   *)
(* the asynchronous TCP library, an interrupt handler).                    *)
(*                                                                         *)
(* One activation is a record (a "frame"):                                 *)
(*    msg      the message number                                          *)
(*    sender   the address given as pSender                                *)
(*    force    bForce of the CAppl::reboot() that sends the message        *)
(*    pass     "first", the loop over the table; "again", the loop over    *)
(*             those who asked to be called again; "done", about to return *)
(*    pos      the next entry of the list that is being walked             *)
(*    cur      the receiver that is executing receiveEvent(), if any       *)
(*    nested   that call has already sent an event of its own              *)
(*    total    nTotalResult                                                *)
(*    again    tCallBackEventReceivers                                     *)
(*    heard    history: who has answered in the first pass                 *)
(*    against  history: who has answered WARN, ERROR or STOP in it         *)
(***************************************************************************)
EXTENDS Integers, Sequences

CONSTANTS
    Receivers,   \* the objects that can be registered
    FirstBase,   \* those whose IMsgEventReceiver is their first base class
    Tasks,       \* the flows of control that send events
    Messages,    \* the message numbers
    Answers,     \* the results a receiver can return
    NoReceiver,  \* nobody is being called
    MaxDepth     \* bound on the nesting of activations

OK    == 0
WARN  == 1
ERROR == 2
STOP  == 99
AGAIN == -9

ASSUME BusAssumption ==
    /\ FirstBase \subseteq Receivers
    /\ NoReceiver \notin Receivers
    /\ Answers \subseteq {OK, WARN, ERROR, STOP, AGAIN}
    /\ MaxDepth \in Nat \ {0}

VARIABLES
    table,   \* m_tReceiverTable.Entries: the receivers in registration order
    stack    \* the activations of sendEvent() of each task, outermost first

busVars == <<table, stack>>

(***************************************************************************)
(* Addresses.  A sender passes its "this" as a void pointer, the bus       *)
(* compares it with the address of the IMsgEventReceiver part of the       *)
(* receiver.  They are the same address only for a class whose first base  *)
(* is IMsgEventReceiver.                                                   *)
(***************************************************************************)
InterfaceOf(r) == <<r, TRUE>>
ThisOf(r)      == IF r \in FirstBase THEN InterfaceOf(r) ELSE <<r, FALSE>>
NoSender       == <<NoReceiver, FALSE>>
Addresses      == (Receivers \cup {NoReceiver}) \X BOOLEAN

Frames ==
    [msg: Messages, sender: Addresses, force: BOOLEAN,
     pass: {"first", "again", "done", "delay"}, pos: Nat \ {0},
     cur: Receivers \cup {NoReceiver}, nested: BOOLEAN,
     total: {OK, WARN, ERROR, STOP}, again: Seq(Receivers),
     heard: SUBSET Receivers, against: SUBSET Receivers]

NewFrame(m, s, force) ==
    [msg |-> m, sender |-> s, force |-> force, pass |-> "first", pos |-> 1,
     cur |-> NoReceiver, nested |-> FALSE, total |-> OK, again |-> <<>>,
     heard |-> {}, against |-> {}]

-------------------------------------------------------------------------------
Busy(t) == stack[t] # <<>>
Top(t)  == stack[t][Len(stack[t])]

Push(t, f)   == stack' = [stack EXCEPT ![t] = Append(@, f)]
Pop(t)       == stack' = [stack EXCEPT ![t] = SubSeq(@, 1, Len(@) - 1)]
SetTop(t, f) == stack' = [stack EXCEPT ![t] = [@ EXCEPT ![Len(@)] = f]]

Called(t)  == Busy(t) /\ Top(t).cur # NoReceiver
Walked(f)  == IF f.pass = "first" THEN table ELSE f.again

\* Mutants of Stopped: every objection ends the loop, or none does.
StoppedByAnyObjection(f) == f.pass = "first" /\ f.total > OK
NeverStopped(f)          == FALSE

Stopped(f) == f.pass = "first" /\ f.total = STOP
Walking(f) == f.pass \in {"first", "again"} /\ f.cur = NoReceiver
More(f)    == f.pos <= Len(Walked(f)) /\ ~Stopped(f)

\* A mutant of Register: the test for a registered receiver is missing.
RegisterTwice(r) ==
    /\ \A t \in Tasks : ~Busy(t)
    /\ table' = Append(table, r)
    /\ UNCHANGED stack

\* registerEventReceiver(): unique by pointer.  Only between broadcasts: a
\* push_back into the vector that a sendEvent() is walking is undefined.
Register(r) ==
    /\ \A t \in Tasks : ~Busy(t)
    /\ \A i \in 1..Len(table) : table[i] # r
    /\ table' = Append(table, r)
    /\ UNCHANGED stack

\* A task that runs no receiver calls sendEvent().
Post(t, m, s) ==
    /\ ~Busy(t)
    /\ Push(t, NewFrame(m, s, FALSE))
    /\ UNCHANGED table

\* The receiver that is being called sends an event itself, at most one in a
\* call and at most MaxDepth deep.
Nest(t, m, s) ==
    /\ Called(t)
    /\ ~Top(t).nested
    /\ Len(stack[t]) < MaxDepth
    /\ LET caller == [Top(t) EXCEPT !.nested = TRUE]
       IN  stack' = [stack EXCEPT ![t] =
                       Append([@ EXCEPT ![Len(@)] = caller], NewFrame(m, s, FALSE))]
    /\ UNCHANGED table

\* A mutant of Deliver: the sender is skipped before the position advances.
DeliverStuckAtSender(t) ==
    /\ Busy(t)
    /\ Walking(Top(t))
    /\ More(Top(t))
    /\ LET f == Top(t)
           r == Walked(f)[f.pos]
           skipped == f.pass = "first" /\ f.sender = InterfaceOf(r)
       IN  SetTop(t, IF skipped THEN f
                     ELSE [f EXCEPT !.pos = @ + 1, !.nested = FALSE, !.cur = r])
    /\ UNCHANGED table

\* The next entry of the walked list: in the first pass it is skipped when it
\* is the sender, otherwise its receiveEvent() is entered.
Deliver(t) ==
    /\ Busy(t)
    /\ Walking(Top(t))
    /\ More(Top(t))
    /\ LET f == Top(t)
           r == Walked(f)[f.pos]
           skipped == f.pass = "first" /\ f.sender = InterfaceOf(r)
       IN  SetTop(t, [f EXCEPT !.pos    = @ + 1,
                               !.nested = FALSE,
                               !.cur    = IF skipped THEN NoReceiver ELSE r])
    /\ UNCHANGED table

\* What the activation f does with the answer a of the receiver it called.
Answered(f, a) ==
    LET first == f.pass = "first"
    IN  [f EXCEPT !.cur     = NoReceiver,
                  !.again   = IF first /\ a = AGAIN THEN Append(@, f.cur) ELSE @,
                  !.total   = IF a > @ THEN a ELSE @,
                  !.heard   = @ \cup {f.cur},
                  !.against = IF first /\ a > OK THEN @ \cup {f.cur} ELSE @]

Answer(t, a) ==
    /\ Called(t)
    /\ SetTop(t, Answered(Top(t), a))
    /\ UNCHANGED table

\* The end of the first loop: those who asked for it are called again only
\* when the result is still OK.
EndFirst(t) ==
    /\ Busy(t)
    /\ LET f == Top(t)
       IN  /\ f.pass = "first" /\ Walking(f) /\ ~More(f)
           /\ SetTop(t, IF f.total = OK
                        THEN [f EXCEPT !.pass = "again", !.pos = 1]
                        ELSE [f EXCEPT !.pass = "done"])
    /\ UNCHANGED table

EndAgain(t) ==
    /\ Busy(t)
    /\ LET f == Top(t)
       IN  /\ f.pass = "again" /\ Walking(f) /\ ~More(f)
           /\ SetTop(t, [f EXCEPT !.pass = "done"])
    /\ UNCHANGED table

\* sendEvent() returns nTotalResult; every caller but reboot() ignores it.
Return(t) ==
    /\ Busy(t)
    /\ Top(t).pass = "done"
    /\ Pop(t)
    /\ UNCHANGED table

-------------------------------------------------------------------------------
(* The bus by itself: every receiver is a module that may answer anything.   *)
Init ==
    /\ table = <<>>
    /\ stack = [t \in Tasks |-> <<>>]

Step(t) ==
    \/ \E m \in Messages, r \in Receivers : Post(t, m, ThisOf(r))
    \/ \E m \in Messages : Post(t, m, NoSender)
    \/ \E m \in Messages : Called(t) /\ Nest(t, m, ThisOf(Top(t).cur))
    \/ Deliver(t)
    \/ \E a \in Answers : Answer(t, a)
    \/ EndFirst(t)
    \/ EndAgain(t)
    \/ Return(t)

Next ==
    \/ \E r \in Receivers : Register(r)
    \/ \E t \in Tasks : Step(t)

\* A task that is inside sendEvent() keeps running, and a receiver answers:
\* receiveEvent() is ordinary code that returns.
Progress(t) ==
    \/ Deliver(t)
    \/ \E a \in Answers : Answer(t, a)
    \/ EndFirst(t)
    \/ EndAgain(t)
    \/ Return(t)

Fairness == \A t \in Tasks : WF_busVars(Progress(t))

Spec     == Init /\ [][Next]_busVars
FairSpec == Spec /\ Fairness

-------------------------------------------------------------------------------
TypeOK ==
    /\ table \in Seq(Receivers)
    /\ stack \in [Tasks -> Seq(Frames)]

Registered == {table[i] : i \in 1..Len(table)}

\* Every activation of every task.
AllFrames == UNION {{stack[t][i] : i \in 1..Len(stack[t])} : t \in Tasks}

\* When a broadcast is over, either somebody answered STOP, or each registered
\* receiver but the sender itself has been called - also when others answered
\* WARN or ERROR, and whatever was sent or registered in between.
NobodyIsMissed ==
    \A f \in AllFrames :
        f.pass \in {"again", "done"} =>
            \/ f.total = STOP
            \/ \A r \in Registered : f.sender # InterfaceOf(r) => r \in f.heard

\* The receiver at position i has objected, and nobody after it has been called.
StoppedBy(f, i) ==
    /\ table[i] \in f.against
    /\ \A j \in (i + 1)..Len(table) : table[j] \notin f.heard

IsStopped(f) == \E i \in 1..Len(table) : StoppedBy(f, i)

\* STOP_PROCESSING ends the broadcast: whoever comes after the receiver that
\* answered it has not been called.
NobodyAfterStop ==
    \A f \in AllFrames :
        f.pass = "done" /\ f.total = STOP /\ f.against # {} => IsStopped(f)

\* A receiver is called a second time only after everybody answered and nobody
\* with WARN, ERROR or STOP, and only if it asked for it.
SecondCallNeedsConsent ==
    \A f \in AllFrames :
        f.pass = "again" =>
            /\ f.against = {}
            /\ \A r \in Registered : f.sender # InterfaceOf(r) => r \in f.heard
            /\ \A i \in 1..Len(f.again) : f.again[i] \in f.heard

\* The result a sender gets is OK exactly when nobody objected, as long as the
\* second pass is not over.
ResultTellsObjection ==
    \A f \in AllFrames :
        /\ f.against # {} => f.total # OK
        /\ f.pass = "first" /\ f.total # OK => f.against # {}

\* "The sender does not receive its own event." (CEventHandler.cpp)
SenderIsNotCalled ==
    \A f \in AllFrames : f.cur # NoReceiver => f.sender[1] # f.cur

\* Every broadcast ends: the stack of a task is empty again and again.
BroadcastsEnd == \A t \in Tasks : Busy(t) ~> ~Busy(t)

-------------------------------------------------------------------------------
(* The inductive invariant behind these properties (BusProofs).              *)

Distinct == \A i, j \in 1..Len(table) : table[i] = table[j] => i = j

\* The receiver at position j of the table needs not be called any more.
Settled(f, j) == f.sender = InterfaceOf(table[j]) \/ table[j] \in f.heard

\* The first pass has settled the positions before pos, except for the
\* receiver that is executing right now.
FirstPassOK(f) ==
    /\ f.pos <= Len(table) + 1
    /\ f.cur # NoReceiver =>
          /\ f.pos > 1
          /\ f.cur = table[f.pos - 1]
          /\ f.cur \notin f.heard
    /\ \A r \in f.heard : \E j \in 1..(f.pos - 1) : r = table[j]
    /\ \A j \in 1..(f.pos - 1) : Settled(f, j) \/ f.cur = table[j]
    /\ f.against # {} <=> f.total # OK
    /\ f.total = STOP => f.cur = NoReceiver

AllSettled(f) == \A j \in 1..Len(table) : Settled(f, j)

FrameOK(f) ==
    /\ f.cur # NoReceiver => f.pass \in {"first", "again"}
    /\ f.against # {} => f.total # OK
    /\ f.against # {} /\ f.total = STOP => IsStopped(f)
    /\ f.pass = "first" => FirstPassOK(f)
    /\ f.pass = "again" => f.against = {} /\ AllSettled(f)
    /\ f.pass # "first" => f.total = STOP \/ AllSettled(f)
    /\ \A i \in 1..Len(f.again) : f.again[i] \in f.heard

BusInv ==
    /\ TypeOK
    /\ Distinct
    /\ \A t \in Tasks : \A i \in 1..Len(stack[t]) : FrameOK(stack[t][i])
===============================================================================
