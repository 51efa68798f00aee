------------------------------- MODULE Mailbox -------------------------------
(***************************************************************************)
(* What an inbox promises to the two tasks that share it: the task of the   *)
(* network puts a complete message behind those that wait, the loop task    *)
(* takes the one that has waited longest, and whatever waits is taken in    *)
(* the end.  MqttInbox and WebSocketInbox implement it.                     *)
(***************************************************************************)
EXTENDS Integers, Sequences

VARIABLES
    waiting,  \* the messages that have arrived and were not taken
    taken     \* the messages that were taken, the first one first

Init == waiting = <<>> /\ taken = <<>>

Put(message) ==
    /\ waiting' = Append(waiting, message)
    /\ UNCHANGED taken

Take ==
    /\ waiting # <<>>
    /\ taken' = Append(taken, Head(waiting))
    /\ waiting' = Tail(waiting)

\* What is put is any message: the one that stands last afterwards.
PutAny == waiting' # <<>> /\ Put(waiting'[Len(waiting')])

Next == PutAny \/ Take

Spec == Init /\ [][Next]_<<waiting, taken>>

\* Weak fairness of Take, with "a message waits" written for ENABLED Take.
Fairness == []<>(waiting = <<>>) \/ []<><<Take>>_<<waiting, taken>>

FairSpec == Spec /\ Fairness
===============================================================================
