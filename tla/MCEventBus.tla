------------------------------ MODULE MCEventBus ------------------------------
(* Instances of EventBus for TLC.                                            *)
EXTENDS EventBus, TLC

CONSTANTS appl, mod1, mod2, loop, async

\* appl and mod1 inherit IMsgEventReceiver behind other bases, mod2 first.
ThreeReceivers == {appl, mod1, mod2}
OnlyMod2       == {mod2}
AllAnswers     == {OK, WARN, STOP, AGAIN}
===============================================================================
