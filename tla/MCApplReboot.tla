----------------------------- MODULE MCApplReboot -----------------------------
(* Instances of ApplReboot for TLC: two tasks that race with one module       *)
(* between them, and one task with two modules.                               *)
EXTENDS ApplReboot, TLC

CONSTANTS appl, mod1, mod2, loop, async

OneModule   == {appl, mod1}
TwoModules  == {appl, mod1, mod2}
NoFirstBase == {}
OnlyMod2    == {mod2}
AllMessages == {Loop, Reboot, Shutdown}
AllAnswers  == {OK, WARN, STOP, AGAIN}
YesWarnStop == {OK, WARN, STOP}
===============================================================================
