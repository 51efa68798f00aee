------------------------------ MODULE MCDelayUse ------------------------------
(* Instances of DelayUse for TLC: millis() wraps after eight milliseconds.    *)
EXTENDS DelayUse, TLC
===============================================================================
