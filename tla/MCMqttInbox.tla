----------------------------- MODULE MCMqttInbox -----------------------------
(* Instances of MqttInbox for TLC.                                           *)
EXTENDS MqttInbox, TLC

CONSTANTS empty, short, long

MCMessages == {empty, short, long}
MCTotal == empty :> 0 @@ short :> 2 @@ long :> 3
===============================================================================
