--------------------------- MODULE MCMqttConnection ---------------------------
(* Instances of MqttConnection for TLC: millis() starts over after seven ticks. *)
EXTENDS MqttConnection, TLC
===============================================================================
