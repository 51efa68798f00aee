-------------------------------- MODULE MCWiFi --------------------------------
(* Instances of WiFi for TLC: millis() starts over after ten steps.           *)
EXTENDS WiFi, TLC
===============================================================================
