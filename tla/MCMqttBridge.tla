---------------------------- MODULE MCMqttBridge ----------------------------
(* One place for a device, which two devices take turns in *)
EXTENDS MqttBridge

CONSTANTS d1, d2, warm

OneDevice == {[d \in {d1, d2} |-> IF d = d1 THEN [power |-> FALSE, reading |-> NoReading] ELSE None]}
=============================================================================
