--------------------------- MODULE MCMatterBridge ---------------------------
(* One place for a device, which two devices take in turns: one with an endpoint of its
   own, and one without *)
EXTENDS MatterBridge

CONSTANTS d1, d2, v1, v2

SomeClasses == <<"temperature", "occupancy", "contact">>
ByClass(class) == CASE class = "temperature" -> 10
                    [] class = "occupancy" -> 11
                    [] class = "contact" -> 12
SomeMap == [d \in {d1, d2} |-> IF d = d1 THEN 50 ELSE 0]
ValuesOf(class) == IF class = "temperature" THEN {v1, v2} ELSE {v1}
Nobody == {[d \in {d1, d2} |-> None]}
=============================================================================
