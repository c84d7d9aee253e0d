------------------------------ MODULE MCDevices ------------------------------
EXTENDS Devices

CONSTANTS d1, d2

MCAddrs == {d1, d2}
MCKinds == {"link", "occupancy"}
MCReadings == {FALSE, TRUE}
MCTimes == 0 .. (ClockRange - 1)

MCHeard == [a \in MCAddrs |->
    IF a = d1 THEN {"joined", "left", "interviewed", "bound", "configured", "telemetry",
                    "occupancy", "removal"}
    ELSE {"joined", "occupancy"}]
=============================================================================
