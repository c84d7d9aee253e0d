--------------------------- MODULE FirmwareFaults ---------------------------
(* The budget of faults that updates of the gateway and of the RCP share: a step of either may
   fail as long as some are left *)
EXTENDS Integers

CONSTANTS
    None,      \* no image, no update, no expectation
    MaxFaults  \* bound of the model: steps that fail though nothing is wrong with the image

ASSUME FaultBounds == MaxFaults \in Nat

VARIABLE faults  \* steps that may still fail

MayFail == faults > 0 /\ faults' = faults - 1
=============================================================================
