---------------------------- MODULE UpdateQueue -----------------------------
(***************************************************************************)
(* What a manager of updates promises: requests are carried out one after  *)
(* the other, each once, and none is accepted while another one waits or   *)
(* runs.  A restart forgets them all.                                      *)
(***************************************************************************)

CONSTANT Requests

VARIABLE phase      \* of each request

Init == phase = [r \in Requests |-> "new"]

Accept(r) ==
    /\ phase[r] = "new"
    /\ \A other \in Requests : phase[other] \notin {"queued", "running"}
    /\ phase' = [phase EXCEPT ![r] = "queued"]

Start(r) ==
    /\ phase[r] = "queued"
    /\ phase' = [phase EXCEPT ![r] = "running"]

End(r) ==
    /\ phase[r] = "running"
    /\ phase' = [phase EXCEPT ![r] = "ended"]

Restart == phase' = [r \in Requests |-> "new"]

Next == Restart \/ \E r \in Requests : Accept(r) \/ Start(r) \/ End(r)

Spec == Init /\ [][Next]_phase

=============================================================================
