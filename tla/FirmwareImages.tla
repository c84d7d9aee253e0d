--------------------------- MODULE FirmwareImages ---------------------------
(***************************************************************************)
(* The firmware of the gateway and of the RCP together: updates of the two *)
(* exclude each other when they are posted, and what restarts the gateway  *)
(* interrupts an update of the RCP.                                        *)
(***************************************************************************)
EXTENDS GatewayImage, RcpImage

CONSTANTS
    MaxUpdates,    \* bounds of the model: updates that are posted,
    MaxPowerCuts   \* and power cuts

VARIABLES updates, cuts  \* what may still happen

vars == <<gatewayVars, rcpVars, faults, updates, cuts>>

ASSUME FirmwareBounds == {MaxUpdates, MaxPowerCuts} \subseteq Nat

Init ==
    /\ GatewayInit /\ RcpInit
    /\ faults = MaxFaults /\ updates = MaxUpdates /\ cuts = MaxPowerCuts

MayPost == updates > 0 /\ updates' = updates - 1 /\ UNCHANGED cuts

\* post_ota_start
PostOtaStart ==
    /\ ~RcpIsBusy
    /\ PostOta /\ MayPost
    /\ UNCHANGED rcpVars

\* post_rcp_update_start
PostRcpUpdateStart ==
    /\ IsStarted("web") /\ ~IsBusy
    /\ PostRcp /\ MayPost
    /\ UNCHANGED gatewayVars

Main == AppMain /\ UNCHANGED <<rcpVars, updates, cuts>>
Ota == OtaWorker /\ UNCHANGED <<rcpVars, updates, cuts>>
Rcp == RcpStep /\ UNCHANGED <<gatewayVars, updates, cuts>>

\* hal_ota_platform_schedule_restart, after the delay: the RCP has its own supply
Restart ==
    /\ IsAt("restart")
    /\ Reload
    /\ RcpForgets(rcp)
    /\ UNCHANGED <<faults, updates, cuts>>

\* The power is cut for both
PowerCut ==
    /\ cuts > 0 /\ cuts' = cuts - 1
    /\ Reload
    /\ RcpForgets([rcp EXCEPT !.loader = rcp.image = None])
    /\ UNCHANGED <<faults, updates>>

Next == PostOtaStart \/ PostRcpUpdateStart \/ Main \/ Ota \/ Rcp \/ Restart \/ PowerCut

Spec == Init /\ [][Next]_vars

\* app_main and the two workers go on
FairSpec == Spec /\ WF_vars(Main) /\ WF_vars(Ota) /\ WF_vars(Rcp) /\ WF_vars(Restart)

-----------------------------------------------------------------------------
(* Properties *)

\* Every variable holds a value of its type, within the bounds
TypeOK == GatewayTypeOK /\ RcpTypeOK /\ updates \in 0..MaxUpdates /\ cuts \in 0..MaxPowerCuts

\* Whatever fails, the gateway keeps an image to boot and confirms none that does not start
ImagesAreSafe == TypeOK /\ FallbackKept /\ ConfirmedStarts

\* What the worker of the RCP tells and leaves behind is so
RcpIsSafe == OkMeansInstalled /\ LinesReleased

\* No image is staged but one that was asked for and that may follow the one that runs
StagedIsWanted == StagedAsAsked /\ NoUnaskedDowngrade

\* An update that was accepted comes to an end, whatever fails (process_request)
UpdatesEnd == (IsBusy ~> ~IsBusy) /\ (RcpIsBusy ~> ~RcpIsBusy)

\* A new image does not stay unconfirmed, unless app_main has stopped before
\* (confirm_pending_ota_image)
PendingEnds == <>[](states[running] = "pending" => halted)

\* Neither an update nor a trial of a new image stays under way
FirmwareSettles == UpdatesEnd /\ PendingEnds

\* Updates exclude each other (RCP.md:47): the restart that ends an update of the gateway
\* does not interrupt one of the RCP.  It may: the gateway is no longer busy when it waits
\* for its restart
RestartSparesRcp == [][IsAt("restart") /\ ota' = None => ~RcpIsBusy]_vars
=============================================================================
