------------------------------ MODULE RcpImage ------------------------------
(***************************************************************************)
(* The firmware of an external radio co-processor, RCP, behind a UART with *)
(* a BOOT and a RESET line: one update of it, from the preparation to the  *)
(* recovery (hal_rcp.c, hal_rcp_uart_backend.c).                           *)
(*                                                                         *)
(* The RCP itself is external: when it leaves reset it enters its loader   *)
(* if BOOT is active or its image is not whole; in the loader it writes    *)
(* what it receives.  An image is [version]; it stands for its digest too. *)
(*                                                                         *)
(* A request is [digest, version], what the new image is expected to have, *)
(* None if that is not to be checked.  What the server sends need not be   *)
(* whole: a connection that is closed and an error page end like an image. *)
(***************************************************************************)
EXTENDS FirmwareFaults, Sequences

CONSTANTS
    RcpImages,
    RcpRequests,
    RcpFactory,  \* the image that the RCP has at the start
    HasReset,    \* whether RESET is wired, CONFIG_ZGW_RCP_UART_RESET_GPIO
    HasProbe     \* whether the stack can tell the version of the RCP

VARIABLES
    rcp,        \* the RCP and its lines: [boot, reset, loader, image]
    uart,       \* the driver: "absent", "ready", or "partial": installed without parameters
    session,    \* s_session_prepared
    rcpUpdate,  \* the update: [request, served, stage], or None
    rcpResult   \* of the last update, [status, stage, request], or None

rcpVars == <<rcp, uart, session, rcpUpdate, rcpResult>>

ASSUME RcpBounds ==
    /\ {HasReset, HasProbe} \subseteq BOOLEAN
    /\ RcpFactory \in RcpImages /\ None \notin RcpImages
    /\ \A request \in RcpRequests : request.digest \in RcpImages \cup {None}

RcpInit ==
    /\ rcp = [boot |-> FALSE, reset |-> FALSE, loader |-> FALSE, image |-> RcpFactory]
    /\ uart = "absent" /\ session = FALSE
    /\ rcpUpdate = None /\ rcpResult = None

-----------------------------------------------------------------------------
(* The lines *)

SetBoot(device, level) == [device EXCEPT !.boot = level]

\* The RCP starts when RESET is let go
SetReset(device, level) ==
    IF HasReset
    THEN [device EXCEPT !.reset = level,
                        !.loader = IF device.reset /\ ~level
                                   THEN device.boot \/ device.image = None ELSE @]
    ELSE device

\* What sets several lines is the sequence of what the RCP is before each of them and after all
Final(devices) == devices[Len(devices)]
CutShort(devices) == {devices[i] : i \in 1..(Len(devices) - 1)}

\* configure_optional_output_gpio for both lines, enter_update_mode
EnterUpdateMode(device) ==
    LET bootReady == SetBoot(device, FALSE)
        resetReady == SetReset(bootReady, FALSE)
        bootHeld == SetBoot(resetReady, TRUE)
        resetHeld == SetReset(bootHeld, TRUE)
        started == SetReset(resetHeld, FALSE)
    IN <<device, bootReady, resetReady, bootHeld, resetHeld, started, SetBoot(started, FALSE)>>

\* hal_rcp_stack_recover_after_update for an update that was not applied
ReleaseLines(device) == SetReset(SetBoot(device, FALSE), FALSE)

\* Variant for the runs' mutants: the RCP is not reset into its new image
RebootTargetSoftly(device) == <<device, SetBoot(device, FALSE), ReleaseLines(device)>>

\* reboot_target_after_update
RebootTarget(device) ==
    LET bootFree == SetBoot(device, FALSE)
        resetHeld == SetReset(bootFree, TRUE)
    IN IF HasReset THEN <<device, bootFree, resetHeld, SetReset(resetHeld, FALSE)>>
                   ELSE <<device>>

-----------------------------------------------------------------------------
(* An update: hal_rcp_perform_https_update, a step of the worker each *)

RcpIsAt(stage) == rcpUpdate # None /\ rcpUpdate.stage = stage
RcpIsBusy == rcpUpdate # None

Offered == [image : RcpImages, whole : BOOLEAN]

RcpStages == {"queued", "prepared", "open", "writing", "written", "verified"}

\* hal_rcp_https_status_t, less what no step of the model ends with
RcpStatuses ==
    {"ok", "transport_failed", "verify_failed", "apply_failed", "probe_failed", "recovery_failed"}

ASSUME NoneIsNoUpdate ==
    None \notin [request : RcpRequests, served : Offered, stage : RcpStages]
                   \cup [status : RcpStatuses, stage : 0..5, request : RcpRequests]

RcpGoTo(stage) == rcpUpdate' = [rcpUpdate EXCEPT !.stage = stage] /\ UNCHANGED rcpResult

RcpEndWith(status, stage) ==
    /\ rcpUpdate' = None
    /\ rcpResult' = [status |-> status, stage |-> stage, request |-> rcpUpdate.request]

\* cleanup: the lines are released, whatever the update has come to
Abandon(device, status, stage) ==
    /\ rcp' = ReleaseLines(device)
    /\ session' = FALSE
    /\ RcpEndWith(status, stage)

\* enqueue_request of the RCP manager, build_rcp_transport_request
PostRcp ==
    /\ rcpUpdate = None
    /\ \E request \in RcpRequests, served \in Offered :
          rcpUpdate' = [request |-> request, served |-> served, stage |-> "queued"]
    /\ rcpResult' = None
    /\ UNCHANGED <<rcp, uart, session, faults>>

\* hal_rcp_stack_prepare_for_update
Prepare ==
    /\ RcpIsAt("queued") /\ uart # "partial"
    /\ uart' = "ready"
    /\ rcp' = Final(EnterUpdateMode(rcp))
    /\ session' = TRUE
    /\ RcpGoTo("prepared")
    /\ UNCHANGED faults

\* The driver fails: once it is installed without parameters it cannot be installed again
DriverFails ==
    /\ RcpIsAt("queued")
    /\ \/ uart = "partial" /\ UNCHANGED <<uart, faults>>
       \/ uart = "absent" /\ MayFail /\ uart' \in {"absent", "partial"}
    /\ RcpEndWith("recovery_failed", 0)
    /\ UNCHANGED <<rcp, session>>

\* A line fails: those before it stay as they are
LineFails ==
    /\ RcpIsAt("queued") /\ uart # "partial" /\ MayFail
    /\ uart' = "ready"
    /\ rcp' \in CutShort(EnterUpdateMode(rcp))
    /\ RcpEndWith("recovery_failed", 0)
    /\ UNCHANGED session

\* hal_rcp_stack_update_begin, esp_http_client_open
Open ==
    /\ RcpIsAt("prepared") /\ session
    /\ RcpGoTo("open")
    /\ UNCHANGED <<rcp, uart, session, faults>>

OpenFails ==
    /\ RcpIsAt("prepared") /\ MayFail
    /\ \/ Abandon(rcp, "apply_failed", 1)
       \/ Abandon(rcp, "transport_failed", 2)
    /\ UNCHANGED uart

\* What a loader has after a write
Written(device, image) == IF device.loader THEN [device EXCEPT !.image = image] ELSE device

\* The first bytes are read and written: the former image is gone
Write ==
    /\ RcpIsAt("open") /\ session
    /\ rcp' = Written(rcp, None)
    /\ RcpGoTo("writing")
    /\ UNCHANGED <<uart, session, faults>>

\* Reading or writing fails, at the first bytes or later
WriteFails ==
    /\ RcpIsAt("open") \/ RcpIsAt("writing")
    /\ MayFail
    /\ \E status \in {"transport_failed", "apply_failed"} :
          Abandon(Written(rcp, None), status, IF status = "transport_failed" THEN 3 ELSE 4)
    /\ UNCHANGED uart

\* Nothing more comes, and hal_rcp_stack_update_end has sent the rest
EndWriting ==
    /\ RcpIsAt("writing")
    /\ rcp' = Written(rcp, IF rcpUpdate.served.whole THEN rcpUpdate.served.image ELSE None)
    /\ RcpGoTo("written")
    /\ UNCHANGED <<uart, session, faults>>

\* hal_rcp_sha256_matches_hex
IsVerified(request, served) ==
    request.digest = None \/ (served.whole /\ request.digest = served.image)

Verify ==
    /\ RcpIsAt("written")
    /\ IF IsVerified(rcpUpdate.request, rcpUpdate.served)
       THEN RcpGoTo("verified") /\ UNCHANGED <<rcp, session>>
       ELSE Abandon(rcp, "verify_failed", 5)
    /\ UNCHANGED <<uart, faults>>

\* hal_rcp_get_running_version, and it is the expected one
IsProbed(request) ==
    /\ HasProbe /\ rcp.image # None
    /\ request.version \in {None, rcp.image.version}

ProbeFails ==
    /\ RcpIsAt("verified") /\ ~IsProbed(rcpUpdate.request)
    /\ Abandon(rcp, "probe_failed", 5)
    /\ UNCHANGED <<uart, faults>>

\* hal_rcp_stack_recover_after_update for an update that was applied
Recover ==
    /\ RcpIsAt("verified") /\ IsProbed(rcpUpdate.request)
    /\ rcp' = Final(RebootTarget(rcp))
    /\ session' = FALSE
    /\ RcpEndWith("ok", 0)
    /\ UNCHANGED <<uart, faults>>

RecoverFails ==
    /\ RcpIsAt("verified") /\ IsProbed(rcpUpdate.request) /\ MayFail
    /\ \E device \in CutShort(RebootTarget(rcp)) : Abandon(device, "recovery_failed", 5)
    /\ UNCHANGED uart

RcpStep ==
    \/ Prepare \/ DriverFails \/ LineFails \/ Open \/ OpenFails \/ Write \/ WriteFails
    \/ EndWriting \/ Verify \/ ProbeFails \/ Recover \/ RecoverFails

\* The gateway restarts: its lines are let go, the update is forgotten
RcpForgets(device) ==
    /\ rcp' = ReleaseLines(device)
    /\ uart' = "absent" /\ session' = FALSE
    /\ rcpUpdate' = None /\ rcpResult' = None

-----------------------------------------------------------------------------
(* Properties *)

\* Every variable holds a value of its type
RcpTypeOK ==
    /\ rcp \in [boot : BOOLEAN, reset : BOOLEAN, loader : BOOLEAN, image : RcpImages \cup {None}]
    /\ uart \in {"absent", "partial", "ready"} /\ session \in BOOLEAN
    /\ rcpUpdate # None => rcpUpdate.stage \in RcpStages
    /\ rcpResult # None => rcpResult.status \in RcpStatuses /\ rcpResult.stage \in 0..5

\* An update that is told to have succeeded has succeeded: the RCP runs the image with the
\* digest and the version that were asked for, out of its loader (hal_rcp.c)
OkMeansInstalled ==
    rcpResult # None /\ rcpResult.status = "ok" =>
        /\ rcp.image # None /\ ~rcp.loader
        /\ rcpResult.request.digest \in {None, rcp.image}
        /\ rcpResult.request.version \in {None, rcp.image.version}

\* When no update runs, the session is closed and neither line is held, except after a
\* preparation that failed, of which nothing is undone (hal_rcp.c:290)
LinesReleased ==
    ~RcpIsBusy /\ (rcpResult # None /\ rcpResult.status # "ok" => rcpResult.stage # 0) =>
        ~session /\ ~rcp.boot /\ ~rcp.reset
=============================================================================
