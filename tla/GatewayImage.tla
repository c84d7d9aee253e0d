---------------------------- MODULE GatewayImage ----------------------------
(***************************************************************************)
(* The gateway's own firmware: two slots, the boot loader, the startup of  *)
(* the application, which confirms a new image when it has got through,    *)
(* and the update that writes the slot the gateway does not run from.      *)
(*                                                                         *)
(* An image is [version, project, defect]: defect is the step of the       *)
(* startup that it fails at, or None.  A version is a sequence of numbers. *)
(* A manifest is [version, project, schema, allowDowngrade, signature,     *)
(* fits]: its signature is the manifest that was signed, None without one; *)
(* fits says whether the form of its URL, of its digest and of what it has *)
(* of a signature, its board and its chip are acceptable.  Requests that   *)
(* are refused change nothing.                                             *)
(*                                                                         *)
(* The update's queue, its statuses and MQTT are in Updates; diagnostics   *)
(* of the transport are not modelled.                                      *)
(***************************************************************************)
EXTENDS FirmwareFaults, Sequences

CONSTANTS
    Images,
    Factory,     \* images that a gateway is delivered with
    Manifests,
    Project,     \* kProjectName, the same in every image of this code
    Schema,      \* schema version of the configuration
    PartBound,   \* numbers of a version are kept modulo this: 2^32
    AutoReboot   \* CONFIG_ZGW_OTA_AUTO_REBOOT_ENABLED

Slots == {0, 1}
Other(slot) == 1 - slot

VARIABLES
    slots,      \* what each slot holds: an image, None if it is erased or not whole
    states,     \* esp_ota_img_states_t of each slot
    target,     \* the slot that the boot loader is to take
    running,    \* the slot that it has taken
    startup,    \* steps of app_main that are done
    halted,     \* whether app_main has stopped after a step that failed
    ota,        \* the update: [manifest, served, stage], or None
    otaResult   \* status of the last update, None after a boot

gatewayVars == <<slots, states, target, running, startup, halted, ota, otaResult>>

\* app_main, up to the confirmation of the image
StartSteps == <<"adapter", "wifi", "mdns", "runtime", "web", "mqtt", "matter", "zigbee">>
Critical == {StartSteps[i] : i \in DOMAIN StartSteps}

ASSUME GatewayBounds ==
    /\ PartBound \in Nat \ {0} /\ AutoReboot \in BOOLEAN
    /\ Factory \subseteq Images
    /\ None \notin Images /\ Project # None
    /\ \A manifest \in Manifests :
          DOMAIN manifest = {"version", "project", "schema", "allowDowngrade", "signature", "fits"}

GatewayInit ==
    /\ \E image \in Factory : slots = [slot \in Slots |-> IF slot = 0 THEN image ELSE None]
    /\ states = [slot \in Slots |-> "none"]
    /\ target = 0 /\ running = 0
    /\ startup = 0 /\ halted = FALSE
    /\ ota = None /\ otaResult = None

-----------------------------------------------------------------------------
(* Manifests *)

\* parse_dotted_numeric_version: up to four numbers
IsNumeric(version) == version # None /\ Len(version) \in 1..4
Parts(version) == [i \in 1..4 |-> IF i \in DOMAIN version THEN version[i] % PartBound ELSE 0]

Less(one, other) ==
    \E i \in 1..4 : one[i] < other[i] /\ \A j \in 1..(i - 1) : one[j] = other[j]

\* Variant for the runs' mutants: numbers that the shorter version lacks are not compared
IsDowngradeOfPrefix(requested, current) ==
    /\ IsNumeric(requested) /\ IsNumeric(current)
    /\ \E i \in DOMAIN requested \cap DOMAIN current :
          /\ requested[i] < current[i]
          /\ \A j \in 1..(i - 1) : requested[j] = current[j]

\* is_downgrade, version_is_older_than
IsDowngrade(requested, current) ==
    IsNumeric(requested) /\ IsNumeric(current) /\ Less(Parts(requested), Parts(current))

\* apply_ota_manifest_defaults
WithDefaults(manifest) ==
    [manifest EXCEPT !.project = IF @ = None THEN Project ELSE @,
                     !.schema = IF @ = 0 THEN Schema ELSE @]

\* build_ota_manifest_signing_payload
Payload(manifest) ==
    <<manifest.version, manifest.project, manifest.schema, manifest.allowDowngrade>>

\* verify_ota_manifest_signature, hal_ota_platform_verify_manifest_signature
IsSigned(manifest) == manifest.signature = Payload(manifest)

\* validate_ota_manifest
Validate(manifest, version) ==
    /\ manifest.fits
    /\ manifest.project \in {None, Project}
    /\ Schema = 0 \/ manifest.schema <= Schema
    /\ manifest.allowDowngrade \/ ~IsDowngrade(manifest.version, version)
    /\ manifest.signature = None \/ IsSigned(manifest)

-----------------------------------------------------------------------------
(* The boot loader and the startup *)

\* A pending image that was not confirmed is given up, and so is one that is not whole
Reload ==
    LET known == [slot \in Slots |-> IF states[slot] = "pending" THEN "aborted" ELSE states[slot]]
        first == IF known[target] = "aborted" THEN Other(target) ELSE target
        chosen == IF slots[first] = None THEN Other(first) ELSE first
    IN /\ running' = chosen
       /\ states' = [known EXCEPT ![chosen] = IF @ = "new" THEN "pending" ELSE @]
       /\ startup' = 0 /\ halted' = FALSE
       /\ ota' = None /\ otaResult' = None
       /\ UNCHANGED <<slots, target>>

IsStarted(step) == \E i \in 1..startup : StartSteps[i] = step

\* A step of app_main
StartupStep ==
    /\ ~halted /\ startup < Len(StartSteps)
    /\ StartSteps[startup + 1] # slots[running].defect
    /\ startup' = startup + 1
    /\ UNCHANGED <<slots, states, target, running, halted, ota, otaResult, faults>>

\* A step fails: app_main goes no further, what has been started goes on
StartupFails ==
    /\ ~halted /\ startup < Len(StartSteps)
    /\ \/ StartSteps[startup + 1] = slots[running].defect /\ UNCHANGED faults
       \/ MayFail
    /\ halted' = TRUE
    /\ UNCHANGED <<slots, states, target, running, startup, ota, otaResult>>

\* Variant for the runs' mutants: the image is confirmed before the steps have ended
IsUpEarly == startup = 3

IsUp == startup = Len(StartSteps)

\* Variant for the runs' mutants: only what is already confirmed is marked
ConfirmTwice ==
    /\ ~halted /\ IsUp /\ states[running] = "valid"
    /\ states' = [states EXCEPT ![running] = "valid"]
    /\ UNCHANGED <<slots, target, running, startup, halted, ota, otaResult, faults>>

\* confirm_pending_ota_image, hal_ota_platform_mark_running_partition_valid
Confirm ==
    /\ ~halted /\ IsUp /\ states[running] = "pending"
    /\ states' = [states EXCEPT ![running] = "valid"]
    /\ UNCHANGED <<slots, target, running, startup, halted, ota, otaResult, faults>>

ConfirmFails ==
    /\ ~halted /\ IsUp /\ states[running] = "pending"
    /\ MayFail
    /\ halted' = TRUE
    /\ UNCHANGED <<slots, states, target, running, startup, ota, otaResult>>

-----------------------------------------------------------------------------
(* An update: hal_ota_platform_perform_https_update, a step of the worker each *)

Version == slots[running].version
Passive == Other(running)
IsAt(stage) == ota # None /\ ota.stage = stage
IsBusy == ota # None /\ ota.stage # "restart"  \* has_pending_or_busy

GoTo(stage) == ota' = [ota EXCEPT !.stage = stage] /\ UNCHANGED otaResult
EndWith(status) == ota' = None /\ otaResult' = status

\* What the server has need not be what the manifest says: it may be cut off or damaged
Offers == [image : Images, content : {"good", "cut", "damaged"}]

\* enqueue_request of the OTA manager, build_ota_transport_request
PostOta ==
    /\ IsStarted("web") /\ ota = None
    /\ \E manifest \in Manifests, served \in Offers :
          /\ Validate(WithDefaults(manifest), Version)
          /\ ota' = [manifest |-> WithDefaults(manifest), served |-> served, stage |-> "queued"]
    /\ UNCHANGED <<slots, states, target, running, startup, halted, otaResult, faults>>

\* esp_https_ota_begin
Connect ==
    /\ IsAt("queued")
    /\ \/ GoTo("connected") /\ UNCHANGED faults
       \/ MayFail /\ EndWith("download_failed")
    /\ UNCHANGED <<slots, states, target, running, startup, halted>>

IsExpected(image, manifest) ==
    manifest.version \in {None, image.version} /\ manifest.project \in {None, image.project}

\* esp_https_ota_get_img_desc, and the description is compared with the manifest
Describe ==
    /\ IsAt("connected")
    /\ LET expected == IsExpected(ota.served.image, ota.manifest) IN
       \/ expected /\ GoTo("described") /\ UNCHANGED faults
       \/ ~expected /\ EndWith("verify_failed") /\ UNCHANGED faults
       \/ MayFail /\ EndWith("verify_failed")
    /\ UNCHANGED <<slots, states, target, running, startup, halted>>

\* The first esp_https_ota_perform: an unconfirmed image may not give up its fallback
MayErase == states[running] # "pending"

EraseRefused ==
    /\ IsAt("described") /\ ~MayErase
    /\ EndWith("download_failed")
    /\ UNCHANGED <<slots, states, target, running, startup, halted, faults>>

Erase ==
    /\ IsAt("described") /\ MayErase
    /\ slots' = [slots EXCEPT ![Passive] = None]
    /\ GoTo("writing")
    /\ UNCHANGED <<states, target, running, startup, halted, faults>>

\* The remaining ones: the connection fails, the image ends early, or it is there
Receive ==
    /\ IsAt("writing")
    /\ \/ MayFail /\ EndWith("download_failed")
       \/ ota.served.content = "cut" /\ EndWith("verify_failed") /\ UNCHANGED faults
       \/ ota.served.content # "cut" /\ GoTo("received") /\ UNCHANGED faults
    /\ UNCHANGED <<slots, states, target, running, startup, halted>>

\* esp_https_ota_finish refuses
FinishFails ==
    /\ IsAt("received")
    /\ \/ ota.served.content = "damaged" /\ EndWith("verify_failed") /\ UNCHANGED faults
       \/ MayFail /\ EndWith("apply_failed")
    /\ UNCHANGED <<slots, states, target, running, startup, halted>>

\* The slot is whole, and the boot loader is to take it
Finish ==
    /\ IsAt("received") /\ ota.served.content = "good"
    /\ slots' = [slots EXCEPT ![Passive] = ota.served.image]
    /\ states' = [states EXCEPT ![Passive] = "new"]
    /\ target' = Passive
    /\ otaResult' = "ok"
    /\ ota' = IF AutoReboot THEN [ota EXCEPT !.stage = "restart"] ELSE None
    /\ UNCHANGED <<running, startup, halted, faults>>

\* The main task and the worker
AppMain == StartupStep \/ StartupFails \/ Confirm \/ ConfirmFails
OtaWorker == Connect \/ Describe \/ EraseRefused \/ Erase \/ Receive \/ FinishFails \/ Finish

-----------------------------------------------------------------------------
(* Properties *)

\* Every variable holds a value of its type
GatewayTypeOK ==
    /\ slots \in [Slots -> Images \cup {None}]
    /\ states \in [Slots -> {"none", "new", "pending", "valid", "aborted"}]
    /\ {target, running} \subseteq Slots
    /\ startup \in 0..Len(StartSteps) /\ halted \in BOOLEAN
    /\ ota # None =>
          ota.stage \in {"queued", "connected", "described", "writing", "received", "restart"}
    /\ otaResult \in {None, "ok", "download_failed", "verify_failed", "apply_failed"}
    /\ faults \in 0..MaxFaults

\* The gateway runs a whole image, and while that one is not confirmed the other slot holds
\* one that was: whatever happens, a boot finds an image (hal_ota.c, ota_bootstrap.cpp)
FallbackKept ==
    /\ slots[running] # None
    /\ states[running] = "pending" =>
          slots[Passive] # None /\ states[Passive] \in {"none", "valid"}

\* An image that does not get through a step of the startup is never confirmed, so that it
\* does not survive the next boot (app_main.cpp)
ConfirmedStarts ==
    \A slot \in Slots :
        states[slot] = "valid" /\ slots[slot] # None => slots[slot].defect \notin Critical

\* The version of every image is one to four numbers that 32 bits hold
VersionsAreNumbers ==
    \A image \in Images :
        /\ image.version \in Seq(0..(PartBound - 1)) /\ Len(image.version) \in 1..4
        /\ image.version # None

BecomesNew(slot) == states[slot] # "new" /\ states'[slot] = "new"

\* What is staged for the next boot is firmware of this project, and of the version that the
\* manifest names (validate_ota_manifest, hal_ota_platform_perform_https_update)
StagedAsAsked ==
    [][\A slot \in Slots : BecomesNew(slot) =>
          /\ slots'[slot].project = Project
          /\ ota.manifest.version \in {None, slots'[slot].version}]_gatewayVars

\* An older version (of up to four numbers, missing ones taken as zeros) is not staged unless
\* the manifest allows it or names no version at all (is_downgrade)
NoUnaskedDowngrade ==
    [][\A slot \in Slots : BecomesNew(slot) /\ ~ota.manifest.allowDowngrade
                               /\ ota.manifest.version # None =>
          LET new == slots'[slot].version
              old == slots[running].version
              Number(version, i) == IF i > Len(version) THEN 0 ELSE version[i]
          IN ~\E i \in 1..4 : /\ Number(new, i) < Number(old, i)
                              /\ \A j \in 1..(i - 1) : Number(new, j) = Number(old, j)]_gatewayVars
=============================================================================
