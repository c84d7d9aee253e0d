------------------------ MODULE FirmwareImagesProofs ------------------------
(***************************************************************************)
(* Theorems about FirmwareImages, for any images, manifests and requests,  *)
(* and any number of updates, faults and power cuts: the gateway keeps an  *)
(* image to boot and confirms none that does not start, only what was      *)
(* asked for is staged, and what is told of the co-processor is so.        *)
(***************************************************************************)
EXTENDS FirmwareImages, TLAPS

-----------------------------------------------------------------------------
(* What a step is for the gateway, for the co-processor and for the bounds. *)

GatewayStep ==
    AppMain \/ OtaWorker \/ PostOta \/ Reload \/ UNCHANGED gatewayVars

RcpMoves ==
    RcpStep \/ PostRcp \/ UNCHANGED rcpVars
    \/ \E loader \in BOOLEAN : RcpForgets([rcp EXCEPT !.loader = loader])

LEMMA Steps ==
    ASSUME RcpTypeOK, [Next]_vars
    PROVE  GatewayStep /\ RcpMoves
<1>1. CASE PostOtaStart
  BY <1>1 DEF PostOtaStart, GatewayStep, RcpMoves
<1>2. CASE PostRcpUpdateStart
  BY <1>2 DEF PostRcpUpdateStart, GatewayStep, RcpMoves
<1>3. CASE Main
  BY <1>3 DEF Main, GatewayStep, RcpMoves
<1>4. CASE Ota
  BY <1>4 DEF Ota, GatewayStep, RcpMoves
<1>5. CASE Rcp
  BY <1>5 DEF Rcp, GatewayStep, RcpMoves
<1>6. CASE Restart
  <2>1. [rcp EXCEPT !.loader = rcp.loader] = rcp /\ rcp.loader \in BOOLEAN
    BY DEF RcpTypeOK
  <2> QED BY <1>6, <2>1 DEF Restart, GatewayStep, RcpMoves
<1>7. CASE PowerCut
  <2>1. (rcp.image = None) \in BOOLEAN
    OBVIOUS
  <2> QED BY <1>7, <2>1 DEF PowerCut, GatewayStep, RcpMoves
<1>8. CASE UNCHANGED vars
  BY <1>8 DEF vars, GatewayStep, RcpMoves
<1> QED BY <1>1, <1>2, <1>3, <1>4, <1>5, <1>6, <1>7, <1>8 DEF Next

Bounds == faults \in 0..MaxFaults /\ updates \in 0..MaxUpdates /\ cuts \in 0..MaxPowerCuts

\* What is left of the bounds only gets less.
LEMMA BoundsHold == Bounds /\ [Next]_vars => Bounds'
<1> SUFFICES ASSUME Bounds, [Next]_vars PROVE Bounds'
  OBVIOUS
<1>0. MaxFaults \in Nat /\ MaxUpdates \in Nat /\ MaxPowerCuts \in Nat
  BY FaultBounds, FirmwareBounds
<1>1. faults' = faults \/ MayFail
  BY DEF Next, vars, PostOtaStart, PostOta, PostRcpUpdateStart, PostRcp, Main, AppMain,
     StartupStep, StartupFails, Confirm, ConfirmFails, Ota, OtaWorker, Connect, Describe,
     EraseRefused, Erase, Receive, FinishFails, Finish, Rcp, RcpStep, Prepare, DriverFails,
     LineFails, Open, OpenFails, Write, WriteFails, EndWriting, Verify, ProbeFails, Recover,
     RecoverFails, Restart, PowerCut
<1>2. /\ UNCHANGED updates \/ (updates > 0 /\ updates' = updates - 1)
      /\ UNCHANGED cuts \/ (cuts > 0 /\ cuts' = cuts - 1)
  BY DEF Next, vars, PostOtaStart, PostRcpUpdateStart, MayPost, Main, Ota, Rcp, Restart, PowerCut
<1> QED BY <1>0, <1>1, <1>2 DEF Bounds, MayFail

-----------------------------------------------------------------------------
(* The gateway *)

OtaStages == {"queued", "connected", "described", "writing", "received", "restart"}
OtaUpdates ==
    [manifest : {WithDefaults(manifest) : manifest \in Manifests}, served : Offers,
     stage : OtaStages]

Types ==
    /\ slots \in [Slots -> Images \cup {None}]
    /\ states \in [Slots -> {"none", "new", "pending", "valid", "aborted"}]
    /\ target \in Slots /\ running \in Slots
    /\ startup \in 0..Len(StartSteps) /\ halted \in BOOLEAN
    /\ ota # None => ota \in OtaUpdates
    /\ otaResult \in {None, "ok", "download_failed", "verify_failed", "apply_failed"}

\* The image that runs is whole; only it can be on trial, and then the boot loader has it for its
\* target, and another that may be booted
Boots ==
    /\ slots[running] # None
    /\ states[running] \in {"none", "valid", "pending"}
    /\ states[Passive] # "pending"
    /\ states[running] = "pending" =>
          target = running /\ slots[Passive] # None /\ states[Passive] \in {"none", "valid"}

\* The image that runs has got through the steps that are done
Started == \A i \in 1..startup : StartSteps[i] # slots[running].defect

\* The update was accepted for the image that runs; what it is about to stage was compared with
\* the manifest, and once the other slot is erased no image is on trial
Accepted ==
    ota # None =>
        /\ ota.manifest.project = Project
        /\ Validate(ota.manifest, Version)
        /\ ota.stage \notin {"queued", "connected"} => IsExpected(ota.served.image, ota.manifest)
        /\ ota.stage \in {"writing", "received"} => states[running] # "pending"

GatewayInv == Types /\ Boots /\ Started /\ ConfirmedStarts /\ Accepted

LEMMA Others ==
    \A slot \in Slots :
        /\ Other(slot) \in Slots /\ Other(slot) # slot /\ Other(Other(slot)) = slot
        /\ \A other \in Slots : other = slot \/ other = Other(slot)
  BY DEF Slots, Other

LEMMA StartLength == Len(StartSteps) = 8 /\ Critical = {StartSteps[i] : i \in 1..8}
  BY DEF StartSteps, Critical

LEMMA InitGateway == Init => GatewayInv
<1> SUFFICES ASSUME Init PROVE GatewayInv
  OBVIOUS
<1>1. PICK image \in Factory : slots = [slot \in Slots |-> IF slot = 0 THEN image ELSE None]
  BY DEF Init, GatewayInit
<1>2. /\ states = [slot \in Slots |-> "none"] /\ target = 0 /\ running = 0
      /\ startup = 0 /\ halted = FALSE /\ ota = None /\ otaResult = None
  BY DEF Init, GatewayInit
<1>3. image \in Images /\ image # None /\ 0 \in Slots
  BY GatewayBounds DEF Slots
<1>4. Passive \in Slots
  BY <1>2, <1>3, Others DEF Passive
<1>5. Types
  <2>1. slots \in [Slots -> Images \cup {None}]
    BY <1>1, <1>3
  <2>2. states \in [Slots -> {"none", "new", "pending", "valid", "aborted"}]
    BY <1>2
  <2>3. startup \in 0..Len(StartSteps)
    BY <1>2, StartLength
  <2>4. halted \in BOOLEAN /\ target \in Slots /\ running \in Slots
    BY <1>2, <1>3
  <2> QED BY <1>2, <2>1, <2>2, <2>3, <2>4 DEF Types
<1>6. Boots
  BY <1>1, <1>2, <1>3, <1>4 DEF Boots
<1>7. Started /\ ConfirmedStarts /\ Accepted
  BY <1>2 DEF Started, ConfirmedStarts, Accepted
<1> QED BY <1>5, <1>6, <1>7 DEF GatewayInv

\* What a step of the startup, or of an update before it stages anything, leaves alone.
LEMMA GatewayStays ==
    ASSUME GatewayInv, UNCHANGED <<slots, states, target, running, startup>>,
           halted' \in BOOLEAN,
           otaResult' \in {None, "ok", "download_failed", "verify_failed", "apply_failed"},
           ota' = None \/ (ota' \in OtaUpdates /\ Accepted')
    PROVE  GatewayInv'
BY DEF GatewayInv, Types, Boots, Started, ConfirmedStarts, Accepted, Passive

\* An update that goes on to its next stage, or ends.
LEMMA Goes ==
    ASSUME GatewayInv, ota # None, NEW stage \in OtaStages, GoTo(stage),
           UNCHANGED <<slots, states, running>>,
           stage \notin {"queued", "connected"} => IsExpected(ota.served.image, ota.manifest),
           stage \in {"writing", "received"} => states[running] # "pending"
    PROVE  ota' \in OtaUpdates /\ Accepted' /\ otaResult' = otaResult
<1>1. /\ ota \in OtaUpdates /\ ota.manifest.project = Project
      /\ Validate(ota.manifest, Version)
  BY DEF GatewayInv, Types, Accepted
<1>2. ota' = [ota EXCEPT !.stage = stage] /\ otaResult' = otaResult
  BY DEF GoTo
<1>3. /\ ota' \in OtaUpdates /\ ota'.stage = stage
      /\ ota'.manifest = ota.manifest /\ ota'.served = ota.served
  BY <1>1, <1>2 DEF OtaUpdates
<1>4. Version' = Version
  BY DEF Version
<1>5. Validate(ota'.manifest, Version')
  BY <1>1, <1>3, <1>4
<1> QED BY <1>1, <1>2, <1>3, <1>5 DEF Accepted

LEMMA StartupKeeps == GatewayInv /\ (StartupStep \/ StartupFails) => GatewayInv'
<1> SUFFICES ASSUME GatewayInv, StartupStep \/ StartupFails PROVE GatewayInv'
  OBVIOUS
<1>1. CASE StartupFails
  <2>1. /\ UNCHANGED <<slots, states, target, running, startup, ota, otaResult>>
        /\ halted' \in BOOLEAN
    BY <1>1 DEF StartupFails
  <2> QED BY <2>1 DEF GatewayInv, Types, Boots, Started, ConfirmedStarts, Accepted, Passive,
          Version
<1>2. CASE StartupStep
  <2>1. /\ UNCHANGED <<slots, states, target, running, halted, ota, otaResult>>
        /\ startup < Len(StartSteps) /\ startup' = startup + 1
        /\ StartSteps[startup + 1] # slots[running].defect
    BY <1>2 DEF StartupStep
  <2>2. startup \in 0..Len(StartSteps) /\ startup' \in 0..Len(StartSteps)
    BY <2>1, StartLength DEF GatewayInv, Types
  <2>3. Started'
    BY <2>1, <2>2 DEF GatewayInv, Started
  <2>4. Types' /\ Boots' /\ ConfirmedStarts' /\ Accepted'
    BY <2>1, <2>2 DEF GatewayInv, Types, Boots, ConfirmedStarts, Accepted, Passive, Version
  <2> QED BY <2>3, <2>4 DEF GatewayInv
<1> QED BY <1>1, <1>2

\* An image is confirmed when it has got through all steps.
LEMMA ConfirmKeeps == GatewayInv /\ (Confirm \/ ConfirmFails) => GatewayInv'
<1> SUFFICES ASSUME GatewayInv, Confirm \/ ConfirmFails PROVE GatewayInv'
  OBVIOUS
<1>1. CASE ConfirmFails
  <2>1. /\ UNCHANGED <<slots, states, target, running, startup, ota, otaResult>>
        /\ halted' \in BOOLEAN
    BY <1>1 DEF ConfirmFails
  <2> QED BY <2>1 DEF GatewayInv, Types, Boots, Started, ConfirmedStarts, Accepted, Passive,
          Version
<1>2. CASE Confirm
  <2>1. /\ UNCHANGED <<slots, target, running, startup, halted, ota, otaResult>>
        /\ states' = [states EXCEPT ![running] = "valid"]
        /\ startup = Len(StartSteps)
    BY <1>2 DEF Confirm, IsUp
  <2>2. /\ running \in Slots /\ Passive \in Slots /\ Passive # running
        /\ states \in [Slots -> {"none", "new", "pending", "valid", "aborted"}]
    BY Others DEF GatewayInv, Types, Passive
  <2>3. /\ states' \in [Slots -> {"none", "new", "pending", "valid", "aborted"}]
        /\ states'[running] = "valid" /\ states'[Passive] = states[Passive]
        /\ \A slot \in Slots : slot # running => states'[slot] = states[slot]
        /\ Passive' = Passive
    BY <2>1, <2>2 DEF Passive
  <2>4. slots[running].defect \notin Critical
    BY <2>1, StartLength DEF GatewayInv, Started
  <2>5. ConfirmedStarts'
    BY <2>1, <2>3, <2>4 DEF GatewayInv, ConfirmedStarts
  <2>6. Types' /\ Boots' /\ Started'
    BY <2>1, <2>3 DEF GatewayInv, Types, Boots, Started
  <2>7. Accepted'
    BY <2>1, <2>3 DEF GatewayInv, Accepted, Version
  <2> QED BY <2>5, <2>6, <2>7 DEF GatewayInv
<1> QED BY <1>1, <1>2

\* What the boot loader takes can be booted, and if it is new, so can the other.
LEMMA ReloadKeeps == GatewayInv /\ Reload => GatewayInv'
<1> SUFFICES ASSUME GatewayInv, Reload PROVE GatewayInv'
  OBVIOUS
<1> DEFINE known == [slot \in Slots |->
                       IF states[slot] = "pending" THEN "aborted" ELSE states[slot]]
           first == IF known[target] = "aborted" THEN Other(target) ELSE target
           chosen == IF slots[first] = None THEN Other(first) ELSE first
<1>1. /\ running' = chosen
      /\ states' = [known EXCEPT ![chosen] = IF @ = "new" THEN "pending" ELSE @]
      /\ startup' = 0 /\ halted' = FALSE /\ ota' = None /\ otaResult' = None
      /\ UNCHANGED <<slots, target>>
  BY DEF Reload
<1>2. /\ running \in Slots /\ target \in {running, Passive}
      /\ Passive \in Slots /\ Passive # running /\ Other(Passive) = running
      /\ Passive = Other(running)
      /\ states \in [Slots -> {"none", "new", "pending", "valid", "aborted"}]
  BY Others DEF GatewayInv, Types, Passive
<1>3. /\ slots[running] # None
      /\ states[running] \in {"none", "valid", "pending"}
      /\ states[Passive] # "pending"
      /\ states[running] = "pending" =>
            target = running /\ slots[Passive] # None /\ states[Passive] \in {"none", "valid"}
  BY DEF GatewayInv, Boots
<1>4. \A slot \in Slots :
        known[slot] = IF states[slot] = "pending" THEN "aborted" ELSE states[slot]
  OBVIOUS
<1>8. /\ known \in [Slots -> {"none", "new", "valid", "aborted"}]
      /\ \A slot \in Slots : known[slot] = "valid" => states[slot] = "valid"
  BY <1>2, <1>4
<1> HIDE DEF known
<1>5. first \in {running, Passive} /\ chosen \in {running, Passive}
  BY <1>2
<1>6. /\ slots[chosen] # None /\ known[chosen] \in {"none", "valid", "new"}
      /\ known[chosen] = "new" =>
            /\ chosen = target /\ slots[Other(chosen)] # None
            /\ known[Other(chosen)] \in {"none", "valid"}
  <2>1. CASE states[running] = "pending"
    <3>1. /\ known[running] = "aborted" /\ known[Passive] = states[Passive]
          /\ target = running /\ slots[Passive] # None
          /\ states[Passive] \in {"none", "valid"}
      BY <1>2, <1>3, <1>4, <2>1
    <3>2. first = Passive
      BY <1>2, <3>1
    <3>3. chosen = Passive
      BY <3>1, <3>2
    <3> QED BY <3>1, <3>3
  <2>2. CASE states[running] # "pending"
    <3>1. known[running] = states[running] /\ known[Passive] = states[Passive]
      BY <1>2, <1>3, <1>4, <2>2
    <3>2. states[running] \in {"none", "valid"}
      BY <1>3, <2>2
    <3>3. CASE target = running
      <4>1. first = running /\ chosen = running
        BY <1>3, <3>1, <3>2, <3>3
      <4> QED BY <1>3, <3>1, <3>2, <4>1
    <3>4. CASE target = Passive /\ states[Passive] = "aborted"
      <4>1. first = running /\ chosen = running
        BY <1>2, <1>3, <3>1, <3>4
      <4> QED BY <1>3, <3>1, <3>2, <4>1
    <3>5. CASE target = Passive /\ states[Passive] # "aborted"
      <4>1. first = Passive
        BY <3>1, <3>5
      <4>2. CASE slots[Passive] = None
        <5>1. chosen = running
          BY <1>2, <4>1, <4>2
        <5> QED BY <1>3, <3>1, <3>2, <5>1
      <4>3. CASE slots[Passive] # None
        <5>1. chosen = Passive
          BY <4>1, <4>3
        <5>2. states[Passive] \in {"none", "valid", "new"}
          BY <1>2, <1>3, <3>5
        <5> QED BY <1>2, <1>3, <3>1, <3>2, <3>5, <4>3, <5>1, <5>2
      <4> QED BY <4>2, <4>3
    <3> QED BY <1>2, <3>3, <3>4, <3>5
  <2> QED BY <2>1, <2>2
<1>7. chosen \in Slots /\ Other(chosen) \in Slots /\ Other(chosen) # chosen
  BY <1>2, <1>5, Others
<1> HIDE DEF first, chosen
<1>9. /\ states' \in [Slots -> {"none", "new", "pending", "valid", "aborted"}]
      /\ states'[chosen] = IF known[chosen] = "new" THEN "pending" ELSE known[chosen]
      /\ states'[Other(chosen)] = known[Other(chosen)]
      /\ \A slot \in Slots : states'[slot] = "valid" => known[slot] = "valid"
  BY <1>1, <1>7, <1>8
<1>10. Types'
  <2>1. 0 \in 0..Len(StartSteps)
    BY StartLength
  <2> QED BY <1>1, <1>7, <1>9, <2>1 DEF GatewayInv, Types
<1>11. Boots'
  <2>1. Passive' = Other(chosen) /\ running' = chosen /\ slots' = slots /\ target' = target
    BY <1>1 DEF Passive
  <2>2. known[Other(chosen)] # "pending"
    BY <1>7, <1>8
  <2> QED BY <1>6, <1>9, <2>1, <2>2 DEF Boots
<1>12. Started' /\ Accepted'
  BY <1>1 DEF Started, Accepted
<1>13. ConfirmedStarts'
  BY <1>1, <1>8, <1>9 DEF GatewayInv, ConfirmedStarts
<1> QED BY <1>10, <1>11, <1>12, <1>13 DEF GatewayInv

\* The manifest of an accepted request: the defaults name this project.
LEMMA DefaultProject ==
    \A manifest \in Manifests : WithDefaults(manifest).project # None
<1> SUFFICES ASSUME NEW manifest \in Manifests PROVE WithDefaults(manifest).project # None
  OBVIOUS
<1>1. "project" \in DOMAIN manifest /\ Project # None
  BY GatewayBounds
<1>2. WithDefaults(manifest).project
        = IF manifest.project = None THEN Project ELSE manifest.project
  BY <1>1 DEF WithDefaults
<1> QED BY <1>1, <1>2

LEMMA PostKeeps == GatewayInv /\ PostOta => GatewayInv'
<1> SUFFICES ASSUME GatewayInv, PostOta PROVE GatewayInv'
  OBVIOUS
<1>1. PICK manifest \in Manifests, served \in Offers :
        /\ Validate(WithDefaults(manifest), Version)
        /\ ota' = [manifest |-> WithDefaults(manifest), served |-> served, stage |-> "queued"]
  BY DEF PostOta
<1>2. UNCHANGED <<slots, states, target, running, startup, halted, otaResult>>
  BY DEF PostOta
<1>3. WithDefaults(manifest).project # None
  BY DefaultProject
<1>4. WithDefaults(manifest).project = Project
  BY <1>1, <1>3 DEF Validate
<1>5. /\ ota'.manifest = WithDefaults(manifest) /\ ota'.stage = "queued"
      /\ ota' \in OtaUpdates
  BY <1>1 DEF OtaUpdates, OtaStages
<1>6. Version' = Version
  BY <1>2 DEF Version
<1>7. Validate(ota'.manifest, Version')
  BY <1>1, <1>5, <1>6
<1>8. Accepted'
  BY <1>4, <1>5, <1>7 DEF Accepted
<1>9. /\ halted' \in BOOLEAN
      /\ otaResult' \in {None, "ok", "download_failed", "verify_failed", "apply_failed"}
  BY <1>2 DEF GatewayInv, Types
<1> QED BY <1>2, <1>5, <1>8, <1>9, GatewayStays

\* A step of the worker that writes nothing.
LEMMA QuietWorkKeeps ==
    GatewayInv /\ (Connect \/ Describe \/ EraseRefused \/ Receive \/ FinishFails) => GatewayInv'
<1> SUFFICES ASSUME GatewayInv, Connect \/ Describe \/ EraseRefused \/ Receive \/ FinishFails
             PROVE GatewayInv'
  OBVIOUS
<1>1. /\ ota # None /\ UNCHANGED <<slots, states, target, running, startup>>
      /\ halted' = halted /\ halted \in BOOLEAN
      /\ otaResult \in {None, "ok", "download_failed", "verify_failed", "apply_failed"}
  BY DEF Connect, Describe, EraseRefused, Receive, FinishFails, IsAt, GatewayInv, Types
<1>2. CASE \E status \in {"download_failed", "verify_failed", "apply_failed"} : EndWith(status)
  BY <1>1, <1>2, GatewayStays DEF EndWith
<1>3. CASE IsAt("queued") /\ GoTo("connected")
  BY <1>1, <1>3, Goes, GatewayStays DEF OtaStages
<1>4. CASE IsAt("connected") /\ GoTo("described") /\ IsExpected(ota.served.image, ota.manifest)
  BY <1>1, <1>4, Goes, GatewayStays DEF OtaStages
<1>5. CASE IsAt("writing") /\ GoTo("received")
  <2>1. /\ IsExpected(ota.served.image, ota.manifest) /\ states[running] # "pending"
    BY <1>5 DEF GatewayInv, Accepted, IsAt
  <2> QED BY <1>1, <1>5, <2>1, Goes, GatewayStays DEF OtaStages
<1> QED BY <1>2, <1>3, <1>4, <1>5 DEF Connect, Describe, EraseRefused, Receive, FinishFails

\* The other slot is erased only while no image is on trial.
LEMMA EraseKeeps == GatewayInv /\ Erase => GatewayInv'
<1> SUFFICES ASSUME GatewayInv, Erase PROVE GatewayInv'
  OBVIOUS
<1>1. /\ ota # None /\ ota.stage = "described" /\ states[running] # "pending"
      /\ slots' = [slots EXCEPT ![Passive] = None] /\ GoTo("writing")
      /\ UNCHANGED <<states, target, running, startup, halted>>
  BY DEF Erase, IsAt, MayErase
<1>2. /\ running \in Slots /\ Passive \in Slots /\ Passive # running
      /\ slots \in [Slots -> Images \cup {None}]
  BY Others DEF GatewayInv, Types, Passive
<1>3. /\ slots' \in [Slots -> Images \cup {None}]
      /\ slots'[running] = slots[running] /\ slots'[Passive] = None
      /\ \A slot \in Slots : slots'[slot] = None \/ slots'[slot] = slots[slot]
      /\ Passive' = Passive /\ Version' = Version
  BY <1>1, <1>2 DEF Passive, Version
<1>4. IsExpected(ota.served.image, ota.manifest) /\ ota \in OtaUpdates
  BY <1>1 DEF GatewayInv, Accepted, Types
<1>5. /\ ota' \in OtaUpdates /\ otaResult' = otaResult
      /\ ota'.manifest = ota.manifest /\ ota'.served = ota.served /\ ota'.stage = "writing"
  BY <1>1, <1>4 DEF GoTo, OtaUpdates, OtaStages
<1>6. Accepted'
  <2>1. ota.manifest.project = Project /\ Validate(ota.manifest, Version)
    BY <1>1 DEF GatewayInv, Accepted
  <2>2. Validate(ota'.manifest, Version')
    BY <2>1, <1>3, <1>5
  <2> QED BY <1>1, <1>4, <1>5, <2>1, <2>2 DEF Accepted
<1>7. Types'
  BY <1>1, <1>3, <1>5 DEF GatewayInv, Types
<1>8. Boots'
  BY <1>1, <1>3 DEF GatewayInv, Boots
<1>9. Started'
  BY <1>1, <1>3 DEF GatewayInv, Started
<1>10. ConfirmedStarts'
  BY <1>1, <1>3 DEF GatewayInv, ConfirmedStarts
<1> QED BY <1>6, <1>7, <1>8, <1>9, <1>10 DEF GatewayInv

\* The whole image is new, and no image is on trial.
LEMMA FinishKeeps == GatewayInv /\ Finish => GatewayInv'
<1> SUFFICES ASSUME GatewayInv, Finish PROVE GatewayInv'
  OBVIOUS
<1>1. /\ ota # None /\ ota.stage = "received"
      /\ slots' = [slots EXCEPT ![Passive] = ota.served.image]
      /\ states' = [states EXCEPT ![Passive] = "new"]
      /\ target' = Passive /\ otaResult' = "ok"
      /\ ota' = IF AutoReboot THEN [ota EXCEPT !.stage = "restart"] ELSE None
      /\ UNCHANGED <<running, startup, halted>>
  BY DEF Finish, IsAt
<1>2. /\ running \in Slots /\ Passive \in Slots /\ Passive # running
      /\ slots \in [Slots -> Images \cup {None}]
      /\ states \in [Slots -> {"none", "new", "pending", "valid", "aborted"}]
  BY Others DEF GatewayInv, Types, Passive
<1>3. /\ IsExpected(ota.served.image, ota.manifest) /\ ota \in OtaUpdates
      /\ ota.manifest.project = Project /\ Validate(ota.manifest, Version)
      /\ states[running] # "pending"
  BY <1>1 DEF GatewayInv, Accepted, Types
<1>4. ota.served.image \in Images
  BY <1>3 DEF OtaUpdates, Offers
<1>5. /\ slots' \in [Slots -> Images \cup {None}]
      /\ states' \in [Slots -> {"none", "new", "pending", "valid", "aborted"}]
      /\ slots'[running] = slots[running] /\ states'[running] = states[running]
      /\ states'[Passive] = "new"
      /\ \A slot \in Slots :
            slot # Passive => slots'[slot] = slots[slot] /\ states'[slot] = states[slot]
      /\ Passive' = Passive /\ Version' = Version
  BY <1>1, <1>2, <1>4 DEF Passive, Version
<1>6. ota' # None => /\ ota' \in OtaUpdates /\ ota'.stage = "restart"
                     /\ ota'.manifest = ota.manifest /\ ota'.served = ota.served
  BY <1>1, <1>3 DEF OtaUpdates, OtaStages
<1>7. Accepted'
  <2>1. ota' # None => Validate(ota'.manifest, Version')
    BY <1>3, <1>5, <1>6
  <2> QED BY <1>3, <1>6, <2>1 DEF Accepted
<1>8. Types'
  BY <1>1, <1>2, <1>5, <1>6 DEF GatewayInv, Types
<1>9. Boots'
  BY <1>1, <1>3, <1>5 DEF GatewayInv, Boots
<1>10. Started'
  BY <1>1, <1>5 DEF GatewayInv, Started
<1>11. ConfirmedStarts'
  BY <1>5 DEF GatewayInv, ConfirmedStarts
<1> QED BY <1>7, <1>8, <1>9, <1>10, <1>11 DEF GatewayInv

\* What holds of the gateway stays so.
LEMMA NextGateway == GatewayInv /\ GatewayStep => GatewayInv'
<1> SUFFICES ASSUME GatewayInv, GatewayStep PROVE GatewayInv'
  OBVIOUS
<1>1. CASE AppMain
  BY <1>1, StartupKeeps, ConfirmKeeps DEF AppMain
<1>2. CASE OtaWorker
  BY <1>2, QuietWorkKeeps, EraseKeeps, FinishKeeps DEF OtaWorker
<1>3. CASE PostOta
  BY <1>3, PostKeeps
<1>4. CASE Reload
  BY <1>4, ReloadKeeps
<1>5. CASE UNCHANGED gatewayVars
  BY <1>5 DEF gatewayVars, GatewayInv, Types, Boots, Started, ConfirmedStarts, Accepted, Passive,
     Version
<1> QED BY <1>1, <1>2, <1>3, <1>4, <1>5 DEF GatewayStep

-----------------------------------------------------------------------------
(* The co-processor: its lines *)

RcpDevices == [boot : BOOLEAN, reset : BOOLEAN, loader : BOOLEAN, image : RcpImages \cup {None}]

\* Setting a line changes that line; RESET changes what runs only when it is let go.
LEMMA SettingBoot ==
    ASSUME NEW device \in RcpDevices, NEW level \in BOOLEAN
    PROVE  /\ SetBoot(device, level) \in RcpDevices
           /\ SetBoot(device, level).boot = level
           /\ SetBoot(device, level).reset = device.reset
           /\ SetBoot(device, level).loader = device.loader
           /\ SetBoot(device, level).image = device.image
  BY DEF RcpDevices, SetBoot

LEMMA SettingReset ==
    ASSUME NEW device \in RcpDevices, NEW level \in BOOLEAN
    PROVE  /\ SetReset(device, level) \in RcpDevices
           /\ SetReset(device, level).boot = device.boot
           /\ SetReset(device, level).image = device.image
           /\ ~HasReset => SetReset(device, level) = device
           /\ HasReset =>
                /\ SetReset(device, level).reset = level
                /\ device.reset /\ ~level =>
                      (SetReset(device, level).loader <=> device.boot \/ device.image = None)
<1>1. CASE ~HasReset
  BY <1>1 DEF SetReset
<1>2. CASE HasReset
  <2> DEFINE next == IF device.reset /\ ~level
                     THEN device.boot \/ device.image = None ELSE device.loader
  <2>1. next \in BOOLEAN
    BY DEF RcpDevices
  <2>2. SetReset(device, level) = [device EXCEPT !.reset = level, !.loader = next]
    BY <1>2 DEF SetReset
  <2>3. device.reset /\ ~level => (next <=> device.boot \/ device.image = None)
    OBVIOUS
  <2> HIDE DEF next
  <2> QED BY <1>2, <2>1, <2>2, <2>3 DEF RcpDevices
<1> QED BY <1>1, <1>2

\* The preparation leaves the co-processor in its loader, if it can be reset.
LEMMA Entering ==
    ASSUME NEW device \in RcpDevices, ~HasReset => ~device.reset
    PROVE  /\ Final(EnterUpdateMode(device)) \in RcpDevices
           /\ ~Final(EnterUpdateMode(device)).boot /\ ~Final(EnterUpdateMode(device)).reset
           /\ HasReset => Final(EnterUpdateMode(device)).loader
           /\ \A cut \in CutShort(EnterUpdateMode(device)) :
                 cut \in RcpDevices /\ (~HasReset => ~cut.reset)
<1> DEFINE bootReady == SetBoot(device, FALSE)
           resetReady == SetReset(bootReady, FALSE)
           bootHeld == SetBoot(resetReady, TRUE)
           resetHeld == SetReset(bootHeld, TRUE)
           started == SetReset(resetHeld, FALSE)
           last == SetBoot(started, FALSE)
<1>1. EnterUpdateMode(device)
        = <<device, bootReady, resetReady, bootHeld, resetHeld, started, last>>
  BY DEF EnterUpdateMode
<1>2. bootReady \in RcpDevices /\ (~HasReset => ~bootReady.reset)
  BY SettingBoot
<1> HIDE DEF bootReady
<1>3. resetReady \in RcpDevices /\ (~HasReset => ~resetReady.reset)
  BY <1>2, SettingReset
<1> HIDE DEF resetReady
<1>4. bootHeld \in RcpDevices /\ bootHeld.boot /\ (~HasReset => ~bootHeld.reset)
  BY <1>3, SettingBoot
<1> HIDE DEF bootHeld
<1>5. /\ resetHeld \in RcpDevices /\ resetHeld.boot
      /\ IF HasReset THEN resetHeld.reset ELSE ~resetHeld.reset
  BY <1>4, SettingReset
<1> HIDE DEF resetHeld
<1>6. started \in RcpDevices /\ ~started.reset /\ (HasReset => started.loader)
  BY <1>5, SettingReset
<1> HIDE DEF started
<1>7. last \in RcpDevices /\ ~last.boot /\ ~last.reset /\ (HasReset => last.loader)
  BY <1>6, SettingBoot
<1> HIDE DEF last
<1>8. Final(EnterUpdateMode(device)) = last
  BY <1>1 DEF Final
<1>9. CutShort(EnterUpdateMode(device))
        \subseteq {device, bootReady, resetReady, bootHeld, resetHeld, started}
  <2>1. \A i \in 1..6 :
          <<device, bootReady, resetReady, bootHeld, resetHeld, started, last>>[i]
            \in {device, bootReady, resetReady, bootHeld, resetHeld, started}
    OBVIOUS
  <2>2. Len(EnterUpdateMode(device)) - 1 = 6
    BY <1>1
  <2> QED BY <1>1, <2>1, <2>2 DEF CutShort
<1> QED BY <1>2, <1>3, <1>4, <1>5, <1>6, <1>7, <1>8, <1>9

LEMMA Releasing ==
    ASSUME NEW device \in RcpDevices, ~HasReset => ~device.reset
    PROVE  /\ ReleaseLines(device) \in RcpDevices
           /\ ~ReleaseLines(device).boot /\ ~ReleaseLines(device).reset
<1>1. /\ SetBoot(device, FALSE) \in RcpDevices /\ ~SetBoot(device, FALSE).boot
      /\ SetBoot(device, FALSE).reset = device.reset
  BY SettingBoot
<1> QED BY <1>1, SettingReset DEF ReleaseLines

\* An image that is whole runs after the reboot, if the co-processor can be reset.
LEMMA Rebooting ==
    ASSUME NEW device \in RcpDevices, ~device.boot, ~device.reset
    PROVE  /\ Final(RebootTarget(device)) \in RcpDevices
           /\ ~Final(RebootTarget(device)).boot /\ ~Final(RebootTarget(device)).reset
           /\ Final(RebootTarget(device)).image = device.image
           /\ HasReset /\ device.image # None => ~Final(RebootTarget(device)).loader
           /\ \A cut \in CutShort(RebootTarget(device)) :
                 cut \in RcpDevices /\ (~HasReset => ~cut.reset)
<1>1. CASE ~HasReset
  <2>1. RebootTarget(device) = <<device>>
    BY <1>1 DEF RebootTarget
  <2>2. Final(RebootTarget(device)) = device /\ CutShort(RebootTarget(device)) = {}
    BY <2>1 DEF Final, CutShort
  <2> QED BY <1>1, <2>2
<1>2. CASE HasReset
  <2> DEFINE bootFree == SetBoot(device, FALSE)
             resetHeld == SetReset(bootFree, TRUE)
             last == SetReset(resetHeld, FALSE)
  <2>1. RebootTarget(device) = <<device, bootFree, resetHeld, last>>
    BY <1>2 DEF RebootTarget
  <2>2. bootFree \in RcpDevices /\ ~bootFree.boot /\ bootFree.image = device.image
    BY SettingBoot
  <2> HIDE DEF bootFree
  <2>3. /\ resetHeld \in RcpDevices /\ ~resetHeld.boot /\ resetHeld.reset
        /\ resetHeld.image = device.image
    BY <1>2, <2>2, SettingReset
  <2> HIDE DEF resetHeld
  <2>4. /\ last \in RcpDevices /\ ~last.boot /\ ~last.reset /\ last.image = device.image
        /\ device.image # None => ~last.loader
    BY <1>2, <2>3, SettingReset
  <2> HIDE DEF last
  <2>5. Final(RebootTarget(device)) = last
    BY <2>1 DEF Final
  <2>6. CutShort(RebootTarget(device)) \subseteq {device, bootFree, resetHeld}
    <3>1. \A i \in 1..3 : <<device, bootFree, resetHeld, last>>[i]
                            \in {device, bootFree, resetHeld}
      OBVIOUS
    <3>2. Len(RebootTarget(device)) - 1 = 3
      BY <2>1
    <3> QED BY <2>1, <3>1, <3>2 DEF CutShort
  <2> QED BY <1>2, <2>2, <2>3, <2>4, <2>5, <2>6
<1> QED BY <1>1, <1>2

-----------------------------------------------------------------------------
(* The co-processor: an update *)

RcpUpdates == [request : RcpRequests, served : Offered, stage : RcpStages]
RcpResults == [status : RcpStatuses, stage : 0..5, request : RcpRequests]

\* A result is told of the last update, while none runs
RcpTypes ==
    /\ rcp \in RcpDevices
    /\ uart \in {"absent", "partial", "ready"} /\ session \in BOOLEAN
    /\ rcpUpdate # None => rcpUpdate \in RcpUpdates /\ rcpResult = None
    /\ rcpResult # None => rcpResult \in RcpResults

IsUnderWay == rcpUpdate # None /\ rcpUpdate.stage # "queued"

\* The session is open while an update is under way; then no line is held, and the co-processor is
\* in its loader if it can be reset
Session ==
    /\ session <=> IsUnderWay
    /\ ~HasReset => ~rcp.reset
    /\ IsUnderWay => ~rcp.boot /\ ~rcp.reset /\ (HasReset => rcp.loader)

\* What is written is what was served, and what is verified has the digest that was asked for
Installed ==
    /\ HasReset /\ (RcpIsAt("written") \/ RcpIsAt("verified")) =>
          rcp.image = IF rcpUpdate.served.whole THEN rcpUpdate.served.image ELSE None
    /\ RcpIsAt("verified") => IsVerified(rcpUpdate.request, rcpUpdate.served)

RcpInv ==
    RcpTypes /\ Session /\ Installed /\ LinesReleased /\ (HasReset => OkMeansInstalled)

LEMMA InitRcp == Init => RcpInv
<1> SUFFICES ASSUME Init PROVE RcpInv
  OBVIOUS
<1>1. /\ rcp = [boot |-> FALSE, reset |-> FALSE, loader |-> FALSE, image |-> RcpFactory]
      /\ uart = "absent" /\ session = FALSE /\ rcpUpdate = None /\ rcpResult = None
  BY DEF Init, RcpInit
<1>2. rcp \in RcpDevices /\ ~rcp.boot /\ ~rcp.reset
  BY <1>1, RcpBounds DEF RcpDevices
<1> QED BY <1>1, <1>2 DEF RcpInv, RcpTypes, Session, Installed, IsUnderWay, RcpIsAt, RcpIsBusy,
        LinesReleased, OkMeansInstalled

\* An update that goes on to its next stage.
LEMMA RcpGoes ==
    ASSUME RcpInv, rcpUpdate # None, NEW stage \in RcpStages, stage # "queued",
           RcpGoTo(stage), session', uart' \in {"absent", "partial", "ready"},
           rcp' \in RcpDevices, ~rcp'.boot, ~rcp'.reset, HasReset => rcp'.loader,
           HasReset /\ stage \in {"written", "verified"} =>
              rcp'.image = IF rcpUpdate.served.whole THEN rcpUpdate.served.image ELSE None,
           stage = "verified" => IsVerified(rcpUpdate.request, rcpUpdate.served)
    PROVE  RcpInv'
<1>1. rcpUpdate \in RcpUpdates /\ rcpResult = None /\ session \in BOOLEAN
  BY DEF RcpInv, RcpTypes
<1>2. rcpUpdate' = [rcpUpdate EXCEPT !.stage = stage] /\ rcpResult' = None
  BY <1>1 DEF RcpGoTo
<1>3. /\ rcpUpdate' \in RcpUpdates /\ rcpUpdate'.stage = stage
      /\ rcpUpdate'.request = rcpUpdate.request /\ rcpUpdate'.served = rcpUpdate.served
  BY <1>1, <1>2 DEF RcpUpdates
<1>4. rcpUpdate' # None
  BY <1>3, NoneIsNoUpdate DEF RcpUpdates
<1>5. IsUnderWay' /\ RcpIsBusy'
  BY <1>3, <1>4 DEF IsUnderWay, RcpIsBusy
<1>6. \A other \in RcpStages : RcpIsAt(other)' => other = stage
  BY <1>3 DEF RcpIsAt
<1>7. RcpTypes'
  BY <1>1, <1>2, <1>3 DEF RcpInv, RcpTypes
<1>8. Session'
  BY <1>5 DEF RcpInv, Session
<1>9. Installed'
  <2>1. "written" \in RcpStages /\ "verified" \in RcpStages
    BY DEF RcpStages
  <2>2. HasReset /\ (RcpIsAt("written") \/ RcpIsAt("verified"))' =>
           rcp'.image = IF rcpUpdate'.served.whole THEN rcpUpdate'.served.image ELSE None
    BY <1>3, <1>6, <2>1
  <2>3. RcpIsAt("verified")' => IsVerified(rcpUpdate'.request, rcpUpdate'.served)
    BY <1>3, <1>6, <2>1
  <2> QED BY <2>2, <2>3 DEF Installed
<1>10. LinesReleased' /\ OkMeansInstalled'
  BY <1>2, <1>5 DEF LinesReleased, OkMeansInstalled
<1> QED BY <1>7, <1>8, <1>9, <1>10 DEF RcpInv

\* An update that ends: its lines are free, unless it could not be prepared.
LEMMA RcpEnds ==
    ASSUME RcpInv, rcpUpdate # None,
           NEW status \in RcpStatuses, NEW stage \in 0..5, RcpEndWith(status, stage),
           uart' \in {"absent", "partial", "ready"}, session' = FALSE,
           rcp' \in RcpDevices, ~HasReset => ~rcp'.reset,
           status = "ok" \/ stage # 0 => ~rcp'.boot /\ ~rcp'.reset,
           HasReset /\ status = "ok" =>
              /\ rcp'.image # None /\ ~rcp'.loader
              /\ rcpUpdate.request.digest \in {None, rcp'.image}
              /\ rcpUpdate.request.version \in {None, rcp'.image.version}
    PROVE  RcpInv'
<1>1. /\ rcpUpdate' = None
      /\ rcpResult' = [status |-> status, stage |-> stage, request |-> rcpUpdate.request]
  BY DEF RcpEndWith
<1>2. rcpUpdate.request \in RcpRequests
  BY DEF RcpInv, RcpTypes, RcpUpdates
<1>3. /\ rcpResult' \in RcpResults /\ rcpResult'.status = status
      /\ rcpResult'.stage = stage /\ rcpResult'.request = rcpUpdate.request
  BY <1>1, <1>2 DEF RcpResults
<1>4. RcpTypes'
  BY <1>1, <1>3 DEF RcpTypes
<1>5. Session' /\ Installed'
  BY <1>1 DEF Session, IsUnderWay, Installed, RcpIsAt
<1>6. rcpResult' # None => LinesReleased'
  BY <1>3 DEF LinesReleased
<1>7. rcpResult' # None
  BY <1>3, NoneIsNoUpdate DEF RcpResults
<1>8. HasReset => OkMeansInstalled'
  BY <1>3 DEF OkMeansInstalled
<1> QED BY <1>4, <1>5, <1>6, <1>7, <1>8 DEF RcpInv

\* An update that is given up.
LEMMA Abandoning ==
    ASSUME RcpInv, rcpUpdate # None, NEW device \in RcpDevices, ~HasReset => ~device.reset,
           NEW status \in RcpStatuses \ {"ok"}, NEW stage \in 1..5, Abandon(device, status, stage), UNCHANGED uart
    PROVE  RcpInv'
<1>1. rcp' = ReleaseLines(device) /\ session' = FALSE /\ RcpEndWith(status, stage)
  BY DEF Abandon
<1>2. rcp' \in RcpDevices /\ ~rcp'.boot /\ ~rcp'.reset
  BY <1>1, Releasing
<1>3. uart' \in {"absent", "partial", "ready"} /\ stage \in 0..5 /\ status # "ok"
  BY DEF RcpInv, RcpTypes
<1> QED BY <1>1, <1>2, <1>3, RcpEnds

\* What a loader holds after a write is the image, and nothing else changes.
LEMMA Writing ==
    ASSUME NEW device \in RcpDevices, NEW image \in RcpImages \cup {None}
    PROVE  /\ Written(device, image) \in RcpDevices
           /\ Written(device, image).boot = device.boot
           /\ Written(device, image).reset = device.reset
           /\ Written(device, image).loader = device.loader
           /\ device.loader => Written(device, image).image = image
  BY DEF RcpDevices, Written

LEMMA PostRcpKeeps == RcpInv /\ PostRcp => RcpInv'
<1> SUFFICES ASSUME RcpInv, PostRcp PROVE RcpInv'
  OBVIOUS
<1>1. PICK request \in RcpRequests, served \in Offered :
        rcpUpdate' = [request |-> request, served |-> served, stage |-> "queued"]
  BY DEF PostRcp
<1>2. rcpUpdate = None /\ rcpResult' = None /\ UNCHANGED <<rcp, uart, session>>
  BY DEF PostRcp
<1>3. rcpUpdate' \in RcpUpdates /\ rcpUpdate'.stage = "queued"
  BY <1>1 DEF RcpUpdates, RcpStages
<1>4. rcpUpdate' # None
  BY <1>3, NoneIsNoUpdate DEF RcpUpdates
<1>5. RcpTypes'
  BY <1>2, <1>3 DEF RcpInv, RcpTypes
<1>6. Session'
  BY <1>2, <1>3 DEF RcpInv, Session, IsUnderWay
<1>7. Installed'
  BY <1>3 DEF Installed, RcpIsAt
<1>8. LinesReleased' /\ OkMeansInstalled'
  BY <1>2, <1>4 DEF LinesReleased, OkMeansInstalled, RcpIsBusy
<1> QED BY <1>5, <1>6, <1>7, <1>8 DEF RcpInv

\* The preparation, which may fail at the driver or at a line.
LEMMA PreparationKeeps == RcpInv /\ (Prepare \/ DriverFails \/ LineFails) => RcpInv'
<1> SUFFICES ASSUME RcpInv, Prepare \/ DriverFails \/ LineFails PROVE RcpInv'
  OBVIOUS
<1>1. /\ rcpUpdate # None /\ rcpUpdate.stage = "queued" /\ session = FALSE
      /\ rcp \in RcpDevices /\ (~HasReset => ~rcp.reset)
      /\ uart' \in {"absent", "partial", "ready"}
  BY DEF RcpInv, RcpTypes, Session, IsUnderWay, Prepare, DriverFails, LineFails, RcpIsAt
<1>2. /\ "recovery_failed" \in RcpStatuses /\ 0 \in 0..5 /\ "prepared" \in RcpStages
  BY DEF RcpStatuses, RcpStages
<1>3. CASE Prepare
  <2>1. rcp' = Final(EnterUpdateMode(rcp)) /\ session' = TRUE /\ RcpGoTo("prepared")
    BY <1>3 DEF Prepare
  <2>2. rcp' \in RcpDevices /\ ~rcp'.boot /\ ~rcp'.reset /\ (HasReset => rcp'.loader)
    BY <1>1, <2>1, Entering
  <2> QED BY <1>1, <1>2, <2>1, <2>2, RcpGoes
<1>4. CASE DriverFails
  <2>1. UNCHANGED <<rcp, session>> /\ RcpEndWith("recovery_failed", 0)
    BY <1>4 DEF DriverFails
  <2> QED BY <1>1, <1>2, <2>1, RcpEnds
<1>5. CASE LineFails
  <2>1. /\ rcp' \in CutShort(EnterUpdateMode(rcp)) /\ session' = session
        /\ RcpEndWith("recovery_failed", 0)
    BY <1>5 DEF LineFails
  <2>2. rcp' \in RcpDevices /\ (~HasReset => ~rcp'.reset)
    BY <1>1, <2>1, Entering
  <2> QED BY <1>1, <1>2, <2>1, <2>2, RcpEnds
<1> QED BY <1>3, <1>4, <1>5

\* What is so while an update is under way.
LEMMA UnderWay ==
    ASSUME RcpInv, rcpUpdate # None, rcpUpdate.stage # "queued"
    PROVE  /\ rcp \in RcpDevices /\ ~rcp.boot /\ ~rcp.reset /\ (HasReset => rcp.loader)
           /\ session = TRUE /\ uart \in {"absent", "partial", "ready"}
           /\ rcpUpdate \in RcpUpdates
  BY DEF RcpInv, RcpTypes, Session, IsUnderWay

\* The image is received and written.
LEMMA WritingKeeps ==
    RcpInv /\ (Open \/ OpenFails \/ Write \/ WriteFails \/ EndWriting) => RcpInv'
<1> SUFFICES ASSUME RcpInv, Open \/ OpenFails \/ Write \/ WriteFails \/ EndWriting
             PROVE RcpInv'
  OBVIOUS
<1>1. /\ rcpUpdate # None /\ rcpUpdate.stage # "queued" /\ uart' = uart
  BY DEF Open, OpenFails, Write, WriteFails, EndWriting, RcpIsAt
<1>2. /\ rcp \in RcpDevices /\ ~rcp.boot /\ ~rcp.reset /\ (HasReset => rcp.loader)
      /\ session = TRUE /\ uart \in {"absent", "partial", "ready"}
      /\ rcpUpdate \in RcpUpdates
  BY <1>1, UnderWay
<1>3. {"open", "writing", "written"} \subseteq RcpStages
  BY DEF RcpStages
<1>4. {"transport_failed", "apply_failed"} \subseteq RcpStatuses \ {"ok"}
  BY DEF RcpStatuses
<1>5. CASE Open
  <2>1. RcpGoTo("open") /\ UNCHANGED <<rcp, session>>
    BY <1>5 DEF Open
  <2> QED BY <1>1, <1>2, <1>3, <2>1, RcpGoes
<1>6. CASE OpenFails
  <2>1. Abandon(rcp, "apply_failed", 1) \/ Abandon(rcp, "transport_failed", 2)
    BY <1>6 DEF OpenFails
  <2>2. 1 \in 1..5 /\ 2 \in 1..5
    OBVIOUS
  <2> QED BY <1>1, <1>2, <1>4, <2>1, <2>2, Abandoning
<1>7. CASE Write
  <2>1. rcp' = Written(rcp, None) /\ RcpGoTo("writing") /\ session' = session
    BY <1>7 DEF Write
  <2>2. rcp' \in RcpDevices /\ ~rcp'.boot /\ ~rcp'.reset /\ (HasReset => rcp'.loader)
    BY <1>2, <2>1, Writing
  <2> QED BY <1>1, <1>2, <1>3, <2>1, <2>2, RcpGoes
<1>8. CASE WriteFails
  <2>1. PICK status \in {"transport_failed", "apply_failed"} :
          Abandon(Written(rcp, None), status, IF status = "transport_failed" THEN 3 ELSE 4)
    BY <1>8 DEF WriteFails
  <2> DEFINE stage == IF status = "transport_failed" THEN 3 ELSE 4
  <2>2. stage \in 1..5 /\ Abandon(Written(rcp, None), status, stage)
    BY <2>1
  <2> HIDE DEF stage
  <2>3. Written(rcp, None) \in RcpDevices /\ ~Written(rcp, None).reset
    BY <1>2, Writing
  <2> QED BY <1>1, <1>4, <2>2, <2>3, Abandoning
<1>9. CASE EndWriting
  <2> DEFINE image == IF rcpUpdate.served.whole THEN rcpUpdate.served.image ELSE None
  <2>1. rcp' = Written(rcp, image) /\ RcpGoTo("written") /\ session' = session
    BY <1>9 DEF EndWriting
  <2>2. image \in RcpImages \cup {None}
    BY <1>2 DEF RcpUpdates, Offered
  <2>3. /\ rcp' \in RcpDevices /\ ~rcp'.boot /\ ~rcp'.reset /\ (HasReset => rcp'.loader)
        /\ HasReset => rcp'.image = image
    <3> HIDE DEF image
    <3> QED BY <1>2, <2>1, <2>2, Writing
  <2> QED BY <1>1, <1>2, <1>3, <2>1, <2>3, RcpGoes
<1> QED BY <1>5, <1>6, <1>7, <1>8, <1>9

\* The image is verified and probed, and the co-processor is started with it.
LEMMA RecoveryKeeps ==
    RcpInv /\ (Verify \/ ProbeFails \/ Recover \/ RecoverFails) => RcpInv'
<1> SUFFICES ASSUME RcpInv, Verify \/ ProbeFails \/ Recover \/ RecoverFails PROVE RcpInv'
  OBVIOUS
<1>1. /\ rcpUpdate # None /\ rcpUpdate.stage \in {"written", "verified"} /\ uart' = uart
  BY DEF Verify, ProbeFails, Recover, RecoverFails, RcpIsAt
<1>2. /\ rcp \in RcpDevices /\ ~rcp.boot /\ ~rcp.reset /\ (HasReset => rcp.loader)
      /\ session = TRUE /\ uart \in {"absent", "partial", "ready"}
      /\ rcpUpdate \in RcpUpdates
  BY <1>1, UnderWay
<1>3. HasReset =>
        rcp.image = IF rcpUpdate.served.whole THEN rcpUpdate.served.image ELSE None
  BY <1>1 DEF RcpInv, Installed, RcpIsAt
<1>4. {"verify_failed", "probe_failed", "recovery_failed"} \subseteq RcpStatuses \ {"ok"}
  BY DEF RcpStatuses
<1>5. 5 \in 1..5 /\ 0 \in 0..5 /\ "ok" \in RcpStatuses /\ "verified" \in RcpStages
  BY DEF RcpStatuses, RcpStages
<1>6. CASE Abandon(rcp, "verify_failed", 5) \/ Abandon(rcp, "probe_failed", 5)
  BY <1>1, <1>2, <1>4, <1>5, <1>6, Abandoning
<1>7. CASE /\ IsVerified(rcpUpdate.request, rcpUpdate.served)
           /\ RcpGoTo("verified") /\ UNCHANGED <<rcp, session>>
  BY <1>1, <1>2, <1>3, <1>5, <1>7, RcpGoes
<1>8. CASE RecoverFails
  <2>1. PICK device \in CutShort(RebootTarget(rcp)) : Abandon(device, "recovery_failed", 5)
    BY <1>8 DEF RecoverFails
  <2>2. device \in RcpDevices /\ (~HasReset => ~device.reset)
    BY <1>2, Rebooting
  <2> QED BY <1>1, <1>4, <1>5, <2>1, <2>2, Abandoning
<1>9. CASE Recover
  <2>1. /\ rcp' = Final(RebootTarget(rcp)) /\ session' = FALSE /\ RcpEndWith("ok", 0)
        /\ rcpUpdate.stage = "verified" /\ IsProbed(rcpUpdate.request)
    BY <1>9 DEF Recover, RcpIsAt
  <2>2. /\ rcp' \in RcpDevices /\ ~rcp'.boot /\ ~rcp'.reset /\ rcp'.image = rcp.image
        /\ HasReset /\ rcp.image # None => ~rcp'.loader
    BY <1>2, <2>1, Rebooting
  <2>3. rcp.image # None /\ rcpUpdate.request.version \in {None, rcp.image.version}
    BY <2>1 DEF IsProbed
  <2>4. IsVerified(rcpUpdate.request, rcpUpdate.served)
    BY <1>1, <2>1 DEF RcpInv, Installed, RcpIsAt
  <2>5. HasReset => rcpUpdate.request.digest \in {None, rcp.image}
    BY <1>3, <2>3, <2>4 DEF IsVerified
  <2> QED BY <1>1, <1>2, <1>5, <2>1, <2>2, <2>3, <2>5, RcpEnds
<1> QED BY <1>6, <1>7, <1>8, <1>9 DEF Verify, ProbeFails

\* A boot of the gateway lets the lines go.
LEMMA ForgettingKeeps ==
    ASSUME RcpInv, NEW loader \in BOOLEAN, RcpForgets([rcp EXCEPT !.loader = loader])
    PROVE  RcpInv'
<1> DEFINE device == [rcp EXCEPT !.loader = loader]
<1>1. device \in RcpDevices /\ (~HasReset => ~device.reset)
  BY DEF RcpInv, RcpTypes, Session, RcpDevices
<1>2. /\ rcp' = ReleaseLines(device) /\ uart' = "absent" /\ session' = FALSE
      /\ rcpUpdate' = None /\ rcpResult' = None
  BY DEF RcpForgets
<1> HIDE DEF device
<1>3. rcp' \in RcpDevices /\ ~rcp'.boot /\ ~rcp'.reset
  BY <1>1, <1>2, Releasing
<1> QED BY <1>2, <1>3 DEF RcpInv, RcpTypes, Session, Installed, IsUnderWay, RcpIsAt, RcpIsBusy,
        LinesReleased, OkMeansInstalled

LEMMA NextRcp == RcpInv /\ RcpMoves => RcpInv'
<1> SUFFICES ASSUME RcpInv, RcpMoves PROVE RcpInv'
  OBVIOUS
<1>1. CASE RcpStep
  BY <1>1, PreparationKeeps, WritingKeeps, RecoveryKeeps DEF RcpStep
<1>2. CASE PostRcp
  BY <1>2, PostRcpKeeps
<1>3. CASE \E loader \in BOOLEAN : RcpForgets([rcp EXCEPT !.loader = loader])
  BY <1>3, ForgettingKeeps
<1>4. CASE UNCHANGED rcpVars
  BY <1>4 DEF rcpVars, RcpInv, RcpTypes, Session, Installed, IsUnderWay, RcpIsAt, RcpIsBusy,
     LinesReleased, OkMeansInstalled
<1> QED BY <1>1, <1>2, <1>3, <1>4 DEF RcpMoves

-----------------------------------------------------------------------------
(* The theorems *)

Inv == Bounds /\ GatewayInv /\ RcpInv

LEMMA InvIsTyped == Inv => TypeOK
<1> SUFFICES ASSUME Inv PROVE TypeOK
  OBVIOUS
<1>1. GatewayTypeOK
  BY DEF Inv, Bounds, GatewayInv, Types, OtaUpdates, OtaStages, GatewayTypeOK
<1>2. RcpTypeOK
  BY DEF Inv, RcpInv, RcpTypes, RcpDevices, RcpUpdates, RcpResults, RcpTypeOK
<1> QED BY <1>1, <1>2 DEF TypeOK, Inv, Bounds

THEOREM InvHolds == Spec => []Inv
<1>1. Init => Inv
  <2>1. Init => Bounds
    BY FaultBounds, FirmwareBounds DEF Init, Bounds
  <2> QED BY <2>1, InitGateway, InitRcp DEF Inv
<1>2. Inv /\ [Next]_vars => Inv'
  <2> SUFFICES ASSUME Inv, [Next]_vars PROVE Inv'
    OBVIOUS
  <2>1. GatewayStep /\ RcpMoves
    BY InvIsTyped, Steps DEF TypeOK
  <2> QED BY <2>1, BoundsHold, NextGateway, NextRcp DEF Inv
<1> QED BY <1>1, <1>2, PTL DEF Spec

\* The images of the gateway, whatever fails and whenever the power is cut: an image that is whole
\* runs, another is there while it is on trial, and none is confirmed that does not get through
\* the startup (hal_ota.c, ota_bootstrap.cpp, app_main.cpp).
THEOREM GatewayImagesAreSafe == Spec => []ImagesAreSafe
<1>1. Inv => ImagesAreSafe
  <2> SUFFICES ASSUME Inv PROVE ImagesAreSafe
    OBVIOUS
  <2>1. FallbackKept /\ ConfirmedStarts
    BY DEF Inv, GatewayInv, Boots, FallbackKept
  <2> QED BY <2>1, InvIsTyped DEF ImagesAreSafe
<1> QED BY <1>1, InvHolds, PTL

\* Neither line of the co-processor is held while no update runs, but after a preparation that
\* failed (hal_rcp.c).
THEOREM RcpLinesAreReleased == Spec => []LinesReleased
<1>1. Inv => LinesReleased
  BY DEF Inv, RcpInv
<1> QED BY <1>1, InvHolds, PTL

\* A co-processor whose update is told to have succeeded runs the image that was asked for, if
\* its RESET line is wired (hal_rcp.c, hal_rcp_uart_backend.c).
THEOREM RcpUpdatesAreSafe ==
    ASSUME HasReset
    PROVE  Spec => []RcpIsSafe
<1>1. Inv => RcpIsSafe
  BY DEF Inv, RcpInv, RcpIsSafe
<1> QED BY <1>1, InvHolds, PTL

LEMMA PartsAreNumbers ==
    ASSUME NEW version \in Seq(0..(PartBound - 1)), NEW i \in 1..4
    PROVE  Parts(version)[i] = IF i > Len(version) THEN 0 ELSE version[i]
<1> DEFINE Numbers == 0..(PartBound - 1)
<1>1. /\ PartBound \in Int /\ PartBound > 0
      /\ \A n \in Numbers : n \in Int /\ n >= 0 /\ n < PartBound
  BY GatewayBounds
<1>2. \A n \in Numbers : n % PartBound = n
  BY <1>1
<1>3. version \in Seq(Numbers)
  OBVIOUS
<1> HIDE DEF Numbers
<1>4. /\ Len(version) \in Nat /\ DOMAIN version = 1..Len(version)
      /\ \A j \in DOMAIN version : version[j] \in Numbers
  BY <1>3
<1>5. Parts(version)[i] = IF i \in DOMAIN version THEN version[i] % PartBound ELSE 0
  BY DEF Parts
<1> QED BY <1>2, <1>4, <1>5

\* An image becomes new when an update of it is finished.
LEMMA WhatIsStaged ==
    ASSUME GatewayInv, GatewayStep, NEW slot \in Slots, BecomesNew(slot)
    PROVE  /\ slot = Passive /\ slots'[slot] = ota.served.image /\ ota.served.image \in Images
           /\ IsExpected(ota.served.image, ota.manifest)
           /\ ota.manifest.project = Project /\ Validate(ota.manifest, Version)
<1>1. /\ states \in [Slots -> {"none", "new", "pending", "valid", "aborted"}]
      /\ slots \in [Slots -> Images \cup {None}]
      /\ running \in Slots /\ Passive \in Slots
  BY Others DEF GatewayInv, Types, Passive
<1>2. states[slot] # "new" /\ states'[slot] = "new"
  BY DEF BecomesNew
<1>3. ~AppMain
  BY <1>1, <1>2 DEF AppMain, StartupStep, StartupFails, Confirm, ConfirmFails
<1>4. ~Reload
  <2> SUFFICES ASSUME Reload PROVE FALSE
    OBVIOUS
  <2> DEFINE known == [other \in Slots |->
                         IF states[other] = "pending" THEN "aborted" ELSE states[other]]
  <2>1. known[slot] # "new" /\ known \in [Slots -> {"none", "new", "valid", "aborted"}]
    BY <1>1, <1>2
  <2>2. \E chosen : states' = [known EXCEPT ![chosen] = IF @ = "new" THEN "pending" ELSE @]
    <3> DEFINE first == IF known[target] = "aborted" THEN Other(target) ELSE target
               chosen == IF slots[first] = None THEN Other(first) ELSE first
    <3>1. states' = [known EXCEPT ![chosen] = IF @ = "new" THEN "pending" ELSE @]
      BY DEF Reload
    <3> HIDE DEF known, chosen
    <3> QED BY <3>1
  <2> HIDE DEF known
  <2>3. states'[slot] # "new"
    BY <2>1, <2>2
  <2> QED BY <1>2, <2>3
<1>5. ~PostOta /\ ~UNCHANGED gatewayVars
  BY <1>2 DEF PostOta, gatewayVars
<1>6. Finish
  BY <1>2, <1>3, <1>4, <1>5 DEF GatewayStep, OtaWorker, Connect, Describe, EraseRefused, Erase,
     Receive, FinishFails
<1>7. /\ ota # None /\ ota.stage = "received"
      /\ slots' = [slots EXCEPT ![Passive] = ota.served.image]
      /\ states' = [states EXCEPT ![Passive] = "new"]
  BY <1>6 DEF Finish, IsAt
<1>8. slot = Passive
  BY <1>1, <1>2, <1>7
<1>9. ota \in OtaUpdates
  BY <1>7 DEF GatewayInv, Types
<1>10. ota.served.image \in Images
  BY <1>9 DEF OtaUpdates, Offers
<1>11. slots'[slot] = ota.served.image
  BY <1>1, <1>7, <1>8
<1>12. /\ IsExpected(ota.served.image, ota.manifest)
       /\ ota.manifest.project = Project /\ Validate(ota.manifest, Version)
  BY <1>7 DEF GatewayInv, Accepted
<1> QED BY <1>8, <1>10, <1>11, <1>12

\* What is staged for the next boot is firmware of this project, and of the version that the
\* manifest names (validate_ota_manifest, hal_ota_platform_perform_https_update).
THEOREM StagedIsAsked == Spec => StagedAsAsked
<1>1. Inv /\ [Next]_vars
        => [\A slot \in Slots : BecomesNew(slot) =>
              /\ slots'[slot].project = Project
              /\ ota.manifest.version \in {None, slots'[slot].version}]_gatewayVars
  <2> SUFFICES ASSUME Inv, [Next]_vars, NEW slot \in Slots, BecomesNew(slot)
               PROVE  /\ slots'[slot].project = Project
                      /\ ota.manifest.version \in {None, slots'[slot].version}
    OBVIOUS
  <2>1. GatewayInv /\ GatewayStep
    BY InvIsTyped, Steps DEF TypeOK, Inv
  <2>2. /\ slots'[slot] = ota.served.image /\ IsExpected(ota.served.image, ota.manifest)
        /\ ota.manifest.project = Project
    BY <2>1, WhatIsStaged
  <2>3. Project # None
    BY GatewayBounds
  <2> QED BY <2>2, <2>3 DEF IsExpected
<1> QED BY <1>1, InvHolds, PTL DEF Spec, StagedAsAsked

\* With such versions, no older one is staged unless the manifest allows it or names no version:
\* the numbers are compared as they are, missing ones as zeros, with those of the image that runs
\* when the new one is staged, though the request was checked long before (is_downgrade).
THEOREM NoDowngradeIsStaged ==
    ASSUME VersionsAreNumbers
    PROVE  Spec => NoUnaskedDowngrade
<1>1. Inv /\ [Next]_vars
        => [\A slot \in Slots : BecomesNew(slot) /\ ~ota.manifest.allowDowngrade
                                   /\ ota.manifest.version # None =>
              LET new == slots'[slot].version
                  old == slots[running].version
                  Number(version, i) == IF i > Len(version) THEN 0 ELSE version[i]
              IN ~\E i \in 1..4 :
                    /\ Number(new, i) < Number(old, i)
                    /\ \A j \in 1..(i - 1) : Number(new, j) = Number(old, j)]_gatewayVars
  <2> DEFINE Number(version, i) == IF i > Len(version) THEN 0 ELSE version[i]
  <2> SUFFICES ASSUME Inv, [Next]_vars, NEW slot \in Slots, BecomesNew(slot),
                      ~ota.manifest.allowDowngrade, ota.manifest.version # None,
                      NEW i \in 1..4,
                      Number(slots'[slot].version, i) < Number(slots[running].version, i),
                      \A j \in 1..(i - 1) :
                         Number(slots'[slot].version, j) = Number(slots[running].version, j)
               PROVE  FALSE
    BY DEF BecomesNew
  <2>1. GatewayInv /\ GatewayStep
    BY InvIsTyped, Steps DEF TypeOK, Inv
  <2>2. /\ slots'[slot] = ota.served.image /\ ota.served.image \in Images
        /\ IsExpected(ota.served.image, ota.manifest)
        /\ Validate(ota.manifest, Version)
    BY <2>1, WhatIsStaged
  <2>3. slots[running] \in Images
    BY <2>1 DEF GatewayInv, Types, Boots
  <2> DEFINE new == slots'[slot].version
             old == slots[running].version
  <2>4. ota.manifest.version = new
    BY <2>2 DEF IsExpected
  <2>5. ~IsDowngrade(new, old)
    BY <2>2, <2>4 DEF Validate, Version
  <2>6. /\ new \in Seq(0..(PartBound - 1)) /\ old \in Seq(0..(PartBound - 1))
        /\ IsNumeric(new) /\ IsNumeric(old)
    BY <2>2, <2>3 DEF VersionsAreNumbers, IsNumeric
  <2> HIDE DEF new, old
  <2>7. ~Less(Parts(new), Parts(old))
    BY <2>5, <2>6 DEF IsDowngrade
  <2>8. \A j \in 1..4 : Parts(new)[j] = Number(new, j) /\ Parts(old)[j] = Number(old, j)
    BY <2>6, PartsAreNumbers
  <2>9. /\ Number(new, i) < Number(old, i)
        /\ \A j \in 1..(i - 1) : Number(new, j) = Number(old, j)
    BY DEF new, old
  <2> HIDE DEF Number
  <2>10. /\ Parts(new)[i] < Parts(old)[i]
         /\ \A j \in 1..(i - 1) : Parts(new)[j] = Parts(old)[j]
    <3>1. \A j \in 1..(i - 1) : j \in 1..4
      OBVIOUS
    <3> QED BY <2>8, <2>9, <3>1
  <2> QED BY <2>7, <2>10 DEF Less
<1> QED BY <1>1, InvHolds, PTL DEF Spec, NoUnaskedDowngrade

\* Both: no image is staged but one that was asked for and that may follow the one that runs.
THEOREM StagedImagesAreWanted ==
    ASSUME VersionsAreNumbers
    PROVE  Spec => StagedIsWanted
BY StagedIsAsked, NoDowngradeIsStaged DEF StagedIsWanted

=============================================================================
