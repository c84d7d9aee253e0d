----------------------------- MODULE MatterBridge -----------------------------
(***************************************************************************)
(* The Matter bridge: once a second its task fetches the snapshot of the   *)
(* devices that are online, compares it with the shadows it has cached,    *)
(* and publishes what has changed as attributes of Matter endpoints.       *)
(*                                                                         *)
(* A device has the endpoint that the map gives it, or one by its class of *)
(* sensor: a reading goes to the endpoint of its class, availability and   *)
(* staleness to the endpoint of the device's primary class, of which a     *)
(* device that has reported nothing has none.                              *)
(*                                                                         *)
(* An update is [key, value], a key <<endpoint, attribute>>.  Nobody else  *)
(* touches the bridge: fetching, comparing and publishing are one action.  *)
(* Not modelled: power commands from Matter, which pass through to the     *)
(* runtime and leave the bridge as it is; stop, which the application      *)
(* never calls, and the queue of updates once they are published, which    *)
(* only tests read.                                                        *)
(***************************************************************************)
EXTENDS Integers, SequencesExt

CONSTANTS
    Devices,      \* short addresses
    Classes,      \* classes of sensors, as a sequence: the first one a device has is primary
    Values(_),    \* what the sensors of a class report
    Default(_),   \* the endpoint of a class
    Map,          \* the endpoint of a device, NoEndpoint if it has none of its own
    NoEndpoint,
    None,         \* no device, no reading, nothing published
    Restored,     \* the devices that the core may have online at the start
    MaxDevices,   \* kServiceMaxDevices
    MaxChanges,   \* bounds of the model: changes of the devices,
    MaxFaults     \* and updates that the stack refuses

ClassSet == {Classes[i] : i \in DOMAIN Classes}
UpdateBound == 5 * MaxDevices  \* kMatterMaxUpdatesPerSync

AllValues == UNION {Values(class) : class \in ClassSet}
Readings == {readings \in [ClassSet -> AllValues \cup {None}] :
                \A class \in ClassSet : readings[class] \in Values(class) \cup {None}}
Present == [stale : BOOLEAN, readings : Readings]
Endpoints == ({Default(class) : class \in ClassSet} \cup {Map[d] : d \in Devices}) \ {NoEndpoint}
Keys == Endpoints \X (ClassSet \cup {"available", "stale"})

Shadows == [device : Present, endpoint : Endpoints \cup {NoEndpoint}]

\* There are sensors, and at the start the core has no more devices than later
Bounds ==
    /\ MaxDevices \in Nat \ {0} /\ {MaxChanges, MaxFaults} \subseteq Nat
    /\ IsFiniteSet(Devices)
    /\ Classes \in Seq(ClassSet) /\ Classes # <<>>
    /\ NoEndpoint \notin {Default(class) : class \in ClassSet}
    /\ None \notin Present \cup Shadows /\ None \notin AllValues \cup BOOLEAN
    /\ ClassSet \cap {"available", "stale"} = {}
    /\ Restored \subseteq [Devices -> Present \cup {None}]
    /\ \A snapshot \in Restored : Cardinality({d \in Devices : snapshot[d] # None}) <= MaxDevices

ASSUME MatterBridgeBounds == Bounds

VARIABLES
    devices,     \* the devices that the core has online, None for the others
    shadows,     \* cached_devices_: by device, [device, endpoint] or None
    attributes,  \* what Matter has under each key
    changes, faults,  \* what may still happen
    lost,        \* history: keys whose last update did not get through,
    announced    \* and devices announced as available since they appeared

vars == <<devices, shadows, attributes, changes, faults, lost, announced>>

Online(snapshot) == {d \in Devices : snapshot[d] # None}
KeysOf(updates) == {updates[i].key : i \in DOMAIN updates}

Init ==
    /\ devices \in Restored
    /\ shadows = [d \in Devices |-> None]
    /\ attributes = [key \in Keys |-> None]
    /\ changes = MaxChanges /\ faults = MaxFaults
    /\ lost = {} /\ announced = {}

-----------------------------------------------------------------------------
(* Endpoints *)

IsMapped(d) == Map[d] # NoEndpoint

\* map_resolve_endpoint
Resolve(d, class) == IF IsMapped(d) THEN Map[d] ELSE Default(class)

\* infer_primary_class, as the builder of the snapshot sets it; 0 if there is none
Primary(device) ==
    LET has == {i \in DOMAIN Classes : device.readings[Classes[i]] # None}
    IN IF has = {} THEN 0 ELSE CHOOSE i \in has : \A j \in has : i <= j

\* resolve_status_endpoint
StatusEndpoint(d, device) ==
    IF IsMapped(d) THEN Map[d]
    ELSE IF Primary(device) = 0 THEN NoEndpoint
    ELSE Default(Classes[Primary(device)])

-----------------------------------------------------------------------------
(* One period of the task *)

When(condition, endpoint, attribute, value) ==
    IF condition THEN <<[key |-> <<endpoint, attribute>>, value |-> value]>> ELSE <<>>

\* Status of a device of the snapshot: availability when it appears, staleness also later
StatusUpdates(d, shadow, device) ==
    LET endpoint == StatusEndpoint(d, device)
        isNew == shadow = None
    IN IF endpoint = NoEndpoint THEN <<>>
       ELSE When(isNew, endpoint, "available", TRUE)
            \o When(isNew \/ shadow.device.stale # device.stale, endpoint, "stale", device.stale)

\* Variant for the runs' mutants: a reading is published when the sensor appears
ReadingUpdatesOnce(d, shadow, device) ==
    FlattenSeq([i \in DOMAIN Classes |->
        LET class == Classes[i]
            reading == device.readings[class]
        IN When(/\ reading # None
                /\ shadow = None \/ shadow.device.readings[class] = None,
                Resolve(d, class), class, reading)])

\* Readings that are new or have changed
ReadingUpdates(d, shadow, device) ==
    FlattenSeq([i \in DOMAIN Classes |->
        LET class == Classes[i]
            reading == device.readings[class]
        IN When(/\ reading # None
                /\ shadow = None \/ shadow.device.readings[class] # reading,
                Resolve(d, class), class, reading)])

\* Variant for the runs' mutants: the departure of a device without readings is not told
DepartureOfSensors(shadow) ==
    When(shadow.endpoint # NoEndpoint /\ Primary(shadow.device) # 0,
         shadow.endpoint, "available", FALSE)

\* A device of the cache that the snapshot no longer has
Departure(shadow) ==
    When(shadow.endpoint # NoEndpoint, shadow.endpoint, "available", FALSE)

\* sync_snapshot: everything there is to publish
Updates ==
    LET here == SetToSeq(Online(devices))
        gone == SetToSeq(Online(shadows) \ Online(devices))
    IN FlattenSeq([i \in DOMAIN here |->
           StatusUpdates(here[i], shadows[here[i]], devices[here[i]])
           \o ReadingUpdates(here[i], shadows[here[i]], devices[here[i]])])
       \o FlattenSeq([i \in DOMAIN gone |-> Departure(shadows[gone[i]])])

\* The shadow of a device after the period
Shadow(d) ==
    IF devices[d] = None THEN None
    ELSE [device |-> devices[d], endpoint |-> StatusEndpoint(d, devices[d])]

\* publish_update_to_hal, for the updates that get through: the last one of a key counts
Publish(updates) ==
    attributes' = [key \in Keys |->
        LET about == {i \in DOMAIN updates : updates[i].key = key}
        IN IF about = {} THEN attributes[key] ELSE updates[Max(about)].value]

Announces(updates, d) ==
    \E i \in DOMAIN updates :
        updates[i] = [key |-> <<StatusEndpoint(d, devices[d]), "available">>, value |-> TRUE]

\* run_loop, sync_runtime_snapshot, sync_snapshot: what does not fit in the queue is left
\* out, and so may be an update that the stack refuses
Sync(updates, refused) ==
    LET fits == SubSeq(updates, 1, Min({Len(updates), UpdateBound}))
        passed == IF refused \in DOMAIN fits THEN RemoveAt(fits, refused) ELSE fits
    IN /\ Publish(passed)
       /\ lost' = (lost \ KeysOf(passed)) \cup (KeysOf(updates) \ KeysOf(passed))
       /\ shadows' = [d \in Devices |-> Shadow(d)]
       /\ announced' = {d \in Online(devices) : d \in announced \/ Announces(fits, d)}
       /\ UNCHANGED <<devices, changes>>

SyncOk == \E updates \in {Updates} : Sync(updates, 0) /\ UNCHANGED faults

SyncRefused ==
    /\ faults > 0 /\ faults' = faults - 1
    /\ \E updates \in {Updates} : \E refused \in DOMAIN updates : Sync(updates, refused)

-----------------------------------------------------------------------------
\* The core publishes another state
DevicesChange ==
    /\ changes > 0 /\ changes' = changes - 1
    /\ \E d \in Devices, device \in Present \cup {None} :
          /\ device # devices[d]
          /\ devices' = [devices EXCEPT ![d] = device]
    /\ Cardinality(Online(devices')) <= MaxDevices
    /\ UNCHANGED <<shadows, attributes, faults, lost, announced>>

Next == SyncOk \/ SyncRefused \/ DevicesChange

Spec == Init /\ [][Next]_vars

\* The task goes on
FairSpec == Spec /\ WF_vars(SyncOk)

-----------------------------------------------------------------------------
(* Properties *)

\* Every variable holds a value of its type, within the bounds
TypeOK ==
    /\ devices \in [Devices -> Present \cup {None}]
    /\ \A d \in Online(shadows) : shadows[d] \in Shadows
    /\ Cardinality(Online(devices)) <= MaxDevices /\ Cardinality(Online(shadows)) <= MaxDevices
    /\ DOMAIN attributes = Keys
    /\ \A key \in Keys : attributes[key] \in AllValues \cup BOOLEAN \cup {None}
    /\ changes \in 0..MaxChanges /\ faults \in 0..MaxFaults
    /\ lost \subseteq Keys /\ announced \subseteq Online(shadows)

\* Whether no other device may use the endpoints of a device
EndpointsOf(d) == {Resolve(d, class) : class \in ClassSet}
Alone(d) == \A other \in Devices \ {d} : EndpointsOf(other) \cap EndpointsOf(d) = {}

Has(endpoint, attribute, value) ==
    <<endpoint, attribute>> \in lost \/ attributes[<<endpoint, attribute>>] = value

\* Whether Matter has a device as some image of the devices says.  The status of a device
\* without an endpoint of its own is left out: it may never be published
Follows(d, image) ==
    LET device == image[d] IN
    /\ device # None =>
          /\ \A class \in ClassSet :
                device.readings[class] # None =>
                    Has(Resolve(d, class), class, device.readings[class])
          /\ IsMapped(d) =>
                Has(Map[d], "available", TRUE) /\ Has(Map[d], "stale", device.stale)
    /\ device = None /\ IsMapped(d) =>
          Has(Map[d], "available", FALSE) \/ Has(Map[d], "available", None)

\* What the bridge takes for published is published: the shadows and the attributes never
\* disagree about a device that shares no endpoint, except for updates that were lost in a
\* full queue or by the stack (sync_snapshot)
ShadowsAreTold ==
    \A d \in Devices :
        Alone(d) => Follows(d, [o \in Devices |->
                                   IF shadows[o] = None THEN None ELSE shadows[o].device])

\* The shadows keep to their bounds and to what Matter has been told
ShadowsAreSound == TypeOK /\ ShadowsAreTold

\* When the devices no longer change, the endpoints come to show them
EndpointsSettle == <>[](\A d \in Devices : Alone(d) => Follows(d, devices))

\* "First active device appearance emits availability=true" (README.md:243): a device that
\* the bridge has taken for active was announced.  It is not when it has no endpoint yet
AppearanceEmits == \A d \in Online(shadows) : d \in announced
=============================================================================
