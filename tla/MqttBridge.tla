------------------------------ MODULE MqttBridge ------------------------------
(***************************************************************************)
(* The MQTT bridge: it keeps on the broker a retained image of the devices *)
(* that the core has online, and takes commands from there.                *)
(*                                                                         *)
(* Four tasks meet in it.  The bridge's own task publishes what is         *)
(* pending, fetches a snapshot, compares it under the lock with the        *)
(* devices it has cached, and publishes again, once a second.  The task of *)
(* the MQTT client reports the connection and delivers commands; an        *)
(* accepted command is echoed at once and overrides the snapshots for a    *)
(* while.  The main task starts the bridge.  The OTA worker takes the      *)
(* client away while it downloads and gives back another one if the update *)
(* fails.                                                                  *)
(*                                                                         *)
(* A message is [topic, value], a topic <<kind, device>>.  Without a       *)
(* session the client keeps messages in its outbox, in order.  Not         *)
(* modelled: the text of topics and payloads; commands that set a          *)
(* reporting profile, which pass through to the Configuration; stop, which *)
(* the application never calls.                                            *)
(***************************************************************************)
EXTENDS Integers, SequencesExt

CONSTANTS
    Devices,     \* short addresses
    Readings,    \* what sensors report,
    NoReading,   \* and what a device has before its first report
    Restored,    \* the devices that the core may have online at the start
    None,        \* no device, no override, no message
    MaxDevices,  \* kServiceMaxDevices
    BatchBound,  \* kDrainBatchCapacity
    Window,      \* kMqttPowerOverrideWindowMs, in periods of the task
    MaxChanges,  \* bounds of the model: changes of the devices,
    MaxCommands, \* commands,
    MaxFaults    \* and what goes wrong or interrupts

QueueBound == 3 * MaxDevices  \* kMaxMqttPublicationsPerSync

Present == [power : BOOLEAN, reading : Readings \cup {NoReading}]

ASSUME MqttBridgeBounds ==
    /\ {MaxDevices, BatchBound, Window} \subseteq Nat \ {0}
    /\ {MaxChanges, MaxCommands, MaxFaults} \subseteq Nat
    /\ IsFiniteSet(Devices)
    /\ NoReading \notin Readings
    /\ None \notin Present \cup {"connected", "subscribe", "error", "disconnected"}
    /\ Restored \subseteq [Devices -> Present \cup {None}]

VARIABLES
    devices,    \* the devices that the core has online, None for the others
    cache,      \* cached_devices_
    pending,    \* pending_publications_
    overrides,  \* power_overrides_: by device, [on, left] or None
    republish,  \* discovery_republish_requested_
    subscribed, \* command_topics_subscribed_
    status,     \* runtime_status_cache_, and what the runtime was told: [connected, error]
    enabled,    \* transport_enabled_
    at,         \* where the bridge's task is,
    batch,      \* the messages it publishes,
    taken,      \* and the snapshot that it fetched
    client,     \* the client of the HAL: "none", "made" or "started"
    connected,  \* g_hal_mqtt.connected
    link,       \* whether the client has a session with the broker
    event,      \* what the client's task reports
    outbox,     \* the messages it still owes the broker
    boot,       \* what the main task does
    ota,        \* what the OTA worker has done with the client
    retained,   \* what the broker retains, by topic
    listening,  \* whether it knows the subscriptions of this session
    changes, commands, faults,  \* what may still happen
    lost,       \* history: topics whose last message will not reach the broker,
    renewed,    \* whether the client was replaced under a subscription,
    overtaken   \* and whether a connection was reported before start noted its own

syncVars == <<cache, pending, overrides, republish>>
taskVars == <<at, batch, taken>>
halVars == <<client, connected, link, event>>
statusVars == <<subscribed, status>>
brokerVars == <<outbox, retained, listening>>
workerVars == <<boot, ota>>
budgetVars == <<changes, commands, faults>>
historyVars == <<lost, renewed, overtaken>>
vars == <<devices, syncVars, enabled, taskVars, halVars, brokerVars, workerVars,
          statusVars, budgetVars, historyVars>>

Kinds == {"availability", "state", "telemetry", "discovery"}
Topics == Kinds \X Devices
Statuses == [connected : BOOLEAN,
             error : {"none", "init_failed", "start_failed", "subscribe_failed"}]
Connected == [connected |-> TRUE, error |-> "none"]
Disconnected == [connected |-> FALSE, error |-> "none"]

Online(snapshot) == {d \in Devices : snapshot[d] # None}
Active == {d \in Devices : overrides[d] # None}
TopicsOf(messages) == {messages[i].topic : i \in DOMAIN messages}
Lesser(a, b) == IF a < b THEN a ELSE b
FirstOf(messages, n) == SubSeq(messages, 1, Lesser(n, Len(messages)))
AfterFirst(messages, n) == SubSeq(messages, n + 1, Len(messages))

Init ==
    /\ devices \in Restored
    /\ cache = [d \in Devices |-> None] /\ pending = <<>>
    /\ overrides = [d \in Devices |-> None] /\ republish = TRUE
    /\ subscribed = FALSE /\ status = Disconnected /\ enabled = FALSE
    /\ at = "delay" /\ batch = <<>> /\ taken = cache
    /\ client = "none" /\ connected = FALSE /\ link = FALSE /\ event = None
    /\ outbox = <<>> /\ boot = "init" /\ ota = "idle"
    /\ retained = [topic \in Topics |-> None] /\ listening = FALSE
    /\ changes = MaxChanges /\ commands = MaxCommands /\ faults = MaxFaults
    /\ lost = {} /\ renewed = FALSE /\ overtaken = FALSE

-----------------------------------------------------------------------------
(* What is published *)

Message(kind, d, value) == <<[topic |-> <<kind, d>>, value |-> value]>>

\* build_availability_publication, build_state_publication, build_telemetry_publication
Availability(d, online) == Message("availability", d, online)
State(d, device) == Message("state", d, device.power)
Telemetry(d, device) == Message("telemetry", d, device.reading)

\* build_switch_discovery: every device is a switch,
PowerEntity(device) == {"power"}

\* build_temperature_discovery, and its likes for the other sensors: once it has reported
SensorEntity(device) == IF device.reading = NoReading THEN {} ELSE {"sensor"}

\* build_homeassistant_discovery_messages
Entities(device) == PowerEntity(device) \cup SensorEntity(device)
Discovery(d, device) == Message("discovery", d, Entities(device))

\* discovery_schema_changed
SchemaChanged(previous, current) == Entities(previous) # Entities(current)

\* The messages about some devices, one device after the other
ForEach(ds, MessagesOf(_)) ==
    LET order == SetToSeq(ds) IN FlattenSeq([i \in DOMAIN order |-> MessagesOf(order[i])])

When(condition, messages) == IF condition THEN messages ELSE <<>>

\* Variant for the runs' mutants: the comparison with the cache forgets the readings
UpdatesOfPower(d, previous, current) ==
    IF previous = None
    THEN Availability(d, TRUE) \o State(d, current) \o Telemetry(d, current)
    ELSE When(previous.power # current.power, State(d, current))

\* sync_snapshot, for a device of the snapshot
Updates(d, previous, current) ==
    IF previous = None
    THEN Availability(d, TRUE) \o State(d, current) \o Telemetry(d, current)
    ELSE When(previous.power # current.power, State(d, current))
         \o When(previous.reading # current.reading, Telemetry(d, current))

\* ... and for one that has gone
Departure(d) == Availability(d, FALSE)

\* Everything that sync_snapshot has to say, before the queue is full
Publications(snapshot) ==
    ForEach(Online(snapshot), LAMBDA d : Updates(d, cache[d], snapshot[d]))
    \o ForEach(Online(cache) \ Online(snapshot), Departure)

\* publish_homeassistant_discovery
Rediscovered(snapshot) ==
    {d \in Online(snapshot) :
        \/ republish
        \/ cache[d] = None
        \/ SchemaChanged(cache[d], snapshot[d])}

\* The value under a topic when the broker will have some more messages
Latest(messages, topic) ==
    LET about == {i \in DOMAIN messages : messages[i].topic = topic}
    IN IF about = {} THEN retained[topic] ELSE messages[Max(about)].value

Retain(messages) == retained' = [topic \in Topics |-> Latest(messages, topic)]

\* hal_mqtt_publish: without a session the client keeps the message in its outbox, and
\* without a client it is lost
CanPublish == client # "none"
Publish(messages) ==
    \/ link /\ Retain(messages) /\ UNCHANGED outbox
    \/ ~ link /\ outbox' = (IF CanPublish THEN outbox \o messages ELSE outbox)
              /\ UNCHANGED retained
LostOf(messages, later) ==
    IF CanPublish THEN {} ELSE TopicsOf(messages) \ TopicsOf(later)

-----------------------------------------------------------------------------
(* The status of the connection *)

\* set_runtime_status, publish_runtime_status: the runtime keeps the last one posted
SetStatus(new) == status' = new

-----------------------------------------------------------------------------
(* The main task *)

bootUnchanged == UNCHANGED <<devices, syncVars, taskVars, brokerVars, ota, subscribed,
                             changes, commands, lost, renewed>>

\* start_transport up to hal_mqtt_start
StartTransport ==
    /\ boot = "init"
    /\ client' = "started" /\ boot' = "noting"
    /\ UNCHANGED <<connected, link, event, status, enabled, faults, overtaken>>
    /\ bootUnchanged

StartTransportFails ==
    /\ boot = "init" /\ faults > 0
    /\ \E error \in {"init_failed", "start_failed"} :
          /\ client' = IF error = "init_failed" THEN "none" ELSE "made"
          /\ SetStatus([connected |-> FALSE, error |-> error])
    /\ enabled' = FALSE /\ boot' = "done" /\ faults' = faults - 1
    /\ UNCHANGED <<connected, link, event, overtaken>>
    /\ bootUnchanged

\* start_transport from hal_mqtt_start on; start
TransportStarted ==
    /\ boot = "noting"
    /\ SetStatus(Disconnected)
    /\ enabled' = TRUE /\ boot' = "done"
    /\ overtaken' = (connected /\ (event = "subscribe" => subscribed))
    /\ UNCHANGED <<halVars, faults>>
    /\ bootUnchanged

-----------------------------------------------------------------------------
(* The task of the bridge *)

taskUnchanged == UNCHANGED <<devices, enabled, halVars, listening, workerVars,
                             statusVars, budgetVars, renewed, overtaken>>

\* publish_pending_publications: messages are taken under the lock
TakeBatch ==
    /\ at \in {"first", "second"} /\ enabled
    /\ batch = <<>> /\ pending # <<>>
    /\ batch' = FirstOf(pending, BatchBound)
    /\ pending' = AfterFirst(pending, BatchBound)
    /\ UNCHANGED <<cache, overrides, republish, at, taken, outbox, retained, lost>>
    /\ taskUnchanged

\* ... and published without it
PublishOne ==
    /\ batch # <<>>
    /\ Publish(<<Head(batch)>>)
    /\ lost' = lost \cup LostOf(<<Head(batch)>>, Tail(batch) \o pending)
    /\ batch' = Tail(batch)
    /\ UNCHANGED <<syncVars, at, taken>>
    /\ taskUnchanged

Published ==
    /\ at \in {"first", "second"} /\ batch = <<>>
    /\ IF enabled THEN pending = <<>> ELSE TRUE
    /\ pending' = <<>>
    /\ lost' = lost \cup TopicsOf(pending)
    /\ at' = IF at = "first" THEN "fetch" ELSE "delay"
    /\ UNCHANGED <<cache, overrides, republish, batch, taken, outbox, retained>>
    /\ taskUnchanged

\* sync_runtime_snapshot up to the lock
Fetch ==
    /\ at = "fetch"
    /\ taken' = IF enabled THEN devices ELSE taken
    /\ at' = IF enabled THEN "sync" ELSE "second"
    /\ UNCHANGED <<syncVars, batch, outbox, retained, lost>>
    /\ taskUnchanged


\* apply_power_overrides: what it makes of the snapshot,
Expired(d) == overrides[d].left = 0
Holds(d) == d \in Active /\ ~ Expired(d) /\ taken[d] # None
Overridden ==
    [d \in Devices |->
        IF Holds(d) THEN [taken[d] EXCEPT !.power = overrides[d].on] ELSE taken[d]]

\* and which overrides are left
OverridesLeft ==
    [d \in Devices |->
        IF \/ d \notin Active
           \/ Expired(d)
           \/ Holds(d) /\ taken[d].power = overrides[d].on
        THEN None ELSE overrides[d]]

\* sync_runtime_snapshot under the lock
Sync ==
    /\ at = "sync"
    /\ LET all == Publications(Overridden)
           discoveries == ForEach(Rediscovered(Overridden),
                                  LAMBDA d : Discovery(d, Overridden[d]))
       IN /\ Publish(discoveries)
          /\ pending' = FirstOf(all, QueueBound)
          /\ lost' = (lost \ TopicsOf(discoveries \o pending'))
                     \cup (TopicsOf(pending \o all) \ TopicsOf(pending'))
                     \cup LostOf(discoveries, <<>>)
    /\ cache' = Overridden
    /\ overrides' = OverridesLeft
    /\ republish' = FALSE
    /\ at' = "second"
    /\ taken' = [d \in Devices |-> None]
    /\ UNCHANGED batch
    /\ taskUnchanged

\* run_loop: a period goes by
Delay ==
    /\ at = "delay" /\ boot = "done"
    /\ at' = "first"
    /\ overrides' = [d \in Devices |->
          IF d \in Active /\ overrides[d].left > 0
          THEN [overrides[d] EXCEPT !.left = @ - 1] ELSE overrides[d]]
    /\ UNCHANGED <<cache, pending, republish, batch, taken, outbox, retained, lost>>
    /\ taskUnchanged

-----------------------------------------------------------------------------
(* The task of the MQTT client *)

clientUnchanged == UNCHANGED <<devices, cache, pending, overrides, enabled, taskVars, client,
                               workerVars, changes, commands, lost>>

\* The client finds the broker, and sends what is in its outbox (the library)
Connect ==
    /\ client = "started" /\ ~ link /\ event = None
    /\ link' = TRUE /\ event' = "connected"
    /\ Retain(outbox) /\ outbox' = <<>>
    /\ UNCHANGED <<republish, statusVars, connected, listening, faults, renewed, overtaken>>
    /\ clientUnchanged

handlerUnchanged == clientUnchanged /\ UNCHANGED <<outbox, retained>>

\* ... or does not, or loses it
LinkFails ==
    /\ client = "started" /\ event = None /\ faults > 0
    /\ link' = FALSE /\ listening' = FALSE /\ faults' = faults - 1
    /\ event' \in {"error", "disconnected"}
    /\ UNCHANGED <<republish, statusVars, connected, renewed, overtaken>>
    /\ handlerUnchanged

\* hal_mqtt_event_handler, MQTT_EVENT_ERROR
HandleError ==
    /\ event = "error"
    /\ connected' = FALSE /\ event' = "disconnected"
    /\ UNCHANGED <<republish, statusVars, link, listening, faults, renewed, overtaken>>
    /\ handlerUnchanged

\* Variant for the runs' mutants: the subscription is thought to survive the session
HandleDisconnectedStays ==
    /\ event = "disconnected"
    /\ connected' = FALSE /\ event' = None
    /\ SetStatus([status EXCEPT !.connected = FALSE])
    /\ renewed' = FALSE /\ overtaken' = FALSE
    /\ UNCHANGED <<subscribed, republish, link, listening, faults>>
    /\ handlerUnchanged

\* on_transport_disconnected
HandleDisconnected ==
    /\ event = "disconnected"
    /\ connected' = FALSE /\ event' = None
    /\ subscribed' = FALSE
    /\ SetStatus([status EXCEPT !.connected = FALSE])
    /\ renewed' = FALSE /\ overtaken' = FALSE
    /\ UNCHANGED <<republish, link, listening, faults>>
    /\ handlerUnchanged

\* on_transport_connected, handle_transport_connected
HandleConnected ==
    /\ event = "connected"
    /\ connected' = TRUE /\ event' = "subscribe"
    /\ SetStatus(Connected)
    /\ republish' = TRUE /\ overtaken' = FALSE
    /\ UNCHANGED <<subscribed, link, listening, faults, renewed>>
    /\ handlerUnchanged

\* ... subscribe_command_topics
AlreadySubscribed ==
    /\ event = "subscribe" /\ subscribed
    /\ event' = None
    /\ UNCHANGED <<republish, statusVars, connected, link, listening, faults, renewed, overtaken>>
    /\ handlerUnchanged

Subscribe ==
    /\ event = "subscribe" /\ ~ subscribed
    /\ subscribed' = TRUE /\ listening' = TRUE /\ event' = None
    /\ IF connected THEN SetStatus(Connected) ELSE UNCHANGED status
    /\ UNCHANGED <<republish, connected, link, faults, renewed, overtaken>>
    /\ handlerUnchanged

\* handle_transport_subscribe_failure
SubscribeFails ==
    /\ event = "subscribe" /\ ~ subscribed /\ faults > 0
    /\ SetStatus([connected |-> FALSE, error |-> "subscribe_failed"])
    /\ event' = None /\ faults' = faults - 1
    /\ UNCHANGED <<republish, subscribed, connected, link, listening, renewed, overtaken>>
    /\ handlerUnchanged

\* sync_device_state
HasRoom == Len(pending) < QueueBound

\* set_power_override: there may be no place left in the table
WithOverride(d, on) ==
    IF d \in Active \/ Cardinality(Active) < MaxDevices
    THEN [overrides EXCEPT ![d] = [on |-> on, left |-> Window]]
    ELSE overrides

\* handle_power_command, of a command that the runtime accepts; sync_device_state
HandlePowerCommand(d, on) ==
    /\ link /\ listening /\ event = None /\ commands > 0
    /\ commands' = commands - 1
    /\ overrides' = WithOverride(d, on)
    /\ IF cache[d] = None \/ cache[d].power = on
       THEN UNCHANGED <<cache, pending, lost>>
       ELSE LET echo == State(d, [cache[d] EXCEPT !.power = on])
            IN /\ cache' = [cache EXCEPT ![d].power = on]
               /\ pending' = IF HasRoom THEN pending \o echo ELSE pending
               /\ lost' = IF HasRoom THEN lost \ TopicsOf(echo) ELSE lost \cup TopicsOf(echo)
    /\ UNCHANGED <<devices, republish, enabled, taskVars, halVars, brokerVars, workerVars,
                   statusVars, changes, faults, renewed, overtaken>>

-----------------------------------------------------------------------------
(* The OTA worker *)

otaUnchanged == UNCHANGED <<devices, syncVars, enabled, taskVars, retained, boot, statusVars,
                            changes, commands, overtaken>>

\* hal_mqtt_stop, which the client's task must be idle for, and which calls nobody back
OtaStops ==
    /\ ota = "idle" /\ client = "started" /\ event = None /\ faults > 0
    /\ ota' = "stopped" /\ client' = "made"
    /\ link' = FALSE /\ listening' = FALSE /\ connected' = FALSE
    /\ faults' = faults - 1
    /\ renewed' = subscribed
    /\ UNCHANGED <<event, outbox, lost>>
    /\ otaUnchanged

\* hal_mqtt_release_resources
OtaReleases ==
    /\ ota = "stopped"
    /\ ota' = "released" /\ client' = "none"
    /\ outbox' = <<>>
    /\ lost' = lost \cup (TopicsOf(outbox) \ TopicsOf(batch \o pending))
    /\ UNCHANGED <<connected, link, event, listening, faults, renewed>>
    /\ otaUnchanged

\* The update has failed: hal_mqtt_restore_resources, hal_mqtt_start
OtaResumes ==
    /\ ota = "released"
    /\ ota' = "idle"
    /\ \/ client' = "started" /\ UNCHANGED faults
       \/ client' = "none" /\ faults > 0 /\ faults' = faults - 1
    /\ UNCHANGED <<connected, link, event, outbox, listening, lost, renewed>>
    /\ otaUnchanged

-----------------------------------------------------------------------------
\* What an event makes of a device
Changed(device) ==
    IF device = None
    THEN {[power |-> FALSE, reading |-> NoReading]}
    ELSE {None, [device EXCEPT !.power = ~ @]}
         \cup {[device EXCEPT !.reading = reading] : reading \in Readings \ {device.reading}}

\* The core publishes another state
DevicesChange ==
    /\ changes > 0 /\ changes' = changes - 1
    /\ \E d \in Devices :
          \E device \in Changed(devices[d]) : devices' = [devices EXCEPT ![d] = device]
    /\ Cardinality(Online(devices')) <= MaxDevices
    /\ UNCHANGED <<syncVars, enabled, taskVars, halVars, brokerVars, workerVars, statusVars,
                   commands, faults, historyVars>>

Task == TakeBatch \/ PublishOne \/ Published \/ Fetch \/ Sync \/ Delay
Handler ==
    \/ HandleError \/ HandleDisconnected \/ HandleConnected
    \/ AlreadySubscribed \/ Subscribe \/ SubscribeFails
Main == StartTransport \/ StartTransportFails \/ TransportStarted
Worker == OtaReleases \/ OtaResumes

Next ==
    \/ Task \/ Handler \/ Main \/ Worker
    \/ Connect \/ LinkFails
    \/ \E d \in Devices, on \in BOOLEAN : HandlePowerCommand(d, on)
    \/ OtaStops \/ DevicesChange

Spec == Init /\ [][Next]_vars

\* Every task goes on, and a broker that is there in the end is found
Fairness ==
    /\ WF_vars(Task) /\ WF_vars(Handler) /\ WF_vars(Main) /\ WF_vars(Worker)
    /\ WF_vars(Connect)

FairSpec == Spec /\ Fairness

-----------------------------------------------------------------------------
(* Properties *)

MessageQueue(messages) ==
    \A i \in DOMAIN messages : messages[i].topic \in Topics

\* Every variable holds a value of its type, and the tables and queues keep to their bounds
TypeOK ==
    /\ {devices, cache, taken} \subseteq [Devices -> Present \cup {None}]
    /\ \A d \in Active : overrides[d] \in [on : BOOLEAN, left : 0..Window]
    /\ Cardinality(Active) <= MaxDevices
    /\ MessageQueue(pending) /\ MessageQueue(batch) /\ MessageQueue(outbox)
    /\ Len(pending) <= QueueBound /\ Len(batch) <= BatchBound
    /\ {republish, subscribed, enabled, connected, link, listening, renewed, overtaken}
          \subseteq BOOLEAN
    /\ status \in Statuses
    /\ at \in {"first", "fetch", "sync", "second", "delay"}
    /\ client \in {"none", "made", "started"}
    /\ event \in {None, "connected", "subscribe", "error", "disconnected"}
    /\ boot \in {"init", "noting", "done"} /\ ota \in {"idle", "stopped", "released"}
    /\ DOMAIN retained = Topics /\ lost \subseteq Topics
    /\ changes \in 0..MaxChanges /\ commands \in 0..MaxCommands /\ faults \in 0..MaxFaults

\* Whether a value under a topic is an image of the devices
Mirrors(topic, value, image) ==
    LET d == topic[2] IN
    IF image[d] = None
    THEN topic[1] = "availability" => value \in {None, FALSE}
    ELSE value = CASE topic[1] = "availability" -> TRUE
                   [] topic[1] = "state" -> image[d].power
                   [] topic[1] = "telemetry" -> image[d].reading
                   [] topic[1] = "discovery" -> Entities(image[d])

\* What the bridge has cached as told is what the broker was told last, or will be: the
\* cache, the queue, the batch taken from it without the lock, the client's outbox and the
\* broker never disagree (sync_snapshot, sync_device_state), except for topics whose last
\* message was lost on the way
CacheIsOnItsWay ==
    \A topic \in Topics \ lost : Mirrors(topic, Latest(outbox \o batch \o pending, topic), cache)

\* While a command is being carried out the bridge holds to what it has echoed, whatever the
\* snapshots say, and whenever they were taken
CommandHolds ==
    \A d \in Active : cache[d] # None => cache[d].power = overrides[d].on

\* The cache is what the broker is told, and a command under way overrides both
CacheHolds == TypeOK /\ CacheIsOnItsWay /\ CommandHolds

\* When the gateway counts itself connected and nothing is under way, the broker knows its
\* subscriptions, unless the status tells of the failure.  Two cases are excepted: a client
\* that was replaced under its subscription, and a start that overtook its own connection
ConnectedIsSubscribed ==
    connected /\ event = None =>
        \/ listening
        \/ status.error = "subscribe_failed"
        \/ renewed \/ overtaken

\* The status that clients of the API see follows the connection in the end
StatusSettles ==
    []<>(\/ status.connected = (connected /\ subscribed)
         \/ client = "none" \/ overtaken)

\* When the devices no longer change, what the broker retains becomes their image: no
\* override, no batch and no snapshot taken earlier keeps it away for ever.  Topics are
\* excepted whose last message was lost, and a transport that never started
BrokerSettles ==
    <>[](enabled => \A topic \in Topics \ lost : Mirrors(topic, retained[topic], devices))


=============================================================================
