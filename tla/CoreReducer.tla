---------------------------- MODULE CoreReducer ----------------------------
(***************************************************************************)
(* core::core_reduce, the pure function that applies an event to the core  *)
(* state, and yields the effects to execute.                               *)
(*                                                                         *)
(* A record measures one value of each kind; a reading that is invalid     *)
(* leaves no reading.  Effects are kept by name.                           *)
(***************************************************************************)
EXTENDS Integers, FiniteSets

CONSTANTS
    MaxDevices,    \* kMaxDevices
    Ids,           \* the valid DeviceIds
    NoId,          \* the invalid DeviceId
    Addrs,         \* the valid short addresses
    NoAddr,        \* kUnknownDeviceShortAddr
    Kinds,         \* kinds of telemetry
    Readings,      \* what a measurement may yield
    NoReading,     \* no valid measurement
    Times,         \* the times of reports; 0 is none
    RevisionRange  \* the revision counts modulo this: 2^32

ASSUME DevicesAssumption == MaxDevices \in Nat
ASSUME NamesAssumption ==
    NoId \notin Ids /\ NoAddr \notin Addrs /\ NoReading \notin Readings
ASSUME NumbersAssumption ==
    0 \in Times /\ RevisionRange \in Nat /\ RevisionRange > 1

Slots == 1 .. MaxDevices

LifecycleEvents == {"interviewed", "bound", "configured", "stale"}

EventTypes ==
    {"joined", "left", "networkUp", "networkDown", "onOff", "telemetry",
     "setPower", "refresh", "succeeded", "timedOut", "failed"}
      \cup LifecycleEvents

\* An event; a field its type does not use may have any value.
Event == [type : EventTypes, id : Ids \cup {NoId}, addr : Addrs \cup {NoAddr},
          on : BOOLEAN, kind : Kinds, reading : Readings \cup {NoReading},
          at : Times]

ReportingStates ==
    {"unknown", "interviewed", "bound", "configured", "active", "stale"}

DeviceRecord ==
    [id : Ids \cup {NoId}, addr : Addrs \cup {NoAddr}, online : BOOLEAN,
     power : BOOLEAN, reporting : ReportingStates, stale : BOOLEAN,
     seen : Times, readings : [Kinds -> Readings \cup {NoReading}]]

FreeRecord ==
    [id |-> NoId, addr |-> NoAddr, online |-> FALSE, power |-> FALSE,
     reporting |-> "unknown", stale |-> FALSE, seen |-> 0,
     readings |-> [k \in Kinds |-> NoReading]]

State ==
    [revision : 0 .. (RevisionRange - 1), count : Nat, network : BOOLEAN,
     status : 0 .. 3, devices : [Slots -> DeviceRecord]]

InitialState ==
    [revision |-> 0, count |-> 0, network |-> FALSE, status |-> 0,
     devices |-> [i \in Slots |-> FreeRecord]]

-----------------------------------------------------------------------------

\* Whether the record d is the one an event for id and addr is about: a valid
\* identity is the only key consulted; without one, the address finds only
\* records that have no identity either.
Matches(d, id, addr) ==
    IF id # NoId THEN d.id = id
    ELSE addr # NoAddr /\ d.id = NoId /\ d.addr = addr

Found(s, e)  == {i \in Slots : Matches(s.devices[i], e.id, e.addr)}

Unused(d) == d.id = NoId /\ d.addr = NoAddr

FreeSlots(s) == {i \in Slots : Unused(s.devices[i])}

First(S) == CHOOSE i \in S : \A j \in S : i <= j

\* What the handler of an event makes of the state: "changed" is state_changed,
\* which decides whether the result gets a revision of its own.
Result(s, changed, effects) ==
    [next |-> s, changed |-> changed, effects |-> effects]

Keep(s) == Result(s, FALSE, {})

\* Variant for the runs' mutants: the change is not persisted.
NotedUnsaved(s, others) == Result(s, TRUE, {"telemetry"} \cup others)

\* A changed state is persisted and published as telemetry.
Noted(s, others) == Result(s, TRUE, {"persist", "telemetry"} \cup others)

WithDevice(s, i, d) == [s EXCEPT !.devices = [@ EXCEPT ![i] = d]]

Counted(s, n) == [s EXCEPT !.count = @ + n]

-----------------------------------------------------------------------------

\* A join that names neither an identity nor an address.
Nameless(e) == e.id = NoId /\ e.addr = NoAddr

Enter(s, i, e) ==
    Noted(Counted(WithDevice(s, i,
            [s.devices[i] EXCEPT !.id = e.id, !.addr = e.addr,
                                 !.online = TRUE, !.power = FALSE]), 1),
          {"interview"})

\* A join of a known device: one that is online only has its address refreshed.
Rejoin(s, i, e) ==
    LET d == [s.devices[i] EXCEPT !.addr = e.addr, !.online = TRUE]
    IN CASE ~ s.devices[i].online ->
              Noted(Counted(WithDevice(s, i, d), 1), {"interview"})
         [] s.devices[i].online /\ s.devices[i].addr # e.addr ->
              Noted(WithDevice(s, i, d), {})
         [] OTHER -> Keep(s)

\* Variant for the runs' mutants: a join takes a slot without looking for the
\* device first.
JoinAnew(s, e) ==
    CASE ~ Nameless(e) /\ FreeSlots(s) # {} -> Enter(s, First(FreeSlots(s)), e)
      [] OTHER -> Keep(s)

Join(s, e) ==
    CASE ~ Nameless(e) /\ Found(s, e) # {} -> Rejoin(s, First(Found(s, e)), e)
      [] ~ Nameless(e) /\ Found(s, e) = {} /\ FreeSlots(s) # {} ->
           Enter(s, First(FreeSlots(s)), e)
      [] OTHER -> Keep(s)

Leave(s, e) ==
    LET i == First(Found(s, e))
        counted == s.devices[i].online /\ s.count > 0
    IN IF Found(s, e) = {} THEN Keep(s)
       ELSE Noted(Counted(WithDevice(s, i, FreeRecord), IF counted THEN -1 ELSE 0),
                  {})

Network(s, up) ==
    IF s.network = up THEN Keep(s) ELSE Noted([s EXCEPT !.network = up], {})

\* The device an event is about becomes d, if the handler says it changed.
Update(s, e, d, changed, effects) ==
    IF changed THEN Noted(WithDevice(s, First(Found(s, e)), d), effects)
    ELSE Keep(WithDevice(s, First(Found(s, e)), d))

OnOff(s, e) ==
    LET d == s.devices[First(Found(s, e))]
    IN IF Found(s, e) = {} \/ (d.power = e.on /\ d.online) THEN Keep(s)
       ELSE Update(s, e, [d EXCEPT !.power = e.on, !.online = TRUE], TRUE, {})

\* The step of the reporting set-up that follows each of its events.
NextStep(type) == CASE type = "interviewed" -> {"bind"}
                    [] type = "bound"       -> {"configure"}
                    [] type = "configured"  -> {"read"}
                    [] OTHER                -> {}

\* apply_reporting_state, which compares what it assigns.
Lifecycle(s, e) ==
    LET d == s.devices[First(Found(s, e))]
        stale == e.type = "stale"
    IN IF Found(s, e) = {} THEN Keep(s)
       ELSE Update(s, e, [d EXCEPT !.reporting = e.type, !.stale = stale],
                   d.reporting # e.type \/ d.stale # stale, NextStep(e.type))

\* Variant for the runs' mutants: the time of the report is not compared.
TelemetryUntimed(s, e) ==
    LET d == s.devices[First(Found(s, e))]
    IN IF Found(s, e) = {} THEN Keep(s)
       ELSE Update(s, e, [d EXCEPT !.reporting = "active", !.stale = FALSE,
                                   !.seen = e.at, !.readings[e.kind] = e.reading],
                   \/ d.reporting # "active"
                   \/ d.stale
                   \/ d.readings[e.kind] # e.reading, {})

\* apply_telemetry_update, likewise.
Telemetry(s, e) ==
    LET d == s.devices[First(Found(s, e))]
    IN IF Found(s, e) = {} THEN Keep(s)
       ELSE Update(s, e, [d EXCEPT !.reporting = "active", !.stale = FALSE,
                                   !.seen = e.at, !.readings[e.kind] = e.reading],
                   \/ d.reporting # "active"
                   \/ d.stale
                   \/ d.seen # e.at
                   \/ d.readings[e.kind] # e.reading, {})

\* The result of a command is published, but neither persisted nor telemetry.
Completed(s, status) == Result([s EXCEPT !.status = status], TRUE, {"emit"})

Handle(s, e) ==
    CASE e.type = "joined"      -> Join(s, e)
      [] e.type = "left"        -> Leave(s, e)
      [] e.type = "networkUp"   -> Network(s, TRUE)
      [] e.type = "networkDown" -> Network(s, FALSE)
      [] e.type = "onOff"       -> OnOff(s, e)
      [] e.type = "telemetry"   -> Telemetry(s, e)
      [] e.type \in LifecycleEvents -> Lifecycle(s, e)
      [] e.type = "setPower"    -> Result(s, FALSE, {"send"})
      [] e.type = "refresh"     -> Result(s, FALSE, {"refresh"})
      [] e.type = "succeeded"   -> Completed(s, 1)
      [] e.type = "timedOut"    -> Completed(s, 2)
      [] e.type = "failed"      -> Completed(s, 3)

\* core_reduce: only a change gets the next revision.
Reduce(s, e) ==
    LET r == Handle(s, e)
    IN [next |-> IF r.changed
                 THEN [r.next EXCEPT !.revision = (s.revision + 1) % RevisionRange]
                 ELSE r.next,
        effects |-> r.effects]

=============================================================================
