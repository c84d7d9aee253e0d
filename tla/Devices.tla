------------------------------- MODULE Devices -------------------------------
(***************************************************************************)
(* The life of the Zigbee devices as the service follows it: joins and     *)
(* their deduplication (ZigbeeLifecycleCoordinator, DeviceManager), forced *)
(* removals with their deadlines, the reporting state of each device, its  *)
(* silence, and the occupancy it reports (ReportingManager).               *)
(*                                                                         *)
(* The Zigbee stack's task posts what it hears of devices to the event     *)
(* queue; the runtime task alternates between process_pending, which hands *)
(* each event to the managers and then to the core reducer, and tick.      *)
(* Events of the runtime carry a short address and no identity.            *)
(***************************************************************************)
EXTENDS CoreReducer, Sequences

CONSTANTS
    QueueCapacity,   \* kEventQueueCapacity
    EventsPerCycle,  \* kMaxProcessedEventsPerCycle
    Removals,        \* kMaxPendingForceRemove
    History,         \* the join candidates that are remembered
    ClockRange,      \* the clock counts modulo this: 2^32
    DedupWindow,     \* kJoinDedupWindowMs
    SilenceWindow,   \* kDefaultMaxSilenceWindowMs
    RemovalDelay,    \* force_remove_timeout_ms
    Debounce, Hold,  \* of occupancy, as configured
    MaxInputs,       \* bounds of the model: what is heard in all,
    Heard            \* and what of which address

ASSUME DevicesSizes ==
    /\ {QueueCapacity, EventsPerCycle, History} \subseteq Nat \ {0}
    /\ {Removals, MaxInputs} \subseteq Nat
ASSUME DevicesClock ==
    /\ ClockRange \in Nat \ {0}
    /\ {DedupWindow, SilenceWindow, RemovalDelay, Debounce, Hold}
         \subseteq 0 .. (ClockRange - 1)
    /\ Times = 0 .. (ClockRange - 1)
ASSUME DevicesHeard ==
    Heard \in [Addrs -> SUBSET {"joined", "left", "interviewed", "bound", "configured",
                                "telemetry", "occupancy", "removal"}]
ASSUME DevicesReadings == "occupancy" \in Kinds /\ BOOLEAN \subseteq Readings

VARIABLES
    core,       \* the published core state
    queue,      \* event_queue_
    now,        \* last_tick_ms_
    pc,         \* where the runtime task is in its loop
    current,    \* the event it has popped
    processed,  \* the events processed in this cycle
    todo,       \* addresses whose event this tick has still to queue
    entries,    \* ReportingManager's entry of an address
    occupancy,  \* and the occupancy fields of that entry
    removal,    \* pending_force_remove_: the deadline of an address
    seen,       \* join_candidate_history_
    announcing, \* the join that the Zigbee task has still to queue
    inputs,     \* what may still be heard of devices and users
    lost        \* history: events of an address that found no room

runtimeVars == <<now, pc, current, processed, todo>>
managerVars == <<entries, occupancy, removal>>
vars == <<core, queue, runtimeVars, managerVars, seen, announcing, inputs, lost>>

NoDeadline == -1
NoEvent == [type |-> "none"]

About(type, a) ==
    [type |-> type, id |-> NoId, addr |-> a, on |-> FALSE,
     kind |-> "occupancy", reading |-> NoReading, at |-> 0]

\* Reports: value_u32 is the time, and occupancy comes raw from the device
\* or, once normalised, as telemetry.
Reported(a)    == [About("telemetry", a) EXCEPT !.kind = "link", !.at = now]
Raw(a, on)     == [About("occupancy", a) EXCEPT !.on = on]
Settled(a, on) == [About("telemetry", a) EXCEPT !.reading = on, !.at = now]

NoEntry == [state |-> "none", last |-> 0, stalePending |-> FALSE]
NoOccupancy == [valid |-> FALSE, stable |-> FALSE, pending |-> FALSE,
                target |-> FALSE, since |-> 0, hold |-> 0]
NotSeen == [addr |-> NoAddr, at |-> 0]

Init ==
    /\ core = InitialState
    /\ queue = <<>>
    /\ now = 1 % ClockRange
    /\ pc = "pending" /\ current = NoEvent /\ processed = 0 /\ todo = {}
    /\ entries = [a \in Addrs |-> NoEntry]
    /\ occupancy = [a \in Addrs |-> NoOccupancy]
    /\ removal = [a \in Addrs |-> NoDeadline]
    /\ seen = [i \in 1 .. History |-> NotSeen]
    /\ announcing = NoAddr
    /\ inputs = MaxInputs
    /\ lost = [a \in Addrs |-> {}]

-----------------------------------------------------------------------------
(* The event queue *)

Full == Len(queue) >= QueueCapacity

\* push_event, which counts what finds no room: what is lost is noted as what
Push(e, what) ==
    /\ queue' = IF Full THEN queue ELSE Append(queue, e)
    /\ lost' = [lost EXCEPT ![e.addr] = IF Full THEN @ \cup {what} ELSE @ \ {what}]

\* Somebody else's event, of which nothing is noted
Post(e) ==
    /\ ~ Full
    /\ queue' = Append(queue, e)
    /\ UNCHANGED lost

\* is_due and is_deadline_reached: the signed difference is not negative
Due(t) == (now - t) % ClockRange < (ClockRange + 1) \div 2
After(d) == (now + d) % ClockRange

-----------------------------------------------------------------------------
(* Joins, in the Zigbee stack's task *)

SlotOf(a)  == {i \in 1 .. History : seen[i].addr = a}
Recent(a)  == \E i \in SlotOf(a) : (now - seen[i].at) % ClockRange <= DedupWindow
Oldest     == CHOOSE i \in 1 .. History :
                  \A j \in 1 .. History :
                      seen[i].at < seen[j].at \/ (seen[i].at = seen[j].at /\ i <= j)
\* The slot that is_duplicate_join_candidate writes
CandidateSlot(a) ==
    IF SlotOf(a) # {} THEN First(SlotOf(a))
    ELSE IF SlotOf(NoAddr) # {} THEN First(SlotOf(NoAddr)) ELSE Oldest

\* Nothing is heard any more; or one more thing
Hush == inputs = 0
Input == ~ Hush /\ inputs' = inputs - 1

\* handle_join_candidate, of a device announced a moment ago
Suppress(a) ==
    /\ ~ Hush /\ announcing = NoAddr
    /\ Recent(a)
    /\ UNCHANGED vars

\* ... of another, which is remembered before its event is queued
Announce(a) ==
    /\ Input /\ announcing = NoAddr
    /\ "joined" \in Heard[a]
    /\ ~ Recent(a)
    /\ seen' = [seen EXCEPT ![CandidateSlot(a)] = [addr |-> a, at |-> now]]
    /\ announcing' = a
    /\ UNCHANGED <<core, queue, runtimeVars, managerVars, lost>>

QueueJoin ==
    /\ announcing # NoAddr
    /\ Push(About("joined", announcing), "join")
    /\ announcing' = NoAddr
    /\ UNCHANGED <<core, runtimeVars, managerVars, seen, inputs>>

\* What else the HAL event adapter hears of a device, one event at a time:
\* it has left, ...
HearLeave(a) ==
    /\ "left" \in Heard[a]
    /\ Post(About("left", a))

\* ... a step of its reporting set-up has succeeded, ...
HearStep(a) ==
    \E type \in (LifecycleEvents \ {"stale"}) \cap Heard[a] : Post(About(type, a))

\* ... it reports a value, of which each part that is there, the signal's
\* strength and quality first, is an event of its own, ...
HearReport(a) ==
    /\ "telemetry" \in Heard[a]
    /\ Post(Reported(a))

\* ... or its occupancy, raw.
HearOccupancy(a) ==
    /\ "occupancy" \in Heard[a]
    /\ \E on \in BOOLEAN : Post(Raw(a, on))

Hear(a) ==
    /\ Input /\ announcing = NoAddr
    /\ HearLeave(a) \/ HearStep(a) \/ HearReport(a) \/ HearOccupancy(a)
    /\ UNCHANGED <<core, runtimeVars, managerVars, seen, announcing>>

-----------------------------------------------------------------------------
(* The managers, in the runtime task *)

Known(a) == entries[a].state # "none"
EntryRoom == Cardinality({a \in Addrs : Known(a)}) < MaxDevices

\* Variant for the runs' mutants: a report does not end the degradation.
EntryAfterUnhealed(en, e) ==
    CASE e.type = "joined"      -> [en EXCEPT !.state = "pendingInterview", !.stalePending = FALSE]
      [] e.type = "interviewed" -> [en EXCEPT !.state = "pendingBind"]
      [] e.type = "bound"       -> [en EXCEPT !.state = "pendingConfigure"]
      [] e.type = "configured"  -> [en EXCEPT !.state = "active", !.stalePending = FALSE]
      [] e.type = "telemetry"   -> [en EXCEPT !.stalePending = FALSE,
                                              !.state = IF @ = "degraded" THEN @ ELSE "active",
                                              !.last = IF e.at = 0 THEN @ ELSE e.at]
      [] e.type = "stale"       -> [en EXCEPT !.state = "degraded", !.stalePending = FALSE]
      [] e.type = "left"        -> NoEntry
      [] OTHER                  -> en

\* ReportingManager::handle_event, of an entry that exists.  Zero stands for
\* no report, so that a report at time zero does not count.
EntryAfter(en, e) ==
    CASE e.type = "joined"      -> [en EXCEPT !.state = "pendingInterview", !.stalePending = FALSE]
      [] e.type = "interviewed" -> [en EXCEPT !.state = "pendingBind"]
      [] e.type = "bound"       -> [en EXCEPT !.state = "pendingConfigure"]
      [] e.type = "configured"  -> [en EXCEPT !.state = "active", !.stalePending = FALSE]
      [] e.type = "telemetry"   -> [en EXCEPT !.state = "active", !.stalePending = FALSE,
                                              !.last = IF e.at = 0 THEN @ ELSE e.at]
      [] e.type = "stale"       -> [en EXCEPT !.state = "degraded", !.stalePending = FALSE]
      [] e.type = "left"        -> NoEntry
      [] OTHER                  -> en

\* normalize_occupancy_report: what becomes of the occupancy o, and whether
\* the change is reported.  Unused fields are kept at their defaults.
Settle(o, on) ==
    [now |-> [NoOccupancy EXCEPT !.valid = TRUE, !.stable = on,
                                 !.hold = IF on /\ Hold > 0 THEN After(Hold)
                                          ELSE IF on THEN o.hold ELSE 0],
     emit |-> TRUE]
Unsettled(o) == [now |-> o, emit |-> FALSE]
Waiting(o) == [o EXCEPT !.pending = FALSE, !.target = FALSE, !.since = 0]

Normalize(o, on) ==
    CASE ~ o.valid -> Settle(o, on)
      [] o.valid /\ on = o.stable -> Unsettled(Waiting(o))
      [] o.valid /\ on # o.stable /\ ~ on /\ Hold > 0 /\ ~ Due(o.hold) -> Unsettled(o)
      [] OTHER ->
           CASE Debounce = 0 -> Settle(o, on)
             [] Debounce > 0 /\ (~ o.pending \/ o.target # on) ->
                  Unsettled([o EXCEPT !.pending = TRUE, !.target = on, !.since = now])
             [] OTHER -> IF Due((o.since + Debounce) % ClockRange)
                         THEN Settle(o, on) ELSE Unsettled(o)

Begin ==
    /\ pc = "pending" /\ processed < EventsPerCycle /\ queue # <<>>
    /\ queue' = Tail(queue)
    /\ current' = Head(queue)
    /\ pc' = "apply"
    /\ processed' = processed + 1
    /\ UNCHANGED <<core, now, todo, managerVars, seen, announcing, inputs, lost>>

\* apply_managers of a raw occupancy report; core_reduce has nothing to do
ApplyOccupancy ==
    LET a == current.addr
        n == Normalize(occupancy[a], current.on) IN
    /\ pc = "apply" /\ current.type = "occupancy"
    /\ IF Known(a) \/ EntryRoom
       THEN /\ entries' = IF Known(a) THEN entries
                          ELSE [entries EXCEPT ![a].state = "unknown"]
            /\ occupancy' = [occupancy EXCEPT ![a] = n.now]
            /\ IF n.emit THEN Push(Settled(a, n.now.stable), "occupancy")
               ELSE UNCHANGED <<queue, lost>>
       ELSE UNCHANGED <<entries, occupancy, queue, lost>>
    /\ pc' = "pending" /\ current' = NoEvent
    /\ UNCHANGED <<core, now, processed, todo, removal, seen, announcing, inputs>>

\* Variant for the runs' mutants: the candidates keep a device that left.
ForgetNot(a) == seen

\* DeviceManager::handle_event: clear_join_candidate
Forget(a) == [i \in 1 .. History |-> IF seen[i].addr = a THEN NotSeen ELSE seen[i]]

Online(s, a) == \E i \in Slots : s.devices[i].addr = a /\ s.devices[i].online

\* Variant for the runs' mutants: the forced removal of a device that joins
\* is cancelled.
RemovalEndsOn(e) == e.type \in {"left", "joined"}

RemovalEnds(e) == e.type = "left"

\* apply_managers of any other event, then core_reduce and publish
Apply ==
    LET e == current
        a == current.addr
        r == Reduce(core, e).next IN
    /\ pc = "apply" /\ e.type # "occupancy"
    /\ entries' = IF Known(a) \/ (e.type = "joined" /\ EntryRoom)
                  THEN [entries EXCEPT ![a] = EntryAfter(@, e)] ELSE entries
    /\ occupancy' = IF e.type = "left" THEN [occupancy EXCEPT ![a] = NoOccupancy]
                    ELSE occupancy
    /\ removal' = IF RemovalEnds(e) THEN [removal EXCEPT ![a] = NoDeadline]
                  ELSE removal
    /\ seen' = IF e.type = "left" THEN Forget(a) ELSE seen
    /\ core' = r
    /\ lost' = CASE e.type = "joined" /\ ~ Online(r, a) -> [lost EXCEPT ![a] = @ \cup {"join"}]
                 [] e.type = "telemetry" /\ e.kind = "occupancy" /\ ~ Online(r, a) ->
                      [lost EXCEPT ![a] = @ \cup {"occupancy"}]
                 [] e.type = "left" -> [lost EXCEPT ![a] = @ \ {"leave", "occupancy"}]
                 [] OTHER -> lost
    /\ pc' = "pending" /\ current' = NoEvent
    /\ UNCHANGED <<queue, now, processed, todo, announcing, inputs>>

\* schedule_force_remove: a deadline to move, or room for one more
RemovalRoom(a) ==
    \/ removal[a] # NoDeadline
    \/ Cardinality({b \in Addrs : removal[b] # NoDeadline}) < Removals

\* A network request to remove the device by force
ForceRemove(a) ==
    /\ pc = "pending" /\ Input
    /\ "removal" \in Heard[a]
    /\ RemovalRoom(a)
    /\ removal' = [removal EXCEPT ![a] = After(RemovalDelay)]
    /\ UNCHANGED <<core, queue, runtimeVars, entries, occupancy, seen, announcing, lost>>

-----------------------------------------------------------------------------
(* tick *)

Silent(a) ==
    /\ entries[a].state = "active" /\ entries[a].last # 0
    /\ ~ entries[a].stalePending
    /\ (now' - (entries[a].last + SilenceWindow)) % ClockRange < (ClockRange + 1) \div 2

\* collect_stale_candidates marks them all
Tick ==
    /\ pc = "pending" /\ (queue = <<>> \/ processed = EventsPerCycle)
    /\ now' = After(1)
    /\ todo' = {a \in Addrs : Silent(a)}
    /\ entries' = [a \in Addrs |-> [entries[a] EXCEPT !.stalePending = @ \/ a \in todo']]
    /\ pc' = "stale" /\ processed' = 0
    /\ UNCHANGED <<core, queue, current, occupancy, removal, seen, announcing, inputs, lost>>

\* Variant for the runs' mutants: the mark of a device whose event finds no
\* room stays.
QueueStaleOnce(a) ==
    /\ pc = "stale" /\ a \in todo
    /\ todo' = todo \ {a}
    /\ IF Full THEN UNCHANGED queue
       ELSE queue' = Append(queue, About("stale", a))
    /\ UNCHANGED <<core, now, pc, current, processed, managerVars, seen, announcing, inputs, lost>>

QueueStale(a) ==
    /\ pc = "stale" /\ a \in todo
    /\ todo' = todo \ {a}
    /\ IF Full
       THEN /\ entries' = [entries EXCEPT ![a].stalePending = FALSE]
            /\ UNCHANGED queue
       ELSE /\ queue' = Append(queue, About("stale", a))
            /\ UNCHANGED entries
    /\ UNCHANGED <<core, now, pc, current, processed, occupancy, removal, seen,
                   announcing, inputs, lost>>

\* process_force_remove_timeouts: collect_expired_force_remove ...
Expire ==
    /\ pc = "stale" /\ todo = {}
    /\ todo' = {a \in Addrs : removal[a] # NoDeadline /\ Due(removal[a])}
    /\ removal' = [a \in Addrs |-> IF a \in todo' THEN NoDeadline ELSE removal[a]]
    /\ pc' = "removals"
    /\ UNCHANGED <<core, queue, now, current, processed, entries, occupancy, seen,
                   announcing, inputs, lost>>

\* ... whose devices leave, as far as there is room
QueueLeave(a) ==
    /\ pc = "removals" /\ a \in todo
    /\ todo' = todo \ {a}
    /\ Push(About("left", a), "leave")
    /\ UNCHANGED <<core, now, pc, current, processed, managerVars, seen, announcing, inputs>>

EndTick ==
    /\ pc = "removals" /\ todo = {}
    /\ pc' = "pending"
    /\ UNCHANGED <<core, queue, now, current, processed, todo, managerVars, seen,
                   announcing, inputs, lost>>

-----------------------------------------------------------------------------

Runtime ==
    \/ Begin \/ ApplyOccupancy \/ Apply \/ Tick \/ Expire \/ EndTick
    \/ \E a \in Addrs : QueueStale(a) \/ QueueLeave(a)

Environment ==
    \E a \in Addrs : Suppress(a) \/ Announce(a) \/ Hear(a) \/ ForceRemove(a)

Next == Runtime \/ QueueJoin \/ Environment

\* The runtime task loops for ever, and the Zigbee task ends what it began.
Spec == Init /\ [][Next]_vars /\ WF_vars(Runtime) /\ WF_vars(QueueJoin)

-----------------------------------------------------------------------------

Events == [type : {"joined", "left", "telemetry", "occupancy"} \cup LifecycleEvents,
           id : {NoId}, addr : Addrs, on : BOOLEAN, kind : {"link", "occupancy"},
           reading : BOOLEAN \cup {NoReading}, at : Times]

TypeOK ==
    /\ core \in State
    /\ queue \in Seq(Events) /\ Len(queue) <= QueueCapacity
    /\ now \in Times
    /\ pc \in {"pending", "apply", "stale", "removals"}
    /\ current \in Events \cup {NoEvent} /\ (current = NoEvent) = (pc # "apply")
    /\ processed \in 0 .. EventsPerCycle
    /\ todo \subseteq Addrs
    /\ entries \in [Addrs -> [state : {"none", "unknown", "pendingInterview", "pendingBind",
                                       "pendingConfigure", "active", "degraded"},
                              last : Times, stalePending : BOOLEAN]]
    /\ Cardinality({a \in Addrs : Known(a)}) <= MaxDevices
    /\ occupancy \in [Addrs -> [valid : BOOLEAN, stable : BOOLEAN, pending : BOOLEAN,
                                target : BOOLEAN, since : Times, hold : Times]]
    /\ removal \in [Addrs -> Times \cup {NoDeadline}]
    /\ Cardinality({a \in Addrs : removal[a] # NoDeadline}) <= Removals
    /\ seen \in [1 .. History -> [addr : Addrs \cup {NoAddr}, at : Times]]
    /\ announcing \in Addrs \cup {NoAddr}
    /\ inputs \in 0 .. MaxInputs
    /\ lost \in [Addrs -> SUBSET {"join", "leave", "occupancy"}]

In(e) == current = e \/ \E i \in DOMAIN queue : queue[i] = e
JoinWaits(a) == announcing = a \/ In(About("joined", a))

\* An announcement is taken for a repetition only if the device is known or
\* about to be - unless its join has been lost to a full queue or a full state:
\* DeviceManager's history is in step with the core state, though two tasks and
\* a queue lie between them.  (A leave that is still on its way takes such a
\* device away all the same.)
SuppressedIsAccounted ==
    \A a \in Addrs :
        announcing = NoAddr /\ Recent(a) =>
            Online(core, a) \/ JoinWaits(a) \/ "join" \in lost[a]

\* What ReportingManager and the core state each say of the reporting of a
\* device agrees, but while a device that has announced itself again starts
\* over: both follow the same events, each with its own rules.
ManagersAgree ==
    \A i \in Slots, a \in Addrs :
        LET d == core.devices[i] IN
        d.addr = a /\ d.online =>
            CASE entries[a].state = "pendingBind"      -> d.reporting = "interviewed"
              [] entries[a].state = "pendingConfigure" -> d.reporting = "bound"
              [] entries[a].state = "active" ->
                   d.reporting \in {"configured", "active"} /\ ~ d.stale
              [] entries[a].state = "degraded" -> d.reporting = "stale" /\ d.stale
              [] OTHER -> TRUE

\* The occupancy that the manager has settled on is the one the core state
\* shows, or will when an event that waits has been processed, unless the
\* event was lost to a full queue or reached a device the core does not know:
\* a report of the settled value is not passed on again.
StableIsShown ==
    \A i \in Slots, a \in Addrs :
        LET d == core.devices[i] IN
        d.addr = a /\ d.online /\ occupancy[a].valid /\ "occupancy" \notin lost[a] =>
            \/ d.readings["occupancy"] = occupancy[a].stable
            \/ \E t \in Times : In([Settled(a, occupancy[a].stable) EXCEPT !.at = t])

\* The managers and the core state agree on what each device reports.
ReportingAgrees == TypeOK /\ ManagersAgree /\ StableIsShown

\* Once nothing is heard any more, a device that was reporting is found
\* stale, whatever the queue had no room for before.
SilenceIsNoticed ==
    Hush ~> \A a \in Addrs : entries[a].state = "active" => entries[a].last = 0

\* A device removed by force has left once its deadline has passed, even if
\* the radio never says so, unless the event found no room.
ForcedOutLeaves ==
    \A a \in {b \in Addrs : "removal" \in Heard[b]} :
        Hush /\ removal[a] # NoDeadline
            ~> ~ Online(core, a) \/ "leave" \in lost[a]

=============================================================================
