-------------------------- MODULE StatePersistence --------------------------
(***************************************************************************)
(* The core state on its way to flash and back: process_pending() of       *)
(* ServiceRuntime reduces events and publishes their results,              *)
(* StatePersistenceCoordinator saves the published state as a blob and     *)
(* restores it when the gateway has restarted.                             *)
(*                                                                         *)
(* All of this is the runtime task's.  Other tasks post events at any      *)
(* time, so that the next event may be any of Inputs, or none.  Publishing *)
(* succeeds: CoreRegistry shows that there is a slot to publish in.        *)
(***************************************************************************)
EXTENDS CoreReducer

CONSTANTS
    Inputs,         \* the events that may be posted
    EventsPerCycle, \* kMaxProcessedEventsPerCycle
    NoBlob          \* flash holds no core state

ASSUME InputsAssumption == Inputs \subseteq Event
ASSUME CycleAssumption == EventsPerCycle \in Nat \ {0} /\ NoBlob \notin State

VARIABLES
    state,     \* the state the registry publishes
    saved,     \* the blob under core_state_v1 in flash
    dirty,     \* persist_core_state_pending_
    pc,        \* where the runtime task is in its loop
    processed, \* the events processed in this call of process_pending
    progress,  \* made_progress
    trouble    \* history: flash has failed since it last agreed with state

loopVars == <<pc, processed, progress>>
vars == <<state, saved, dirty, loopVars, trouble>>

Init ==
    /\ state = InitialState
    /\ saved = NoBlob
    /\ dirty = FALSE
    /\ pc = "boot" /\ processed = 0 /\ progress = FALSE
    /\ trouble = FALSE

\* has_restorable_devices, of a blob of the right size and version.
Restorable == saved # NoBlob /\ saved.count # 0

\* The revision publish() gives to a state that it is handed.
Raised(r) == IF r > state.revision THEN r ELSE (state.revision + 1) % RevisionRange

\* restore_persisted_core_state: the blob is taken but for what a restart ends.
Restore ==
    /\ pc = "boot"
    /\ state' = IF Restorable
                THEN [saved EXCEPT !.network = FALSE, !.status = 0,
                                   !.revision = Raised(@)]
                ELSE state
    /\ pc' = "sleep"
    /\ UNCHANGED <<saved, dirty, processed, progress, trouble>>

\* Flash cannot be read, or what it holds is not a blob of this version.
RestoreFails ==
    /\ pc = "boot"
    /\ pc' = "sleep"
    /\ trouble' = TRUE
    /\ UNCHANGED <<state, saved, dirty, processed, progress>>

BeginLoop ==
    /\ pc = "sleep"
    /\ pc' = "flush"
    /\ processed' = 0
    /\ progress' = FALSE
    /\ UNCHANGED <<state, saved, dirty, trouble>>

\* flush_if_needed.
FlushNothing ==
    /\ pc = "flush" /\ ~ dirty
    /\ pc' = "event"
    /\ UNCHANGED <<state, saved, dirty, processed, progress, trouble>>

\* Variant for the runs' mutants: the flag is lowered and nothing is written.
FlushForgets ==
    /\ pc = "flush" /\ dirty
    /\ dirty' = FALSE
    /\ UNCHANGED saved
    /\ trouble' = FALSE
    /\ progress' = TRUE
    /\ pc' = "event"
    /\ UNCHANGED <<state, processed>>

FlushSaves ==
    /\ pc = "flush" /\ dirty
    /\ dirty' = FALSE
    /\ saved' = state
    /\ trouble' = FALSE
    /\ progress' = TRUE
    /\ pc' = "event"
    /\ UNCHANGED <<state, processed>>

\* A write that fails may have written, and is not tried again.
FlushFails ==
    /\ pc = "flush" /\ dirty
    /\ dirty' = FALSE
    /\ saved' \in {saved, state}
    /\ trouble' = TRUE
    /\ progress' = TRUE
    /\ pc' = "event"
    /\ UNCHANGED <<state, processed>>

\* pop_event, core_reduce, publish when the revision moved, and the effects.
Process(e) ==
    /\ pc = "event"
    /\ LET r == Reduce(state, e)
       IN /\ state' = IF r.next.revision # state.revision THEN r.next ELSE state
          /\ dirty' = (dirty \/ "persist" \in r.effects)
    /\ processed' = processed + 1
    /\ progress' = FALSE
    /\ pc' = IF processed + 1 < EventsPerCycle THEN "flush" ELSE "sleep"
    /\ UNCHANGED <<saved, trouble>>

\* No event: once more round the loop if something was saved, or if one of the
\* other queues the loop drains had something in it.
NoEvent ==
    /\ pc = "event"
    /\ pc' \in IF progress THEN {"flush"} ELSE {"flush", "sleep"}
    /\ progress' = FALSE
    /\ UNCHANGED <<state, saved, dirty, processed, trouble>>

\* The gateway restarts at any moment: only flash survives.
Restart ==
    /\ state' = InitialState
    /\ dirty' = FALSE
    /\ pc' = "boot" /\ processed' = 0 /\ progress' = FALSE
    /\ trouble' = FALSE
    /\ UNCHANGED saved

RuntimeTask ==
    \/ Restore \/ RestoreFails
    \/ BeginLoop
    \/ FlushNothing \/ FlushSaves \/ FlushFails
    \/ (\E e \in Inputs : Process(e)) \/ NoEvent

Next == RuntimeTask \/ Restart

Spec == Init /\ [][Next]_vars

\* The scheduler runs the runtime task.
FairSpec == Spec /\ WF_vars(RuntimeTask)

-----------------------------------------------------------------------------
(* Correctness.                                                            *)

\* The published and the saved state are core states.
TypeOK ==
    /\ state \in State
    /\ saved \in State \cup {NoBlob}
    /\ dirty \in BOOLEAN /\ progress \in BOOLEAN /\ trouble \in BOOLEAN
    /\ pc \in {"boot", "sleep", "flush", "event"}
    /\ processed \in 0 .. EventsPerCycle

Online(s) == {i \in Slots : s.devices[i].online}

Used(s) == {i \in Slots : ~ Unused(s.devices[i])}

\* The count of a state is that of its records, all of which are online: a
\* blob with devices in it is never taken for an empty one at a restart.
CountHolds(s) == s.count = Cardinality(Online(s)) /\ Online(s) = Used(s)

CountIsOnline == CountHolds(state) /\ (saved # NoBlob => CountHolds(saved))

\* A device has one record, be it known by its identity or by its address,
\* across rejoins, address changes and restarts (INV-ID-01).
OneRecord(s) ==
    \A i, j \in Used(s) :
      /\ s.devices[i].id # NoId /\ s.devices[i].id = s.devices[j].id => i = j
      /\ /\ s.devices[i].id = NoId /\ s.devices[j].id = NoId
         /\ s.devices[i].addr = s.devices[j].addr
         => i = j

OneRecordPerDevice == OneRecord(state) /\ (saved # NoBlob => OneRecord(saved))

\* The records are what restores, rejoins and matching rely on.
RecordsAreExact == TypeOK /\ CountIsOnline /\ OneRecordPerDevice

\* No change is lost between the reducer and the registry: what a handler
\* made of the records and the network is what is published next.
ChangesArePublished ==
    [][\A e \in Inputs : Process(e) => state' = Reduce(state, e).next]_vars

\* An event never touches another device's record: a record with an identity
\* changes only by events of that identity (INV-ID-03).
RecordsAreTheirOwn ==
    [][\A e \in Inputs, i \in Slots :
         Process(e) /\ ~ Unused(state.devices[i])
                    /\ state'.devices[i] # state.devices[i]
           => IF state.devices[i].id = NoId
              THEN e.id = NoId /\ e.addr = state.devices[i].addr
              ELSE e.id = state.devices[i].id]_vars

SavedDevices == IF saved = NoBlob THEN InitialState.devices ELSE saved.devices

\* Whenever nothing is left to save, flash holds the devices that are
\* published, and a restart brings them back, unless flash has failed.
CleanIsSaved ==
    pc # "boot" /\ ~ dirty /\ ~ trouble => SavedDevices = state.devices

\* However many events keep coming, flash catches up with the devices again
\* and again.
FlashCatchesUp == []<>(trouble \/ SavedDevices = state.devices)

\* At most one online device owns a short address (INV-ID-02, which
\* test/host/test_core_reducer_device_id.cpp:8 says the reducer upholds).
OneOwnerPerAddress ==
    \A i, j \in Online(state) :
      /\ state.devices[i].id # NoId /\ state.devices[j].id # NoId
      /\ state.devices[i].addr = state.devices[j].addr
      /\ state.devices[i].addr # NoAddr
      => i = j

=============================================================================
