---------------------------- MODULE CoreRegistry ----------------------------
(***************************************************************************)
(* core::CoreRegistry (src/components/core/core_registry.cpp): the ring of *)
(* kSnapshotCount slots through which the runtime task publishes CoreState *)
(* and every other task reads it without a lock.                           *)
(*                                                                         *)
(* Each atomic operation of the code, and each half of every non-atomic    *)
(* copy of a CoreState, is one step, so that the tasks interleave wherever *)
(* the scheduler may preempt them.  Steps of one task take effect in       *)
(* program order: the target is a single hart (ESP32-C6).                  *)
(***************************************************************************)
EXTENDS Integers, FiniteSets

CONSTANTS
    SlotCount,    \* kSnapshotCount
    Readers,      \* the tasks that only read: httpd, MQTT, Matter
    Runtime,      \* the service_runtime task: it reads and it alone publishes
    Payload,      \* contents of a CoreState other than its revision
    InitPayload,  \* the contents of CoreState{}
    NoPayload,    \* a copy whose second half has not been read yet
    MaxRevision   \* bound: no state beyond this revision is published

Threads == Readers \cup {Runtime}
Slots   == 0 .. (SlotCount - 1)

ASSUME SlotCountAssumption == SlotCount \in Nat /\ SlotCount >= 2
ASSUME ReadersAssumption   == IsFiniteSet(Readers) /\ Runtime \notin Readers
ASSUME PayloadAssumption   == InitPayload \in Payload /\ NoPayload \notin Payload
ASSUME BoundAssumption     == MaxRevision \in Nat

VARIABLES
    slots,      \* slots_[i]: [id, revision, devices]
    pins,       \* slot_pin_count_[i]
    active,     \* active_index_
    activeId,   \* active_snapshot_id_
    writeIndex, \* write_index_
    nextId,     \* next_snapshot_id_
    pc,         \* pc[t]: where thread t is in its read of the registry
    idx,        \* idx[t]: pinned_index, then SnapshotRef::slot_index
    copy,       \* copy[t]: what the thread has read: SnapshotRef::id and a
                \* CoreState, half by half
    wpc,        \* where the runtime task is in publish()
    scan,       \* the loop variable i of publish()
    target,     \* next_index of publish()
    next        \* next_state of publish()

readerVars == <<pc, idx, copy>>
writerVars == <<wpc, scan, target, next>>
vars == <<slots, pins, active, activeId, writeIndex, nextId,
          readerVars, writerVars>>

InitSlot == [id |-> 0, revision |-> 0, devices |-> InitPayload]
InitCopy == [id |-> 0, revision |-> 0, devices |-> NoPayload]

\* Where a thread holds a valid SnapshotRef.
Held == {"ref", "held", "half", "copied"}

Init ==
    /\ slots = [i \in Slots |-> InitSlot]
    /\ pins = [i \in Slots |-> 0]
    /\ active = 0
    /\ activeId = 0
    /\ writeIndex = 0
    /\ nextId = 1
    /\ pc = [t \in Threads |-> "idle"]
    /\ idx = [t \in Threads |-> 0]
    /\ copy = [t \in Threads |-> InitCopy]
    /\ wpc = "idle"
    /\ scan = 0
    /\ target = 0
    /\ next = [revision |-> 0, devices |-> InitPayload]

-----------------------------------------------------------------------------
(* pin_current and release_snapshot, by any thread.                        *)

Goto(t, from, to) == pc[t] = from /\ pc' = [pc EXCEPT ![t] = to]

sharedButPins == <<slots, active, activeId, writeIndex, nextId>>
shared == <<sharedButPins, pins>>

\* The runtime task runs one call at a time: it reads only outside publish().
MayRead(t) == t = Runtime => wpc = "idle"

LoadActive(t) ==
    /\ MayRead(t)
    /\ pc[t] \in {"idle", "retry"}
    /\ pc' = [pc EXCEPT ![t] = "pin"]
    /\ idx' = [idx EXCEPT ![t] = active]
    /\ UNCHANGED <<shared, copy, writerVars>>

PinSlot(t) ==
    /\ Goto(t, "pin", "check")
    /\ pins' = [pins EXCEPT ![idx[t]] = @ + 1]
    /\ UNCHANGED <<sharedButPins, idx, copy, writerVars>>

\* Variant for the runs' mutants: active_index_ is not looked at again.
ObserveUnchecked(t) ==
    /\ Goto(t, "check", "ref")
    /\ UNCHANGED <<shared, idx, copy, writerVars>>

ObserveSame(t) ==
    /\ active = idx[t]
    /\ Goto(t, "check", "ref")
    /\ UNCHANGED <<shared, idx, copy, writerVars>>

\* Variant for the runs' mutants: the loop goes round without unpinning.
ObserveMovedKeepsPin(t) ==
    /\ active # idx[t]
    /\ Goto(t, "check", "retry")
    /\ UNCHANGED <<shared, idx, copy, writerVars>>

ObserveMoved(t) ==
    /\ active # idx[t]
    /\ Goto(t, "check", "unpin")
    /\ UNCHANGED <<shared, idx, copy, writerVars>>

Unpin(t) ==
    /\ Goto(t, "unpin", "retry")
    /\ pins' = [pins EXCEPT ![idx[t]] = @ - 1]
    /\ UNCHANGED <<sharedButPins, idx, copy, writerVars>>

FillRef(t) ==
    /\ Goto(t, "ref", "held")
    /\ copy' = [copy EXCEPT ![t].id = slots[idx[t]].id,
                            ![t].devices = NoPayload]
    /\ UNCHANGED <<shared, idx, writerVars>>

CopyHeader(t) ==
    /\ Goto(t, "held", "half")
    /\ copy' = [copy EXCEPT ![t].revision = slots[idx[t]].revision]
    /\ UNCHANGED <<shared, idx, writerVars>>

CopyDevices(t) ==
    /\ Goto(t, "half", "copied")
    /\ copy' = [copy EXCEPT ![t].devices = slots[idx[t]].devices]
    /\ UNCHANGED <<shared, idx, writerVars>>

\* current_revision() releases after the first half, snapshot_copy() and
\* process_pending() after the whole copy.
ReleaseSnapshot(t) ==
    /\ pc[t] \in {"held", "half", "copied"}
    /\ pc' = [pc EXCEPT ![t] = "idle"]
    /\ pins' = [pins EXCEPT ![idx[t]] = @ - 1]
    /\ UNCHANGED <<sharedButPins, idx, copy, writerVars>>

Read(t) ==
    \/ LoadActive(t) \/ PinSlot(t) \/ ObserveSame(t) \/ ObserveMoved(t)
    \/ Unpin(t) \/ FillRef(t) \/ CopyHeader(t) \/ CopyDevices(t)
    \/ ReleaseSnapshot(t)

-----------------------------------------------------------------------------
(* publish, by the runtime task.                                           *)

Raised(state) ==
    IF state.revision <= slots[active].revision
    THEN [state EXCEPT !.revision = slots[active].revision + 1]
    ELSE state

\* The runtime task enters publish() with a state.
BeginPublish(state) ==
    /\ wpc = "idle"
    /\ pc[Runtime] = "idle"
    /\ Raised(state).revision <= MaxRevision
    /\ next' = Raised(state)
    /\ scan' = 0
    /\ wpc' = "scan"
    /\ UNCHANGED <<shared, pc, idx, target>>

\* Once, before the first event: the state saved in NVS, of any revision.
PublishRestored ==
    /\ nextId = 1 /\ copy[Runtime] = InitCopy
    /\ \E r \in 0 .. MaxRevision, d \in Payload :
         BeginPublish([revision |-> r, devices |-> d])
    /\ UNCHANGED copy

\* An event that changes the state: the reduction of the copy just taken.
PublishReduced ==
    /\ copy[Runtime].devices # NoPayload
    /\ \E d \in Payload :
         BeginPublish([revision |-> copy[Runtime].revision + 1, devices |-> d])
    /\ copy' = [copy EXCEPT ![Runtime].devices = NoPayload]

Candidate == (writeIndex + 1 + scan) % SlotCount

\* Variant for the runs' mutants: the current slot is taken like any other.
UsableCurrent(slot) == pins[slot] = 0

Usable(slot) == slot # active /\ pins[slot] = 0

SkipCandidate ==
    /\ wpc = "scan" /\ scan < SlotCount
    /\ ~ Usable(Candidate)
    /\ scan' = scan + 1
    /\ UNCHANGED <<shared, readerVars, wpc, target, next>>

TakeCandidate ==
    /\ wpc = "scan" /\ scan < SlotCount
    /\ Usable(Candidate)
    /\ target' = Candidate
    /\ wpc' = "header"
    /\ UNCHANGED <<shared, readerVars, scan, next>>

\* Every slot is the current one or was pinned when it was looked at:
\* publish() returns false and the state is lost.
PublishFails ==
    /\ wpc = "scan" /\ scan = SlotCount
    /\ wpc' = "idle"
    /\ UNCHANGED <<shared, readerVars, scan, target, next>>

WriteHeader ==
    /\ wpc = "header"
    /\ slots' = [slots EXCEPT ![target].revision = next.revision]
    /\ wpc' = "devices"
    /\ UNCHANGED <<pins, active, activeId, writeIndex, nextId,
                   readerVars, scan, target, next>>

WriteDevices ==
    /\ wpc = "devices"
    /\ slots' = [slots EXCEPT ![target].devices = next.devices]
    /\ wpc' = "id"
    /\ UNCHANGED <<pins, active, activeId, writeIndex, nextId,
                   readerVars, scan, target, next>>

\* Variant for the runs' mutants: the slot's number serves as the id.
WriteIndexAsId ==
    /\ wpc = "id"
    /\ slots' = [slots EXCEPT ![target].id = target]
    /\ nextId' = nextId + 1
    /\ writeIndex' = target
    /\ wpc' = "storeid"
    /\ UNCHANGED <<pins, active, activeId, readerVars, scan, target, next>>

WriteId ==
    /\ wpc = "id"
    /\ slots' = [slots EXCEPT ![target].id = nextId]
    /\ nextId' = nextId + 1
    /\ writeIndex' = target
    /\ wpc' = "storeid"
    /\ UNCHANGED <<pins, active, activeId, readerVars, scan, target, next>>

StoreActiveId ==
    /\ wpc = "storeid"
    /\ activeId' = slots[target].id
    /\ wpc' = "storeindex"
    /\ UNCHANGED <<slots, pins, active, writeIndex, nextId,
                   readerVars, scan, target, next>>

StoreActiveIndex ==
    /\ wpc = "storeindex"
    /\ active' = target
    /\ wpc' = "idle"
    /\ UNCHANGED <<slots, pins, activeId, writeIndex, nextId,
                   readerVars, scan, target, next>>

Publish ==
    \/ PublishRestored \/ PublishReduced
    \/ SkipCandidate \/ TakeCandidate \/ PublishFails
    \/ WriteHeader \/ WriteDevices \/ WriteId \/ StoreActiveId
    \/ StoreActiveIndex

Next == Publish \/ \E t \in Threads : Read(t)

Spec == Init /\ [][Next]_vars

-----------------------------------------------------------------------------
(* Correctness.                                                            *)

Slot == [id : Nat, revision : Nat, devices : Payload]
Copy == [id : Nat, revision : Nat, devices : Payload \cup {NoPayload}]

ReaderPC == {"idle", "retry", "pin", "check", "unpin"} \cup Held
WriterPC == {"idle", "scan", "header", "devices", "id", "storeid", "storeindex"}

\* Every variable has its type; a pin count is never negative, so the branch
\* of release_snapshot that repairs an underflow is never taken.
TypeOK ==
    /\ slots \in [Slots -> Slot]
    /\ pins \in [Slots -> Nat]
    /\ active \in Slots
    /\ activeId \in Nat
    /\ writeIndex \in Slots
    /\ nextId \in Nat
    /\ pc \in [Threads -> ReaderPC]
    /\ idx \in [Threads -> Slots]
    /\ copy \in [Threads -> Copy]
    /\ wpc \in WriterPC
    /\ scan \in 0 .. SlotCount
    /\ target \in Slots
    /\ next \in [revision : Nat, devices : Payload]

\* Where the runtime task is between choosing a slot and making it current.
Writing == wpc \in {"header", "devices", "id", "storeid", "storeindex"}

\* A slot that some thread holds pinned is never the one being overwritten:
\* the reader's pin and re-check of active_index_ against the writer's choice.
PinnedSlotIsStable ==
    \A t \in Threads : pc[t] \in Held /\ Writing => idx[t] # target

\* A complete copy is one published snapshot, never halves of two: what the
\* thread has read is what its slot holds for as long as the pin lasts.
CopyIsOneSnapshot ==
    \A t \in Threads : pc[t] = "copied" => copy[t] = slots[idx[t]]

\* When the runtime task comes to publish, the copy it has reduced is still
\* the current state: no update made in between is lost.
ReducedCopyIsCurrent ==
    wpc = "idle" /\ pc[Runtime] = "idle" /\ copy[Runtime].devices # NoPayload
        => copy[Runtime] = slots[active]

\* No thread ever reads an older revision or an older snapshot id than one it
\* has read before, on whatever slots the two reads were served.
ReadsNeverGoBack ==
    [][\A t \in Threads : /\ copy'[t].revision >= copy[t].revision
                          /\ copy'[t].id >= copy[t].id]_vars

\* Where a thread has incremented the pin count of slot idx[t].
Counted == {"check", "unpin"} \cup Held

Pinning(s) == {t \in Threads : pc[t] \in Counted /\ idx[t] = s}

\* Pins neither leak nor are given back twice: the count of a slot is that of
\* the threads that hold it, retries and releases included.
PinCount == \A s \in Slots : pins[s] = Cardinality(Pinning(s))

\* What a read of the registry rests on, at every step of the reading tasks
\* and of publish().
ReadsAreSound ==
    TypeOK /\ PinCount /\ PinnedSlotIsStable /\ CopyIsOneSnapshot /\ ReducedCopyIsCurrent

\* The slots that the scan of publish() has passed over.
Passed == {s \in Slots : s # active
                         /\ \E i \in 0 .. (scan - 1) : s = (writeIndex + 1 + i) % SlotCount}

\* The readers that hold, or may still pin, a slot the scan has yet to reach.
Obstructing ==
    {r \in Readers : /\ pc[r] \in {"pin"} \cup Counted
                     /\ idx[r] # active
                     /\ idx[r] \notin Passed}

\* A reader, wherever it stops and whatever index it last loaded, holds up at
\* most one slot of one scan: each slot passed over is charged to a reader that
\* can pin no slot still to come.
ReadersHoldUpOneSlot ==
    wpc = "scan" => Cardinality(Passed) <= Cardinality(Readers \ Obstructing)

\* With two slots more than there are reading tasks, publish() always finds a
\* slot.
PublishFindsASlot ==
    Cardinality(Readers) < SlotCount - 1 => ~ (wpc = "scan" /\ scan = SlotCount)

View(t) ==
    IF pc[t] \in Held
    THEN [revision |-> slots[idx[t]].revision, devices |-> slots[idx[t]].devices]
    ELSE [revision |-> 0, devices |-> NoPayload]

Store == INSTANCE SnapshotStore WITH
    current <- [revision |-> slots[active].revision,
                devices  |-> slots[active].devices],
    view    <- [t \in Threads |-> View(t)],
    NoView  <- [revision |-> 0, devices |-> NoPayload]

\* The ring of slots behaves as one store that is read and replaced at once.
ImplementsStore == Store!Spec

=============================================================================
