------------------------- MODULE CoreRegistryProofs -------------------------
(***************************************************************************)
(* Proofs about CoreRegistry, for every number of slots and of reading     *)
(* tasks.  The invariant is built in four layers, each proved from the     *)
(* ones before it: pin counts, stability of pinned slots, the order of     *)
(* revisions, and the progress of a scan.                                  *)
(***************************************************************************)
EXTENDS CoreRegistry, FiniteSetTheorems, TLAPS

Inv1 == TypeOK /\ PinCount

LEMMA ThreadsFinite == IsFiniteSet(Threads) /\ Runtime \in Threads
BY ReadersAssumption, FS_AddElement DEF Threads

LEMMA PinningFinite ==
    \A s : IsFiniteSet(Pinning(s)) /\ Cardinality(Pinning(s)) \in Nat
<1> TAKE s
<1>1. Pinning(s) \subseteq Threads
  BY DEF Pinning
<1>. QED BY <1>1, ThreadsFinite, FS_Subset, FS_CardinalityType

\* The candidate of a scan is a slot.
LEMMA CandidateIsSlot == TypeOK => Candidate \in Slots
BY SlotCountAssumption DEF TypeOK, Candidate, Slots

-----------------------------------------------------------------------------
\* A step that pins one more thread to s adds one to the set of its pinners.
LEMMA PinAdds ==
    ASSUME TypeOK, PinCount, NEW t \in Threads, PinSlot(t)
    PROVE  PinCount'
<1>1. PICK i \in Slots : i = idx[t]
  BY DEF TypeOK
<1>2. pc[t] \notin Counted /\ pc'[t] \in Counted /\ idx' = idx
  BY DEF PinSlot, Goto, Counted, Held, TypeOK
<1>3. \A s \in Slots : s # i => Pinning(s)' = Pinning(s)
  BY <1>1, <1>2 DEF PinSlot, Goto, Pinning, TypeOK
<1>4. Pinning(i)' = Pinning(i) \cup {t} /\ t \notin Pinning(i)
  BY <1>1, <1>2 DEF PinSlot, Goto, Pinning, TypeOK
<1>5. Cardinality(Pinning(i)') = Cardinality(Pinning(i)) + 1
  BY <1>4, PinningFinite, FS_AddElement
<1>6. pins' = [pins EXCEPT ![i] = @ + 1]
  BY <1>1 DEF PinSlot
<1>. QED BY <1>1, <1>3, <1>5, <1>6 DEF PinCount, TypeOK

\* A step that unpins a thread finds a positive count and takes one off.
LEMMA UnpinRemoves ==
    ASSUME TypeOK, PinCount, NEW t \in Threads,
           pc[t] \in Counted, pc' = [pc EXCEPT ![t] = "idle"]
                              \/ pc' = [pc EXCEPT ![t] = "retry"],
           pins' = [pins EXCEPT ![idx[t]] = @ - 1],
           idx' = idx
    PROVE  PinCount' /\ pins' \in [Slots -> Nat]
<1> DEFINE i == idx[t]
<1>1. i \in Slots
  BY DEF TypeOK
<1>2. pc'[t] \notin Counted /\ \A u \in Threads : u # t => pc'[u] = pc[u]
  BY DEF Counted, Held, TypeOK
<1>3. \A s \in Slots : s # i => Pinning(s)' = Pinning(s)
  BY <1>2 DEF Pinning, TypeOK
<1>4. Pinning(i)' = Pinning(i) \ {t} /\ t \in Pinning(i)
  BY <1>2 DEF Pinning, TypeOK
<1>5. /\ Cardinality(Pinning(i)') = Cardinality(Pinning(i)) - 1
      /\ Cardinality(Pinning(i)') \in Nat
  BY <1>4, PinningFinite, FS_RemoveElement, FS_CardinalityType
<1>. QED BY <1>1, <1>3, <1>5 DEF PinCount, TypeOK

\* Steps that leave the counted threads where they are leave the counts.
LEMMA PinsUntouched ==
    ASSUME TypeOK, PinCount, pins' = pins,
           \A t \in Threads : /\ pc'[t] \in Counted <=> pc[t] \in Counted
                              /\ pc[t] \in Counted => idx'[t] = idx[t]
    PROVE  PinCount'
<1>1. \A s \in Slots : Pinning(s)' = Pinning(s)
  BY DEF Pinning
<1>. QED BY <1>1 DEF PinCount

LEMMA InitInv1 == Init => Inv1
<1> SUFFICES ASSUME Init PROVE Inv1
  OBVIOUS
<1>1. TypeOK
  BY SlotCountAssumption, PayloadAssumption
  DEF Init, TypeOK, Slots, Slot, Copy, InitSlot, InitCopy, ReaderPC, WriterPC
<1>2. \A s \in Slots : Pinning(s) = {}
  BY DEF Init, Pinning, Counted, Held
<1>. QED BY <1>1, <1>2, FS_EmptySet DEF Inv1, PinCount, Init

LEMMA StepInv1 == Inv1 /\ [Next]_vars => Inv1'
<1> SUFFICES ASSUME Inv1, [Next]_vars PROVE Inv1'
  OBVIOUS
<1> USE DEF Inv1
<1>0. TypeOK /\ PinCount
  OBVIOUS
<1>1. ASSUME NEW t \in Threads, Read(t) PROVE Inv1'
  <2>1. CASE LoadActive(t)
    <3>1. TypeOK'
      BY <2>1 DEF LoadActive, TypeOK, shared, sharedButPins, writerVars, ReaderPC, Held
    <3>2. PinCount'
      BY <2>1, PinsUntouched
      DEF LoadActive, TypeOK, shared, Counted, Held
    <3>. QED BY <3>1, <3>2
  <2>2. CASE PinSlot(t)
    <3>1. TypeOK'
      BY <2>2 DEF PinSlot, Goto, TypeOK, sharedButPins, writerVars, ReaderPC, Held
    <3>. QED BY <2>2, <3>1, PinAdds
  <2>3. CASE ObserveSame(t)
    <3>1. TypeOK'
      BY <2>3 DEF ObserveSame, Goto, TypeOK, shared, sharedButPins, writerVars, ReaderPC, Held
    <3>2. PinCount'
      BY <2>3, PinsUntouched DEF ObserveSame, Goto, TypeOK, shared, Counted, Held
    <3>. QED BY <3>1, <3>2
  <2>4. CASE ObserveMoved(t)
    <3>1. TypeOK'
      BY <2>4 DEF ObserveMoved, Goto, TypeOK, shared, sharedButPins, writerVars, ReaderPC, Held
    <3>2. PinCount'
      BY <2>4, PinsUntouched DEF ObserveMoved, Goto, TypeOK, shared, Counted, Held
    <3>. QED BY <3>1, <3>2
  <2>5. CASE Unpin(t)
    <3>1. PinCount' /\ pins' \in [Slots -> Nat]
      BY <2>5, UnpinRemoves DEF Unpin, Goto, Counted, Held
    <3>2. TypeOK'
      BY <2>5, <3>1 DEF Unpin, Goto, TypeOK, sharedButPins, writerVars, ReaderPC, Held
    <3>. QED BY <3>1, <3>2
  <2>6. CASE FillRef(t)
    <3>1. TypeOK'
      <4>1. /\ UNCHANGED <<shared, idx, writerVars>>
            /\ pc' = [pc EXCEPT ![t] = "held"]
            /\ copy' = [copy EXCEPT ![t].id = slots[idx[t]].id, ![t].devices = NoPayload]
        BY <2>6 DEF FillRef, Goto
      <4>2. pc' \in [Threads -> ReaderPC]
        BY <4>1 DEF TypeOK, ReaderPC, Held
      <4>3. copy' \in [Threads -> Copy]
        BY <4>1 DEF TypeOK, Copy, Slot
      <4>. QED BY <4>1, <4>2, <4>3 DEF TypeOK, shared, sharedButPins, writerVars
    <3>2. PinCount'
      BY <2>6, PinsUntouched DEF FillRef, Goto, TypeOK, shared, Counted, Held
    <3>. QED BY <3>1, <3>2
  <2>7. CASE CopyHeader(t)
    <3>1. TypeOK'
      BY <2>7 DEF CopyHeader, Goto, TypeOK, shared, sharedButPins, writerVars, ReaderPC, Held,
                  Copy, Slot
    <3>2. PinCount'
      BY <2>7, PinsUntouched DEF CopyHeader, Goto, TypeOK, shared, Counted, Held
    <3>. QED BY <3>1, <3>2
  <2>8. CASE CopyDevices(t)
    <3>1. TypeOK'
      BY <2>8 DEF CopyDevices, Goto, TypeOK, shared, sharedButPins, writerVars, ReaderPC, Held,
                  Copy, Slot
    <3>2. PinCount'
      BY <2>8, PinsUntouched DEF CopyDevices, Goto, TypeOK, shared, Counted, Held
    <3>. QED BY <3>1, <3>2
  <2>9. CASE ReleaseSnapshot(t)
    <3>1. PinCount' /\ pins' \in [Slots -> Nat]
      BY <2>9, UnpinRemoves DEF ReleaseSnapshot, Counted, Held
    <3>2. TypeOK'
      BY <2>9, <3>1 DEF ReleaseSnapshot, TypeOK, sharedButPins, writerVars, ReaderPC, Held
    <3>. QED BY <3>1, <3>2
  <2>. QED BY <1>1, <2>1, <2>2, <2>3, <2>4, <2>5, <2>6, <2>7, <2>8, <2>9 DEF Read
<1>2. ASSUME Publish PROVE Inv1'
  <2>1. pins' = pins /\ pc' = pc /\ idx' = idx
    BY <1>2 DEF Publish, PublishRestored, PublishReduced, BeginPublish, SkipCandidate,
                TakeCandidate, PublishFails, WriteHeader, WriteDevices, WriteId,
                StoreActiveId, StoreActiveIndex, shared, readerVars
  <2>2. PinCount'
    BY <2>1, PinsUntouched
  <2>3. TypeOK'
    <3>1. CASE \E state \in [revision : Nat, devices : Payload] :
                 BeginPublish(state) /\ copy' \in [Threads -> Copy]
      BY <3>1, SlotCountAssumption
      DEF BeginPublish, Raised, TypeOK, Slot, shared, sharedButPins, WriterPC
    <3>2. CASE PublishRestored
      BY <3>1, <3>2, BoundAssumption DEF PublishRestored, TypeOK
    <3>3. CASE PublishReduced
      <4>1. copy[Runtime] \in Copy
        BY ThreadsFinite DEF TypeOK
      <4>2. copy' \in [Threads -> Copy]
        BY <3>3, <4>1 DEF PublishReduced, TypeOK, Copy
      <4>3. PICK d \in Payload :
              BeginPublish([revision |-> copy[Runtime].revision + 1, devices |-> d])
        BY <3>3 DEF PublishReduced
      <4>4. [revision |-> copy[Runtime].revision + 1, devices |-> d]
              \in [revision : Nat, devices : Payload]
        BY <4>1 DEF Copy
      <4>. QED BY <3>1, <4>2, <4>3, <4>4
    <3>4. CASE SkipCandidate \/ TakeCandidate \/ PublishFails
      BY <3>4, CandidateIsSlot, SlotCountAssumption
      DEF SkipCandidate, TakeCandidate, PublishFails, TypeOK, shared, sharedButPins,
          readerVars, WriterPC
    <3>5. CASE WriteHeader \/ WriteDevices \/ WriteId
      BY <3>5 DEF WriteHeader, WriteDevices, WriteId, TypeOK, Slot, readerVars, WriterPC
    <3>6. CASE StoreActiveId \/ StoreActiveIndex
      BY <3>6 DEF StoreActiveId, StoreActiveIndex, TypeOK, Slot, readerVars, WriterPC
    <3>. QED BY <1>2, <3>2, <3>3, <3>4, <3>5, <3>6 DEF Publish
  <2>. QED BY <2>2, <2>3
<1>3. CASE UNCHANGED vars
  <2>1. TypeOK'
    BY <1>3 DEF vars, readerVars, writerVars, TypeOK
  <2>2. PinCount'
    BY <1>3, PinsUntouched DEF vars, readerVars
  <2>. QED BY <2>1, <2>2
<1>. QED BY <1>1, <1>2, <1>3 DEF Next

\* Type correctness, with pin counts that never go below zero.
THEOREM TypeCorrect == Spec => []TypeOK
<1>1. Spec => []Inv1
  BY InitInv1, StepInv1, PTL DEF Spec
<1>. QED BY <1>1, PTL DEF Inv1

-----------------------------------------------------------------------------
(* Second layer: a pinned slot is not written to, so that what a thread    *)
(* copies out of it belongs together.                                      *)

SlotChoice == Writing => target # active

RuntimeAlone == wpc # "idle" => pc[Runtime] = "idle"

CopyTracksSlot ==
    \A t \in Threads :
      /\ pc[t] \in {"held", "half", "copied"} => copy[t].id = slots[idx[t]].id
      /\ pc[t] \in {"half", "copied"} => copy[t].revision = slots[idx[t]].revision
      /\ pc[t] \in {"held", "half"} => copy[t].devices = NoPayload
      /\ pc[t] = "copied" => copy[t].devices = slots[idx[t]].devices

\* While the runtime task reads, nothing moves active_index_.
RuntimeReadsActive ==
    /\ pc[Runtime] # "idle" => idx[Runtime] = active
    /\ pc[Runtime] \notin {"unpin", "retry"}
    /\ wpc # "idle" => copy[Runtime].devices = NoPayload

Inv2 ==
    /\ SlotChoice
    /\ PinnedSlotIsStable
    /\ RuntimeAlone
    /\ CopyTracksSlot
    /\ RuntimeReadsActive
    /\ ReducedCopyIsCurrent

\* A reader's step changes the reader's own state and pin counts only.
LEMMA ReadFrame ==
    ASSUME TypeOK, NEW t \in Threads, Read(t)
    PROVE  /\ UNCHANGED <<sharedButPins, writerVars>>
           /\ \A u \in Threads : u # t =>
                /\ pc'[u] = pc[u]
                /\ idx'[u] = idx[u]
                /\ copy'[u] = copy[u]
<1>1. UNCHANGED <<sharedButPins, writerVars>>
  BY DEF Read, LoadActive, PinSlot, ObserveSame, ObserveMoved, Unpin, FillRef,
         CopyHeader, CopyDevices, ReleaseSnapshot, shared
<1>2. ASSUME NEW u \in Threads, u # t
      PROVE  pc'[u] = pc[u] /\ idx'[u] = idx[u] /\ copy'[u] = copy[u]
  BY <1>2 DEF Read, LoadActive, PinSlot, ObserveSame, ObserveMoved, Unpin, FillRef,
              CopyHeader, CopyDevices, ReleaseSnapshot, Goto, TypeOK
<1>. QED BY <1>1, <1>2

\* A slot with no pins is held by no thread.
LEMMA UnpinnedNotHeld ==
    ASSUME TypeOK, PinCount, NEW s \in Slots, pins[s] = 0
    PROVE  \A t \in Threads : pc[t] \in Counted => idx[t] # s
<1>1. Pinning(s) = {}
  BY PinningFinite, ThreadsFinite, FS_Subset, FS_EmptySet DEF PinCount, Pinning
<1>. QED BY <1>1 DEF Pinning

LEMMA InitInv2 == Init => Inv2
BY ThreadsFinite
DEF Init, Inv2, SlotChoice, Writing, PinnedSlotIsStable, RuntimeAlone, CopyTracksSlot,
    RuntimeReadsActive, ReducedCopyIsCurrent, Held, InitCopy

LEMMA ReadInv2 ==
    ASSUME Inv1, Inv2, NEW t \in Threads, Read(t)
    PROVE  Inv2'
<1> USE DEF Inv1, Inv2
<1>1. TypeOK /\ Runtime \in Threads
  BY ThreadsFinite
<1>2. /\ UNCHANGED <<sharedButPins, writerVars>>
      /\ \A u \in Threads : u # t =>
           pc'[u] = pc[u] /\ idx'[u] = idx[u] /\ copy'[u] = copy[u]
  BY <1>1, ReadFrame
<1>3. SlotChoice'
  BY <1>2 DEF SlotChoice, Writing, sharedButPins, writerVars
<1>4. PinnedSlotIsStable'
  <2>1. pc'[t] \in Held => idx'[t] = idx[t] /\ (pc[t] \in Held \/ active = idx[t])
    BY <1>1 DEF Read, LoadActive, PinSlot, ObserveSame, ObserveMoved, Unpin, FillRef,
                CopyHeader, CopyDevices, ReleaseSnapshot, Goto, TypeOK, Held
  <2>. QED BY <1>2, <2>1
           DEF PinnedSlotIsStable, SlotChoice, Writing, sharedButPins, writerVars
<1>5. wpc # "idle" => t # Runtime
  BY <1>1 DEF RuntimeAlone, Read, LoadActive, PinSlot, ObserveSame, ObserveMoved, Unpin,
              FillRef, CopyHeader, CopyDevices, ReleaseSnapshot, Goto, MayRead
<1>6. RuntimeAlone'
  BY <1>1, <1>2, <1>5 DEF RuntimeAlone, writerVars
<1>7. CopyTracksSlot'
  <2>1. slots' = slots
    BY <1>2 DEF sharedButPins
  <2>2. /\ pc'[t] \in {"held", "half", "copied"} => copy'[t].id = slots[idx'[t]].id
        /\ pc'[t] \in {"half", "copied"} => copy'[t].revision = slots[idx'[t]].revision
        /\ pc'[t] \in {"held", "half"} => copy'[t].devices = NoPayload
        /\ pc'[t] = "copied" => copy'[t].devices = slots[idx'[t]].devices
    <3>1. copy[t] \in Copy /\ CopyTracksSlot
      BY DEF TypeOK
    <3>2. CASE FillRef(t)
      BY <3>1, <3>2 DEF FillRef, Goto, TypeOK, Copy
    <3>3. CASE CopyHeader(t)
      BY <3>1, <3>3 DEF CopyHeader, Goto, TypeOK, Copy, CopyTracksSlot
    <3>4. CASE CopyDevices(t)
      BY <3>1, <3>4 DEF CopyDevices, Goto, TypeOK, Copy, CopyTracksSlot
    <3>5. CASE LoadActive(t) \/ PinSlot(t) \/ ObserveSame(t) \/ ObserveMoved(t)
               \/ Unpin(t) \/ ReleaseSnapshot(t)
      BY <3>5 DEF LoadActive, PinSlot, ObserveSame, ObserveMoved, Unpin, ReleaseSnapshot,
                  Goto, TypeOK
    <3>. QED BY <3>2, <3>3, <3>4, <3>5 DEF Read
  <2>. QED BY <1>2, <2>1, <2>2 DEF CopyTracksSlot
<1>8. RuntimeReadsActive' /\ ReducedCopyIsCurrent'
  <2>1. CASE t # Runtime
    BY <1>1, <1>2, <2>1
    DEF RuntimeReadsActive, ReducedCopyIsCurrent, sharedButPins, writerVars
  <2>2. CASE t = Runtime
    <3>1. wpc = "idle" /\ wpc' = wpc /\ active' = active /\ slots' = slots
      BY <1>2, <1>5, <2>2 DEF sharedButPins, writerVars
    <3>2. RuntimeReadsActive'
      BY <1>1, <2>2, <3>1
      DEF RuntimeReadsActive, Read, LoadActive, PinSlot, ObserveSame, ObserveMoved, Unpin,
          FillRef, CopyHeader, CopyDevices, ReleaseSnapshot, Goto, TypeOK
    <3>3. ReducedCopyIsCurrent'
      <4>1. CASE ReleaseSnapshot(t)
        <5>1. copy' = copy /\ copy[t] \in Copy /\ slots[active] \in Slot
          BY <4>1 DEF ReleaseSnapshot, TypeOK
        <5>2. CASE pc[t] \in {"held", "half"}
          BY <2>2, <5>1, <5>2 DEF ReducedCopyIsCurrent, CopyTracksSlot
        <5>3. CASE pc[t] = "copied"
          BY <2>2, <3>1, <5>1, <5>3
          DEF ReducedCopyIsCurrent, CopyTracksSlot, RuntimeReadsActive, Copy, Slot
        <5>. QED BY <4>1, <5>2, <5>3 DEF ReleaseSnapshot
      <4>2. CASE ~ ReleaseSnapshot(t)
        <5>1. pc'[t] # "idle"
          BY <1>1, <4>2 DEF Read, LoadActive, PinSlot, ObserveSame, ObserveMoved, Unpin,
                       FillRef, CopyHeader, CopyDevices, Goto, TypeOK
        <5>. QED BY <2>2, <5>1 DEF ReducedCopyIsCurrent
      <4>. QED BY <4>1, <4>2
    <3>. QED BY <3>2, <3>3
  <2>. QED BY <2>1, <2>2
<1>. QED BY <1>3, <1>4, <1>6, <1>7, <1>8

LEMMA PublishInv2 ==
    ASSUME Inv1, Inv2, Publish
    PROVE  Inv2'
<1> USE DEF Inv1, Inv2
<1>1. TypeOK /\ PinCount /\ Runtime \in Threads
  BY ThreadsFinite
<1>2. CASE PublishRestored \/ PublishReduced
  <2>1. /\ UNCHANGED <<shared, pc, idx, target>>
        /\ wpc = "idle" /\ wpc' = "scan" /\ pc[Runtime] = "idle"
    BY <1>2 DEF PublishRestored, PublishReduced, BeginPublish
  <2>2. copy'[Runtime].devices = NoPayload
        /\ \A t \in Threads : t # Runtime => copy'[t] = copy[t]
    BY <1>1, <1>2 DEF PublishRestored, PublishReduced, InitCopy, TypeOK, Copy
  <2>3. CopyTracksSlot'
    BY <2>1, <2>2 DEF CopyTracksSlot, shared, sharedButPins
  <2>. QED BY <2>1, <2>2, <2>3
           DEF SlotChoice, Writing, PinnedSlotIsStable, RuntimeAlone, RuntimeReadsActive,
               ReducedCopyIsCurrent
<1>3. CASE SkipCandidate \/ PublishFails
  <2>1. UNCHANGED <<shared, readerVars, target>> /\ wpc' \in {"scan", "idle"} /\ wpc = "scan"
    BY <1>3 DEF SkipCandidate, PublishFails
  <2>2. CopyTracksSlot' /\ RuntimeReadsActive' /\ PinnedSlotIsStable' /\ SlotChoice'
    BY <2>1 DEF CopyTracksSlot, RuntimeReadsActive, PinnedSlotIsStable, SlotChoice, Writing,
                shared, sharedButPins, readerVars
  <2>. QED BY <2>1, <2>2
           DEF RuntimeAlone, RuntimeReadsActive, ReducedCopyIsCurrent, readerVars
<1>4. CASE TakeCandidate
  <2>1. /\ UNCHANGED <<shared, readerVars>> /\ wpc = "scan" /\ wpc' = "header"
        /\ target' \in Slots /\ target' # active /\ pins[target'] = 0
    BY <1>1, <1>4, CandidateIsSlot DEF TakeCandidate, Usable
  <2>2. \A t \in Threads : pc[t] \in Held => idx[t] # target'
    BY <1>1, <2>1, UnpinnedNotHeld DEF Counted
  <2>3. SlotChoice' /\ PinnedSlotIsStable'
    BY <2>1, <2>2 DEF SlotChoice, PinnedSlotIsStable, shared, sharedButPins, readerVars
  <2>4. CopyTracksSlot' /\ RuntimeReadsActive' /\ RuntimeAlone' /\ ReducedCopyIsCurrent'
    BY <2>1 DEF CopyTracksSlot, RuntimeReadsActive, RuntimeAlone, ReducedCopyIsCurrent,
                shared, sharedButPins, readerVars
  <2>. QED BY <2>3, <2>4
<1>5. CASE WriteHeader \/ WriteDevices \/ WriteId
  <2>1. /\ UNCHANGED <<readerVars, active, target>> /\ Writing /\ Writing' /\ wpc # "idle"
        /\ \A s \in Slots : s # target => slots'[s] = slots[s]
    BY <1>1, <1>5 DEF WriteHeader, WriteDevices, WriteId, Writing, TypeOK
  <2>2. SlotChoice' /\ PinnedSlotIsStable' /\ RuntimeAlone' /\ RuntimeReadsActive'
    BY <2>1 DEF SlotChoice, PinnedSlotIsStable, RuntimeAlone, RuntimeReadsActive, readerVars
  <2>3. \A t \in Threads : pc[t] \in Held => slots'[idx[t]] = slots[idx[t]]
    BY <1>1, <2>1 DEF PinnedSlotIsStable, TypeOK
  <2>4. CopyTracksSlot'
    BY <2>1, <2>3 DEF CopyTracksSlot, readerVars, Held
  <2>5. ReducedCopyIsCurrent'
    BY <2>1 DEF ReducedCopyIsCurrent, Writing
  <2>. QED BY <2>2, <2>4, <2>5
<1>6. CASE StoreActiveId \/ StoreActiveIndex
  <2>1. /\ UNCHANGED <<slots, readerVars, target>> /\ wpc # "idle"
        /\ \/ wpc' = "storeindex" /\ active' = active /\ Writing
           \/ wpc' = "idle"
    BY <1>6 DEF StoreActiveId, StoreActiveIndex, Writing
  <2>2. CopyTracksSlot'
    BY <2>1 DEF CopyTracksSlot, readerVars
  <2>3. SlotChoice' /\ PinnedSlotIsStable' /\ RuntimeAlone'
    BY <2>1 DEF SlotChoice, PinnedSlotIsStable, RuntimeAlone, Writing, readerVars
  <2>4. RuntimeReadsActive' /\ ReducedCopyIsCurrent'
    BY <2>1 DEF RuntimeReadsActive, RuntimeAlone, ReducedCopyIsCurrent, readerVars
  <2>. QED BY <2>2, <2>3, <2>4
<1>. QED BY <1>2, <1>3, <1>4, <1>5, <1>6 DEF Publish

LEMMA StepInv2 == Inv1 /\ Inv2 /\ [Next]_vars => Inv2'
<1> SUFFICES ASSUME Inv1, Inv2, [Next]_vars PROVE Inv2'
  OBVIOUS
<1>1. CASE UNCHANGED vars
  BY <1>1 DEF vars, readerVars, writerVars, Inv2, SlotChoice, Writing, PinnedSlotIsStable,
              RuntimeAlone, CopyTracksSlot, RuntimeReadsActive, ReducedCopyIsCurrent
<1>. QED BY <1>1, ReadInv2, PublishInv2 DEF Next

\* The layers proved so far, of every reachable state.
LEMMA Stability == Spec => [](Inv1 /\ Inv2)
BY InitInv1, StepInv1, InitInv2, StepInv2, PTL DEF Spec

\* No slot that a thread holds pinned is ever overwritten by publish().
THEOREM PinnedSlotsAreStable == Spec => []PinnedSlotIsStable
BY Stability, PTL DEF Inv2

\* A complete copy of a CoreState is one published snapshot.
THEOREM CopiesAreWhole == Spec => []CopyIsOneSnapshot
<1>1. Inv1 /\ Inv2 => CopyIsOneSnapshot
  <2> SUFFICES ASSUME Inv1, Inv2, NEW t \in Threads, pc[t] = "copied"
               PROVE  copy[t] = slots[idx[t]]
    BY DEF CopyIsOneSnapshot
  <2>1. copy[t] \in Copy /\ slots[idx[t]] \in Slot
    BY DEF Inv1, TypeOK
  <2>. QED BY <2>1 DEF Inv2, CopyTracksSlot, Copy, Slot
<1>. QED BY <1>1, Stability, PTL

\* The runtime task reduces the current state, and no update is lost.
THEOREM ReductionsBuildOnCurrent == Spec => []ReducedCopyIsCurrent
BY Stability, PTL DEF Inv2

-----------------------------------------------------------------------------
(* Third layer: revisions and snapshot ids grow.                           *)

NextIsNewer == wpc # "idle" => next.revision > slots[active].revision

IdsBelowNext == \A s \in Slots : slots[s].id < nextId

\* What has been written of the next snapshot is newer than the current one.
TargetIsNewer ==
    /\ wpc \in {"devices", "id", "storeid", "storeindex"}
         => slots[target].revision = next.revision
    /\ wpc \in {"storeid", "storeindex"} => slots[target].id > slots[active].id

\* No thread has read anything newer than the current state or its own slot.
CopiesNotAhead ==
    \A t \in Threads :
      /\ copy[t].revision <= slots[active].revision
      /\ copy[t].id <= slots[active].id
      /\ pc[t] \in Held => /\ copy[t].revision <= slots[idx[t]].revision
                           /\ copy[t].id <= slots[idx[t]].id
                           /\ slots[idx[t]].revision <= slots[active].revision
                           /\ slots[idx[t]].id <= slots[active].id

Inv3 == NextIsNewer /\ IdsBelowNext /\ TargetIsNewer /\ CopiesNotAhead

LEMMA InitInv3 == Init => Inv3
BY SlotCountAssumption
DEF Init, Inv3, NextIsNewer, IdsBelowNext, TargetIsNewer, CopiesNotAhead, Held, InitCopy,
    InitSlot, Slots

LEMMA ReadInv3 ==
    ASSUME Inv1, Inv2, Inv3, NEW t \in Threads, Read(t)
    PROVE  /\ Inv3'
           /\ \A u \in Threads : copy'[u].revision >= copy[u].revision
                                 /\ copy'[u].id >= copy[u].id
<1> USE DEF Inv1, Inv3
<1>1. /\ UNCHANGED <<sharedButPins, writerVars>>
      /\ \A u \in Threads : u # t =>
           pc'[u] = pc[u] /\ idx'[u] = idx[u] /\ copy'[u] = copy[u]
  BY ReadFrame
<1>2. NextIsNewer' /\ IdsBelowNext' /\ TargetIsNewer'
  BY <1>1 DEF NextIsNewer, IdsBelowNext, TargetIsNewer, sharedButPins, writerVars
<1>3. \A u \in Threads : copy[u] \in Copy /\ slots[idx[u]] \in Slot
                         /\ slots[active] \in Slot /\ slots' = slots /\ active' = active
  BY <1>1 DEF TypeOK, sharedButPins
<1>4. /\ copy'[t].revision \in {copy[t].revision, slots[idx[t]].revision}
      /\ copy'[t].id \in {copy[t].id, slots[idx[t]].id}
      /\ copy'[t] # copy[t] => pc[t] \in Held
      /\ pc'[t] \in Held => idx'[t] = idx[t] /\ (pc[t] \in Held \/ idx[t] = active)
  <2>1. CASE FillRef(t)
    BY <1>3, <2>1 DEF FillRef, Goto, TypeOK, Copy, Held
  <2>2. CASE CopyHeader(t)
    BY <1>3, <2>2 DEF CopyHeader, Goto, TypeOK, Copy, Held
  <2>3. CASE CopyDevices(t)
    BY <1>3, <2>3 DEF CopyDevices, Goto, TypeOK, Copy, Held
  <2>4. CASE LoadActive(t) \/ PinSlot(t) \/ ObserveSame(t) \/ ObserveMoved(t)
             \/ Unpin(t) \/ ReleaseSnapshot(t)
    BY <2>4 DEF LoadActive, PinSlot, ObserveSame, ObserveMoved, Unpin, ReleaseSnapshot,
                Goto, TypeOK, Held
  <2>. QED BY <2>1, <2>2, <2>3, <2>4 DEF Read
<1>5. /\ copy'[t].revision >= copy[t].revision /\ copy'[t].id >= copy[t].id
      /\ copy'[t].revision <= slots[active].revision /\ copy'[t].id <= slots[active].id
      /\ pc'[t] \in Held => /\ copy'[t].revision <= slots[idx[t]].revision
                            /\ copy'[t].id <= slots[idx[t]].id
                            /\ slots[idx[t]].revision <= slots[active].revision
                            /\ slots[idx[t]].id <= slots[active].id
  <2>1. /\ copy[t].revision \in Nat /\ copy[t].id \in Nat
        /\ slots[idx[t]].revision \in Nat /\ slots[idx[t]].id \in Nat
        /\ slots[active].revision \in Nat /\ slots[active].id \in Nat
    BY <1>3 DEF Copy, Slot
  <2>2. CASE pc[t] \in Held
    BY <1>4, <2>1, <2>2 DEF CopiesNotAhead
  <2>3. CASE pc[t] \notin Held
    BY <1>4, <2>1, <2>3 DEF CopiesNotAhead
  <2>. QED BY <2>2, <2>3
<1>6. CopiesNotAhead'
  BY <1>1, <1>3, <1>4, <1>5 DEF CopiesNotAhead
<1>7. ASSUME NEW u \in Threads
      PROVE  copy'[u].revision >= copy[u].revision /\ copy'[u].id >= copy[u].id
  BY <1>1, <1>3, <1>5 DEF Copy
<1>. QED BY <1>2, <1>6, <1>7

LEMMA PublishInv3 ==
    ASSUME Inv1, Inv2, Inv3, Publish
    PROVE  /\ Inv3'
           /\ \A u \in Threads : copy'[u].revision = copy[u].revision
                                 /\ copy'[u].id = copy[u].id
           /\ active' # active => /\ slots' = slots
                                  /\ slots[active'].revision > slots[active].revision
<1> USE DEF Inv1, Inv3
<1>0. /\ TypeOK /\ active \in Slots /\ target \in Slots /\ nextId \in Nat
      /\ \A s \in Slots : slots[s] \in Slot /\ slots[s].id \in Nat /\ slots[s].revision \in Nat
      /\ next.revision \in Nat
      /\ \A t \in Threads : idx[t] \in Slots
                            /\ copy[t].revision \in Nat /\ copy[t].id \in Nat
  BY DEF TypeOK, Slot, Copy
<1>1. CASE PublishRestored \/ PublishReduced
  <2>1. /\ UNCHANGED <<shared, pc, idx, target>> /\ wpc' = "scan"
        /\ \A t \in Threads : copy'[t].revision = copy[t].revision /\ copy'[t].id = copy[t].id
    <3>1. UNCHANGED <<shared, pc, idx, target>> /\ wpc' = "scan"
      BY <1>1 DEF PublishRestored, PublishReduced, BeginPublish
    <3>2. copy' = copy \/ copy' = [copy EXCEPT ![Runtime].devices = NoPayload]
      BY <1>1 DEF PublishRestored, PublishReduced
    <3>. QED BY <1>0, <3>1, <3>2 DEF TypeOK, Copy
  <2>2. next'.revision > slots[active].revision
    <3>1. ASSUME NEW r \in Nat, NEW d \in Payload,
                 next' = Raised([revision |-> r, devices |-> d])
          PROVE  next'.revision > slots[active].revision
      BY <1>0, <3>1 DEF Raised
    <3>2. CASE PublishRestored
      BY <3>1, <3>2, BoundAssumption DEF PublishRestored, BeginPublish
    <3>3. CASE PublishReduced
      <4>1. copy[Runtime].revision + 1 \in Nat
        BY <1>0, ThreadsFinite
      <4>2. PICK d \in Payload :
              next' = Raised([revision |-> copy[Runtime].revision + 1, devices |-> d])
        BY <3>3 DEF PublishReduced, BeginPublish
      <4>. QED BY <3>1, <4>1, <4>2
    <3>. QED BY <1>1, <3>2, <3>3
  <2>. QED BY <2>1, <2>2
           DEF NextIsNewer, IdsBelowNext, TargetIsNewer, CopiesNotAhead, shared, sharedButPins
<1>2. CASE SkipCandidate \/ TakeCandidate \/ PublishFails
  <2>1. /\ UNCHANGED <<shared, readerVars, next>> /\ wpc = "scan"
        /\ wpc' \in {"scan", "header", "idle"}
    BY <1>2 DEF SkipCandidate, TakeCandidate, PublishFails
  <2>. QED BY <2>1
           DEF NextIsNewer, IdsBelowNext, TargetIsNewer, CopiesNotAhead, shared,
               sharedButPins, readerVars
<1>3. CASE WriteHeader \/ WriteDevices \/ WriteId
  <2>1. /\ UNCHANGED <<readerVars, active, target, next>> /\ Writing /\ wpc # "idle"
        /\ \A s \in Slots : s # target => slots'[s] = slots[s]
    BY <1>0, <1>3 DEF WriteHeader, WriteDevices, WriteId, Writing, TypeOK
  <2>2. slots'[active] = slots[active]
        /\ \A t \in Threads : pc[t] \in Held => slots'[idx[t]] = slots[idx[t]]
    BY <1>0, <2>1 DEF Inv2, SlotChoice, PinnedSlotIsStable
  <2>3. NextIsNewer' /\ CopiesNotAhead'
    BY <2>1, <2>2 DEF NextIsNewer, CopiesNotAhead, readerVars
  <2>4. IdsBelowNext' /\ TargetIsNewer'
    <3>1. CASE WriteHeader
      BY <1>0, <2>1, <2>2, <3>1 DEF WriteHeader, IdsBelowNext, TargetIsNewer, TypeOK, Slot
    <3>2. CASE WriteDevices
      BY <1>0, <2>1, <2>2, <3>2 DEF WriteDevices, IdsBelowNext, TargetIsNewer, TypeOK, Slot
    <3>3. CASE WriteId
      BY <1>0, <2>1, <2>2, <3>3 DEF WriteId, IdsBelowNext, TargetIsNewer, TypeOK, Slot
    <3>. QED BY <1>3, <3>1, <3>2, <3>3
  <2>. QED BY <2>1, <2>3, <2>4 DEF readerVars
<1>4. CASE StoreActiveId
  BY <1>4 DEF StoreActiveId, NextIsNewer, IdsBelowNext, TargetIsNewer, CopiesNotAhead,
              readerVars
<1>5. CASE StoreActiveIndex
  <2>1. /\ UNCHANGED <<slots, readerVars, nextId>> /\ wpc' = "idle" /\ active' = target
        /\ slots[target].revision > slots[active].revision
        /\ slots[target].id > slots[active].id
    BY <1>5 DEF StoreActiveIndex, NextIsNewer, TargetIsNewer
  <2>2. CopiesNotAhead'
    BY <1>0, <2>1 DEF CopiesNotAhead, readerVars
  <2>. QED BY <2>1, <2>2 DEF NextIsNewer, IdsBelowNext, TargetIsNewer, readerVars
<1>. QED BY <1>1, <1>2, <1>3, <1>4, <1>5 DEF Publish, shared, sharedButPins

LEMMA StepInv3 == Inv1 /\ Inv2 /\ Inv3 /\ [Next]_vars => Inv3'
<1> SUFFICES ASSUME Inv1, Inv2, Inv3, [Next]_vars PROVE Inv3'
  OBVIOUS
<1>1. CASE UNCHANGED vars
  BY <1>1 DEF vars, readerVars, writerVars, Inv3, NextIsNewer, IdsBelowNext,
              TargetIsNewer, CopiesNotAhead
<1>. QED BY <1>1, ReadInv3, PublishInv3 DEF Next

LEMMA Ordering == Spec => [](Inv1 /\ Inv2 /\ Inv3)
BY InitInv1, StepInv1, InitInv2, StepInv2, InitInv3, StepInv3, PTL DEF Spec

\* No thread reads an older snapshot than one it has read before.
THEOREM ReadersMoveForward == Spec => ReadsNeverGoBack
<1>1. ASSUME Inv1, Inv2, Inv3, [Next]_vars
      PROVE  [\A t \in Threads : /\ copy'[t].revision >= copy[t].revision
                                 /\ copy'[t].id >= copy[t].id]_vars
  <2>1. \A t \in Threads : copy[t].revision \in Nat /\ copy[t].id \in Nat
    BY <1>1 DEF Inv1, TypeOK, Copy
  <2>2. CASE Publish
    BY <1>1, <2>1, <2>2, PublishInv3
  <2>3. CASE \E t \in Threads : Read(t)
    BY <1>1, <2>3, ReadInv3
  <2>. QED BY <1>1, <2>2, <2>3 DEF Next
<1>. QED BY <1>1, Ordering, PTL DEF Spec, ReadsNeverGoBack

-----------------------------------------------------------------------------
(* The registry implements the store of SnapshotStore.                     *)

LEMMA ViewIsState ==
    ASSUME Inv1, NEW t \in Threads
    PROVE  View(t) = [revision |-> 0, devices |-> NoPayload] <=> pc[t] \notin Held
<1>1. pc[t] \in Held => View(t).devices \in Payload
  BY DEF Inv1, TypeOK, View, Slot
<1>. QED BY <1>1, PayloadAssumption DEF View

\* Every execution of the registry is one of a store read and replaced at once.
THEOREM RegistryImplementsStore == Spec => ImplementsStore
<1>1. Init => Store!Init
  BY SlotCountAssumption DEF Init, Store!Init, Store!InitState, View, Held, InitSlot, Slots
<1>2. ASSUME Inv1, Inv2, Inv3, [Next]_vars
      PROVE  [Store!Next]_(Store!vars)
  <2> DEFINE Cur == [revision |-> slots[active].revision, devices |-> slots[active].devices]
             Views == [t \in Threads |-> View(t)]
  <2>1. ASSUME NEW t \in Threads, Read(t)
        PROVE  [Store!Next]_(Store!vars)
    <3>1. /\ UNCHANGED <<sharedButPins, writerVars>>
          /\ \A u \in Threads : u # t =>
               pc'[u] = pc[u] /\ idx'[u] = idx[u] /\ copy'[u] = copy[u]
      BY <1>2, <2>1, ReadFrame DEF Inv1
    <3>2. Cur' = Cur /\ \A u \in Threads : u # t => View(u)' = View(u)
      BY <3>1 DEF View, sharedButPins
    <3>3. CASE ObserveSame(t)
      <4>1. View(t)' = Cur /\ pc[t] \notin Held
        BY <1>2, <3>1, <3>3 DEF ObserveSame, Goto, View, Held, Inv1, TypeOK, sharedButPins
      <4>2. Store!Acquire(t)
        BY <1>2, <3>2, <4>1, ViewIsState DEF Store!Acquire
      <4>. QED BY <4>2 DEF Store!Next
    <3>4. CASE ReleaseSnapshot(t)
      <4>1. View(t)' = [revision |-> 0, devices |-> NoPayload] /\ pc[t] \in Held
        BY <1>2, <3>4 DEF ReleaseSnapshot, View, Held, Inv1, TypeOK
      <4>2. Store!Release(t)
        BY <1>2, <3>2, <4>1, ViewIsState DEF Store!Release
      <4>. QED BY <4>2 DEF Store!Next
    <3>5. CASE ~ ObserveSame(t) /\ ~ ReleaseSnapshot(t)
      <4>1. /\ pc'[t] \in Held <=> pc[t] \in Held
            /\ pc[t] \in Held => idx'[t] = idx[t]
        BY <1>2, <2>1, <3>5
        DEF Read, LoadActive, PinSlot, ObserveMoved, Unpin, FillRef, CopyHeader, CopyDevices,
            Goto, Held, Inv1, TypeOK
      <4>2. View(t)' = View(t)
        BY <3>1, <4>1 DEF View, sharedButPins
      <4>. QED BY <3>2, <4>2 DEF Store!vars
    <3>. QED BY <3>3, <3>4, <3>5
  <2>2. ASSUME Publish
        PROVE  [Store!Next]_(Store!vars)
    <3>1. pc' = pc /\ idx' = idx
      BY <2>2 DEF Publish, PublishRestored, PublishReduced, BeginPublish, SkipCandidate,
                  TakeCandidate, PublishFails, WriteHeader, WriteDevices, WriteId,
                  StoreActiveId, StoreActiveIndex, readerVars
    <3>2. \A t \in Threads : pc[t] \in Held => slots'[idx[t]] = slots[idx[t]]
      BY <1>2, <2>2 DEF Publish, PublishRestored, PublishReduced, BeginPublish, SkipCandidate,
                  TakeCandidate, PublishFails, WriteHeader, WriteDevices, WriteId,
                  StoreActiveId, StoreActiveIndex, shared, sharedButPins, Inv1, Inv2, TypeOK,
                  PinnedSlotIsStable, Writing
    <3>3. Views' = Views
      BY <3>1, <3>2 DEF View
    <3>4. CASE active' = active
      <4>1. slots'[active] = slots[active]
        BY <1>2, <2>2, <3>4
        DEF Publish, PublishRestored, PublishReduced, BeginPublish, SkipCandidate,
            TakeCandidate, PublishFails, WriteHeader, WriteDevices, WriteId, StoreActiveId,
            StoreActiveIndex, shared, sharedButPins, Inv1, Inv2, TypeOK, SlotChoice, Writing
      <4>. QED BY <3>3, <3>4, <4>1 DEF Store!vars
    <3>5. CASE active' # active
      <4>1. slots' = slots /\ slots[active'].revision > slots[active].revision
        BY <1>2, <2>2, <3>5, PublishInv3
      <4>2. slots'[active'] \in Slot
        BY <1>2, StepInv1 DEF Inv1, TypeOK
      <4>3. Store!Publish
        BY <3>3, <4>1, <4>2 DEF Store!Publish, Store!State, Slot
      <4>. QED BY <4>3 DEF Store!Next
    <3>. QED BY <3>4, <3>5
  <2>3. CASE UNCHANGED vars
    BY <2>3 DEF vars, readerVars, Store!vars, View
  <2>. QED BY <1>2, <2>1, <2>2, <2>3 DEF Next
<1>. QED BY <1>1, <1>2, Ordering, PTL DEF Spec, ImplementsStore, Store!Spec

-----------------------------------------------------------------------------
(* Fourth layer: how far the readers can hold up one scan.  Every slot the *)
(* scan has passed over is charged to a reader that can no longer pin any  *)
(* slot still to come: to pin again it must first load active_index_.      *)

LEMMA PassedFinite ==
    TypeOK => IsFiniteSet(Passed) /\ Cardinality(Passed) \in Nat
<1>1. IsFiniteSet(Slots)
  BY SlotCountAssumption, FS_Interval DEF Slots
<1>2. Passed \subseteq Slots
  BY DEF Passed
<1>. QED BY <1>1, <1>2, FS_Subset, FS_CardinalityType

\* A scan that has looked at SlotCount candidates has looked at every slot.
LEMMA FullScan ==
    ASSUME TypeOK, scan = SlotCount
    PROVE  Passed = Slots \ {active} /\ Cardinality(Passed) = SlotCount - 1
<1>1. ASSUME NEW s \in Slots
      PROVE  \E i \in 0 .. (SlotCount - 1) : s = (writeIndex + 1 + i) % SlotCount
  <2>1. s \in 0 .. (SlotCount - 1) /\ writeIndex \in 0 .. (SlotCount - 1) /\ SlotCount \in Nat
    BY SlotCountAssumption DEF Slots, TypeOK
  <2>2. s % SlotCount = s /\ (s + SlotCount) % SlotCount = s
    BY <2>1, SlotCountAssumption
  <2>3. CASE s > writeIndex
    <3>1. s - writeIndex - 1 \in 0 .. (SlotCount - 1)
          /\ writeIndex + 1 + (s - writeIndex - 1) = s
      BY <2>1, <2>3
    <3>. QED BY <2>2, <3>1
  <2>4. CASE s <= writeIndex
    <3>1. s + SlotCount - writeIndex - 1 \in 0 .. (SlotCount - 1)
          /\ writeIndex + 1 + (s + SlotCount - writeIndex - 1) = s + SlotCount
      BY <2>1, <2>4
    <3>. QED BY <2>2, <3>1
  <2>. QED BY <2>1, <2>3, <2>4
<1>2. Passed = Slots \ {active}
  BY <1>1 DEF Passed
<1>3. IsFiniteSet(Slots) /\ Cardinality(Slots) = SlotCount
  BY SlotCountAssumption, FS_Interval DEF Slots
<1>. QED BY <1>2, <1>3, FS_RemoveElement DEF TypeOK

LEMMA InitHoldUp == Init => ReadersHoldUpOneSlot
BY DEF Init, ReadersHoldUpOneSlot

LEMMA ReadHoldUp ==
    ASSUME Inv1, Inv2, ReadersHoldUpOneSlot, NEW t \in Threads, Read(t)
    PROVE  ReadersHoldUpOneSlot'
<1> SUFFICES ASSUME wpc' = "scan"
             PROVE  Cardinality(Passed') <= Cardinality((Readers \ Obstructing)')
  BY DEF ReadersHoldUpOneSlot
<1>1. /\ UNCHANGED <<sharedButPins, writerVars>>
      /\ \A u \in Threads : u # t => pc'[u] = pc[u] /\ idx'[u] = idx[u]
  BY ReadFrame DEF Inv1
<1>2. Passed' = Passed /\ active' = active /\ wpc = "scan"
  BY <1>1 DEF Passed, sharedButPins, writerVars
<1>3. t \in Obstructing' => t \in Obstructing
  BY <1>2 DEF Obstructing, Read, LoadActive, PinSlot, ObserveSame, ObserveMoved, Unpin,
              FillRef, CopyHeader, CopyDevices, ReleaseSnapshot, Goto, Counted, Held, Inv1,
              TypeOK
<1>4. Readers \ Obstructing \subseteq Readers \ Obstructing'
  BY <1>1, <1>2, <1>3 DEF Obstructing, Threads
<1>5. IsFiniteSet(Readers \ Obstructing')
  BY ReadersAssumption, FS_Subset
<1>6. Cardinality(Readers \ Obstructing) <= Cardinality(Readers \ Obstructing')
  BY <1>4, <1>5, FS_Subset
<1>7. /\ Cardinality(Readers \ Obstructing) \in Nat
      /\ Cardinality(Readers \ Obstructing') \in Nat /\ Cardinality(Passed) \in Nat
  BY ReadersAssumption, FS_Subset, FS_CardinalityType, PassedFinite DEF Inv1
<1>. QED BY <1>2, <1>6, <1>7 DEF ReadersHoldUpOneSlot

\* Passing over a pinned slot uses up a reader.
LEMMA SkipHoldUp ==
    ASSUME Inv1, Inv2, ReadersHoldUpOneSlot, SkipCandidate
    PROVE  ReadersHoldUpOneSlot'
<1>1. TypeOK /\ wpc = "scan" /\ wpc' = "scan" /\ scan' = scan + 1 /\ scan \in Nat
      /\ UNCHANGED <<active, writeIndex, pc, idx>> /\ Candidate \in Slots
  BY CandidateIsSlot DEF SkipCandidate, shared, sharedButPins, readerVars, Inv1, TypeOK
<1>2. \A i \in 0 .. (scan' - 1) : i \in 0 .. (scan - 1) \/ i = scan
  BY <1>1
<1>3. \A i \in 0 .. (scan - 1) : i \in 0 .. (scan' - 1)
  BY <1>1
<1>4. scan \in 0 .. (scan' - 1)
  BY <1>1
<1>5. Passed' = IF Candidate = active THEN Passed ELSE Passed \cup {Candidate}
  BY <1>1, <1>2, <1>3, <1>4 DEF Passed, Candidate
<1>6. /\ Cardinality(Readers \ Obstructing) \in Nat
      /\ Cardinality((Readers \ Obstructing)') \in Nat
      /\ IsFiniteSet(Readers \ Obstructing) /\ IsFiniteSet((Readers \ Obstructing)')
      /\ IsFiniteSet(Passed) /\ Cardinality(Passed) \in Nat
      /\ Cardinality(Passed) <= Cardinality(Readers \ Obstructing)
  BY <1>1, ReadersAssumption, FS_Subset, FS_CardinalityType, PassedFinite DEF ReadersHoldUpOneSlot
<1>7. CASE Candidate = active \/ Candidate \in Passed
  <2>1. Passed' = Passed
    BY <1>5, <1>7
  <2>2. (Readers \ Obstructing)' = Readers \ Obstructing
    BY <1>1, <2>1 DEF Obstructing
  <2>. QED BY <1>6, <2>1, <2>2 DEF ReadersHoldUpOneSlot
<1>8. CASE Candidate # active /\ Candidate \notin Passed
  <2>1. Cardinality(Passed') = Cardinality(Passed) + 1
    BY <1>5, <1>6, <1>8, FS_AddElement
  <2>2. PICK r \in Readers : r \in Obstructing /\ idx[r] = Candidate
    <3>1. Cardinality(Pinning(Candidate)) # 0
      BY <1>1, <1>8 DEF SkipCandidate, Usable, Inv1, PinCount
    <3>2. PICK r \in Threads : pc[r] \in Counted /\ idx[r] = Candidate
      BY <3>1, FS_EmptySet DEF Pinning
    <3>3. r # Runtime
      BY <1>1, <3>2 DEF Inv2, RuntimeAlone, Counted, Held
    <3>. QED BY <1>8, <3>2, <3>3 DEF Obstructing, Threads
  <2>3. (Readers \ Obstructing) \cup {r} \subseteq (Readers \ Obstructing)'
    BY <1>1, <1>5, <1>8, <2>2 DEF Obstructing
  <2>4. Cardinality((Readers \ Obstructing) \cup {r}) = Cardinality(Readers \ Obstructing) + 1
    BY <1>6, <2>2, FS_AddElement
  <2>5. Cardinality((Readers \ Obstructing) \cup {r}) <= Cardinality((Readers \ Obstructing)')
    BY <1>6, <2>3, FS_Subset
  <2>. QED BY <1>6, <2>1, <2>4, <2>5 DEF ReadersHoldUpOneSlot
<1>. QED BY <1>7, <1>8

LEMMA StepHoldUp == Inv1 /\ Inv2 /\ ReadersHoldUpOneSlot /\ [Next]_vars => ReadersHoldUpOneSlot'
<1> SUFFICES ASSUME Inv1, Inv2, ReadersHoldUpOneSlot, [Next]_vars PROVE ReadersHoldUpOneSlot'
  OBVIOUS
<1>1. CASE PublishRestored \/ PublishReduced
  <2>1. scan' = 0 /\ wpc' = "scan"
    BY <1>1 DEF PublishRestored, PublishReduced, BeginPublish
  <2>2. Passed' = {}
    BY <2>1 DEF Passed
  <2>3. Cardinality((Readers \ Obstructing)') \in Nat
    BY ReadersAssumption, FS_Subset, FS_CardinalityType
  <2>. QED BY <2>2, <2>3, FS_EmptySet DEF ReadersHoldUpOneSlot
<1>2. CASE TakeCandidate \/ PublishFails \/ WriteHeader \/ WriteDevices \/ WriteId
           \/ StoreActiveId \/ StoreActiveIndex
  BY <1>2 DEF TakeCandidate, PublishFails, WriteHeader, WriteDevices, WriteId,
              StoreActiveId, StoreActiveIndex, ReadersHoldUpOneSlot
<1>3. CASE UNCHANGED vars
  <2>1. Passed' = Passed /\ wpc' = wpc
    BY <1>3 DEF vars, writerVars, Passed
  <2>2. Obstructing' = Obstructing
    BY <1>3, <2>1 DEF vars, readerVars, Obstructing
  <2>. QED BY <2>1, <2>2 DEF ReadersHoldUpOneSlot
<1>. QED BY <1>1, <1>2, <1>3, ReadHoldUp, SkipHoldUp DEF Next, Publish

\* No read of the registry sees a slot that is being overwritten, and no pin leaks.
THEOREM RegistryReadsAreSound == Spec => []ReadsAreSound
<1>1. Inv1 /\ Inv2 => TypeOK /\ PinCount /\ PinnedSlotIsStable /\ ReducedCopyIsCurrent
  BY DEF Inv1, Inv2
<1>. QED BY <1>1, CopiesAreWhole, InitInv1, StepInv1, InitInv2, StepInv2, PTL
         DEF Spec, ReadsAreSound

\* However the readers are scheduled, each holds up one slot of a scan at most.
THEOREM EachReaderHoldsUpOneSlot == Spec => []ReadersHoldUpOneSlot
BY InitInv1, StepInv1, InitInv2, StepInv2, InitHoldUp, StepHoldUp, PTL DEF Spec

\* With fewer reading tasks than slots but two, publish() always finds a slot,
\* wherever the readers are and however the scan interleaves with them.
THEOREM PublishAlwaysFindsASlot == Spec => []PublishFindsASlot
<1>1. Inv1 /\ Inv2 /\ ReadersHoldUpOneSlot => PublishFindsASlot
  <2> SUFFICES ASSUME Inv1, ReadersHoldUpOneSlot, Cardinality(Readers) < SlotCount - 1,
                      wpc = "scan", scan = SlotCount
               PROVE  FALSE
    BY DEF PublishFindsASlot
  <2>1. Cardinality(Passed) = SlotCount - 1
    BY FullScan DEF Inv1
  <2>2. /\ Cardinality(Readers \ Obstructing) <= Cardinality(Readers)
        /\ Cardinality(Readers \ Obstructing) \in Nat /\ Cardinality(Readers) \in Nat
    BY ReadersAssumption, FS_Subset, FS_CardinalityType
  <2>. QED BY <2>1, <2>2, SlotCountAssumption DEF ReadersHoldUpOneSlot
<1>. QED BY <1>1, InitInv1, StepInv1, InitInv2, StepInv2, InitHoldUp, StepHoldUp, PTL DEF Spec

=============================================================================
