----------------------- MODULE StatePersistenceProofs -----------------------
(***************************************************************************)
(* Proofs about StatePersistence, for any numbers of devices, identities   *)
(* and addresses, and any events.  The last part is about Configuration,   *)
(* the other state that a restart must give back: what clients were        *)
(* promised, for any queues and tables.                                    *)
(***************************************************************************)
EXTENDS StatePersistence, Sequences, FiniteSetTheorems, WellFoundedInduction, TLAPS

(* Slots.                                                                  *)

\* A set of slots that is not empty has a first one.
LEMMA FirstIsIn ==
    ASSUME NEW S \in SUBSET Slots, S # {}
    PROVE  First(S) \in S
<1> DEFINE less == OpToRel(<, Nat)
<1>1. IsWellFoundedOn(less, Nat)
  BY NatLessThanWellFounded
<1>2. S \subseteq Nat
  BY DEF Slots
<1>3. \A x, y \in Nat : <<y, x>> \in less <=> y < x
  BY DEF OpToRel
<1> HIDE DEF less
<1>4. PICK x \in S : \A y \in S : ~ (<<y, x>> \in less)
  BY <1>1, <1>2, WFMin
<1>5. ASSUME NEW y \in S PROVE x <= y
  <2>1. x \in Nat /\ y \in Nat
    BY <1>2
  <2>2. ~ (y < x)
    BY <1>3, <1>4, <2>1
  <2> QED BY <2>1, <2>2
<1> QED BY <1>5 DEF First

-----------------------------------------------------------------------------
(* What core_reduce does to the records.  n is the next state.             *)

OnlyRecord(s, n, i) == \A j \in Slots : j # i => n.devices[j] = s.devices[j]

Same(s, n) == n.devices = s.devices /\ n.count = s.count

Entered(s, n, e, i) ==
    /\ Unused(s.devices[i]) /\ Found(s, e) = {} /\ ~ Nameless(e)
    /\ OnlyRecord(s, n, i)
    /\ n.devices[i].id = e.id /\ n.devices[i].addr = e.addr
    /\ n.devices[i].online
    /\ n.count = s.count + 1

Kept(s, n, e, i) ==
    /\ i \in Found(s, e)
    /\ OnlyRecord(s, n, i)
    /\ n.devices[i].id = s.devices[i].id
    /\ n.devices[i].addr = s.devices[i].addr \/ e.id # NoId
    /\ n.devices[i].online
    /\ n.count = s.count

Freed(s, n, e, i) ==
    /\ i \in Found(s, e)
    /\ OnlyRecord(s, n, i)
    /\ n.devices[i] = FreeRecord
    /\ n.count = s.count - 1

OneStep(s, n, e) ==
    \/ Same(s, n)
    \/ \E i \in Slots : Entered(s, n, e, i) \/ Kept(s, n, e, i) \/ Freed(s, n, e, i)

\* A slot that is not used is as good as new.
Fresh(s) == \A i \in Slots : Unused(s.devices[i]) => s.devices[i] = FreeRecord

Good(s) == CountHolds(s) /\ OneRecord(s) /\ Fresh(s)

\* Slots are finitely many, and so are those that are online.
LEMMA OnlineFinite ==
    ASSUME NEW s
    PROVE  IsFiniteSet(Online(s)) /\ Cardinality(Online(s)) \in Nat
<1>1. IsFiniteSet(Slots)
  BY FS_Interval, DevicesAssumption DEF Slots
<1>2. Online(s) \subseteq Slots
  BY DEF Online
<1> QED BY <1>1, <1>2, FS_Subset, FS_CardinalityType

\* A record that is found is in use and, in a good state, online.
LEMMA FoundIsOnline ==
    ASSUME NEW s \in State, NEW e \in Event, CountHolds(s), NEW i \in Found(s, e)
    PROVE  /\ i \in Slots /\ ~ Unused(s.devices[i]) /\ s.devices[i].online
           /\ s.count > 0
<1>1. i \in Slots /\ Matches(s.devices[i], e.id, e.addr)
  BY DEF Found
<1>2. ~ Unused(s.devices[i])
  BY <1>1 DEF Matches, Unused
<1>3. i \in Online(s)
  BY <1>1, <1>2 DEF CountHolds, Used
<1>4. s.count > 0
  BY <1>3, OnlineFinite, FS_EmptySet DEF CountHolds
<1> QED BY <1>1, <1>2, <1>3, <1>4 DEF Online

LEMMA FreshRecordType == FreeRecord \in DeviceRecord
  BY NumbersAssumption DEF FreeRecord, DeviceRecord, ReportingStates

LEMMA WithDeviceIs ==
    ASSUME NEW s \in State, NEW i \in Slots, NEW d \in DeviceRecord
    PROVE  /\ WithDevice(s, i, d) \in State
           /\ OnlyRecord(s, WithDevice(s, i, d), i)
           /\ WithDevice(s, i, d).devices[i] = d
           /\ WithDevice(s, i, d).count = s.count
           /\ WithDevice(s, i, d).revision = s.revision
           /\ d = s.devices[i] => WithDevice(s, i, d) = s
  BY DEF WithDevice, State, OnlyRecord

LEMMA CountedIs ==
    ASSUME NEW s \in State, NEW k \in {-1, 0, 1}, s.count + k >= 0
    PROVE  /\ Counted(s, k) \in State
           /\ Counted(s, k).devices = s.devices
           /\ Counted(s, k).count = s.count + k
           /\ Counted(s, k).revision = s.revision
  BY DEF Counted, State

-----------------------------------------------------------------------------
(* Every handler.                                                          *)

\* What holds of the result of a handler: it says so if it changed anything,
\* and asks for the records to be persisted if it changed them.
Sound(s, e, r) ==
    /\ r.next \in State /\ r.changed \in BOOLEAN
    /\ r.next.revision = s.revision
    /\ OneStep(s, r.next, e)
    /\ ~ r.changed => r.next = s
    /\ "persist" \notin r.effects => r.next.devices = s.devices

LEMMA KeepIsSound ==
    ASSUME NEW s \in State, NEW e \in Event
    PROVE  Sound(s, e, Keep(s))
  BY DEF Sound, Keep, Result, OneStep, Same

LEMMA NotedIsSound ==
    ASSUME NEW s \in State, NEW e \in Event, NEW n \in State, NEW others,
           n.revision = s.revision, OneStep(s, n, e)
    PROVE  Sound(s, e, Noted(n, others))
  BY DEF Sound, Noted, Result

\* A handler that replaces the record it found by d.
LEMMA UpdateIsSound ==
    ASSUME NEW s \in State, NEW e \in Event, CountHolds(s), Found(s, e) # {},
           NEW d \in DeviceRecord, NEW changed \in BOOLEAN, NEW effects,
           d.id = s.devices[First(Found(s, e))].id,
           d.addr = s.devices[First(Found(s, e))].addr \/ e.id # NoId,
           d.online,
           ~ changed => d = s.devices[First(Found(s, e))]
    PROVE  Sound(s, e, Update(s, e, d, changed, effects))
<1> DEFINE i == First(Found(s, e))
           n == WithDevice(s, i, d)
<1>1. i \in Found(s, e) /\ i \in Slots
  BY FirstIsIn DEF Found
<1>2. /\ n \in State /\ OnlyRecord(s, n, i) /\ n.devices[i] = d
      /\ n.count = s.count /\ n.revision = s.revision
      /\ d = s.devices[i] => n = s
  BY <1>1, WithDeviceIs
<1>3. OneStep(s, n, e)
  <2>1. Kept(s, n, e, i)
    BY <1>1, <1>2 DEF Kept
  <2> QED BY <2>1, <1>1 DEF OneStep
<1> HIDE DEF n
<1>4. CASE changed
  <2>1. Update(s, e, d, changed, effects) = Noted(n, effects)
    BY <1>4 DEF Update, n
  <2> QED BY <2>1, <1>2, <1>3, NotedIsSound
<1>5. CASE ~ changed
  <2>1. Update(s, e, d, changed, effects) = Keep(n) /\ n = s
    BY <1>5, <1>2 DEF Update, n
  <2> QED BY <2>1, KeepIsSound
<1> QED BY <1>4, <1>5

\* A join that takes an unused slot.
LEMMA EnterIsSound ==
    ASSUME NEW s \in State, NEW e \in Event, CountHolds(s), ~ Nameless(e),
           Found(s, e) = {}, FreeSlots(s) # {}
    PROVE  Sound(s, e, Enter(s, First(FreeSlots(s)), e))
<1> DEFINE i == First(FreeSlots(s))
           d == [s.devices[i] EXCEPT !.id = e.id, !.addr = e.addr,
                                     !.online = TRUE, !.power = FALSE]
           m == WithDevice(s, i, d)
           n == Counted(m, 1)
<1>1. i \in Slots /\ Unused(s.devices[i])
  <2>1. i \in FreeSlots(s)
    BY FirstIsIn DEF FreeSlots
  <2> QED BY <2>1 DEF FreeSlots
<1>2. s.devices[i] \in DeviceRecord
  BY <1>1 DEF State
<1>3. /\ d \in DeviceRecord
      /\ d.id = e.id /\ d.addr = e.addr /\ d.online
  BY <1>2 DEF DeviceRecord, Event
<1> HIDE DEF d
<1>4. /\ m \in State /\ OnlyRecord(s, m, i) /\ m.devices[i] = d
      /\ m.count = s.count /\ m.revision = s.revision
  BY <1>1, <1>3, WithDeviceIs
<1> HIDE DEF m, i
<1>5. m.count \in Nat
  BY <1>4 DEF State
<1>6. /\ n \in State /\ n.devices = m.devices /\ n.count = m.count + 1
      /\ n.revision = m.revision
  BY <1>4, <1>5, CountedIs
<1> HIDE DEF n
<1>7. Entered(s, n, e, i)
  BY <1>1, <1>3, <1>4, <1>6 DEF Entered, OnlyRecord
<1>8. OneStep(s, n, e)
  BY <1>1, <1>7 DEF OneStep
<1>9. Enter(s, First(FreeSlots(s)), e) = Noted(n, {"interview"})
  BY DEF Enter, n, m, d, i
<1> QED BY <1>4, <1>6, <1>8, <1>9, NotedIsSound

\* A join of a device that is known, and hence online.
LEMMA RejoinIsSound ==
    ASSUME NEW s \in State, NEW e \in Event, CountHolds(s), Found(s, e) # {}
    PROVE  Sound(s, e, Rejoin(s, First(Found(s, e)), e))
<1> DEFINE i == First(Found(s, e))
           d == [s.devices[i] EXCEPT !.addr = e.addr, !.online = TRUE]
<1>1. i \in Found(s, e) /\ i \in Slots
  BY FirstIsIn DEF Found
<1>2. s.devices[i].online
  BY <1>1, FoundIsOnline
<1>3. s.devices[i] \in DeviceRecord
  BY <1>1 DEF State
<1>4. CASE s.devices[i].addr # e.addr
  <2>1. d \in DeviceRecord /\ d.id = s.devices[i].id /\ d.online /\ d.addr = e.addr
    BY <1>3 DEF DeviceRecord, Event
  <2>2. e.id # NoId
    BY <1>1, <1>4 DEF Found, Matches
  <2>3. Sound(s, e, Update(s, e, d, TRUE, {}))
    <3> HIDE DEF d
    <3> QED BY <2>1, <2>2, UpdateIsSound
  <2>4. Rejoin(s, i, e) = Update(s, e, d, TRUE, {})
    BY <1>2, <1>4 DEF Rejoin, Update
  <2> QED BY <2>3, <2>4
<1>5. CASE s.devices[i].addr = e.addr
  <2>1. Rejoin(s, i, e) = Keep(s)
    BY <1>2, <1>5 DEF Rejoin
  <2> QED BY <2>1, KeepIsSound
<1> QED BY <1>4, <1>5

LEMMA JoinIsSound ==
    ASSUME NEW s \in State, NEW e \in Event, CountHolds(s)
    PROVE  Sound(s, e, Join(s, e))
<1>1. CASE ~ Nameless(e) /\ Found(s, e) # {}
  <2>1. Join(s, e) = Rejoin(s, First(Found(s, e)), e)
    BY <1>1 DEF Join
  <2> QED BY <1>1, <2>1, RejoinIsSound
<1>2. CASE ~ Nameless(e) /\ Found(s, e) = {} /\ FreeSlots(s) # {}
  <2>1. Join(s, e) = Enter(s, First(FreeSlots(s)), e)
    BY <1>2 DEF Join
  <2> QED BY <1>2, <2>1, EnterIsSound
<1>3. CASE Nameless(e) \/ (Found(s, e) = {} /\ FreeSlots(s) = {})
  <2>1. Join(s, e) = Keep(s)
    BY <1>3 DEF Join
  <2> QED BY <2>1, KeepIsSound
<1> QED BY <1>1, <1>2, <1>3

LEMMA LeaveIsSound ==
    ASSUME NEW s \in State, NEW e \in Event, CountHolds(s)
    PROVE  Sound(s, e, Leave(s, e))
<1> DEFINE i == First(Found(s, e))
           m == WithDevice(s, i, FreeRecord)
           n == Counted(m, -1)
<1>1. CASE Found(s, e) = {}
  <2>1. Leave(s, e) = Keep(s)
    BY <1>1 DEF Leave
  <2> QED BY <2>1, KeepIsSound
<1>2. CASE Found(s, e) # {}
  <2>1. i \in Found(s, e) /\ i \in Slots
    BY <1>2, FirstIsIn DEF Found
  <2>2. s.devices[i].online /\ s.count > 0
    BY <2>1, FoundIsOnline
  <2>3. Leave(s, e) = Noted(n, {})
    BY <1>2, <2>2 DEF Leave
  <2>4. /\ m \in State /\ OnlyRecord(s, m, i) /\ m.devices[i] = FreeRecord
        /\ m.count = s.count /\ m.revision = s.revision
    BY <2>1, FreshRecordType, WithDeviceIs
  <2> HIDE DEF m, i
  <2>5. m.count \in Nat /\ m.count > 0
    BY <2>2, <2>4 DEF State
  <2>6. /\ n \in State /\ n.devices = m.devices /\ n.count = m.count - 1
        /\ n.revision = m.revision
    BY <2>4, <2>5, CountedIs
  <2> HIDE DEF n
  <2>7. Freed(s, n, e, i)
    BY <2>1, <2>4, <2>6 DEF Freed, OnlyRecord
  <2>8. OneStep(s, n, e)
    BY <2>1, <2>7 DEF OneStep
  <2> QED BY <2>3, <2>4, <2>6, <2>8, NotedIsSound
<1> QED BY <1>1, <1>2

LEMMA NetworkIsSound ==
    ASSUME NEW s \in State, NEW e \in Event, NEW up \in BOOLEAN
    PROVE  Sound(s, e, Network(s, up))
<1>1. CASE s.network = up
  BY <1>1, KeepIsSound DEF Network
<1>2. CASE s.network # up
  <2> DEFINE n == [s EXCEPT !.network = up]
  <2>1. n \in State /\ Same(s, n) /\ n.revision = s.revision
    BY DEF State, Same
  <2>2. Network(s, up) = Noted(n, {})
    BY <1>2 DEF Network
  <2> HIDE DEF n
  <2> QED BY <2>1, <2>2, NotedIsSound DEF OneStep
<1> QED BY <1>1, <1>2

LEMMA OnOffIsSound ==
    ASSUME NEW s \in State, NEW e \in Event, CountHolds(s)
    PROVE  Sound(s, e, OnOff(s, e))
<1> DEFINE i == First(Found(s, e))
           d == [s.devices[i] EXCEPT !.power = e.on, !.online = TRUE]
<1>1. CASE Found(s, e) = {} \/ (s.devices[i].power = e.on /\ s.devices[i].online)
  BY <1>1, KeepIsSound DEF OnOff
<1>2. CASE ~ (Found(s, e) = {} \/ (s.devices[i].power = e.on /\ s.devices[i].online))
  <2>1. i \in Slots
    BY <1>2, FirstIsIn DEF Found
  <2>2. /\ d \in DeviceRecord /\ d.id = s.devices[i].id
        /\ d.addr = s.devices[i].addr /\ d.online
    BY <2>1 DEF State, DeviceRecord, Event
  <2>3. OnOff(s, e) = Update(s, e, d, TRUE, {})
    BY <1>2 DEF OnOff
  <2> HIDE DEF d
  <2> QED BY <1>2, <2>2, <2>3, UpdateIsSound
<1> QED BY <1>1, <1>2

LEMMA LifecycleIsSound ==
    ASSUME NEW s \in State, NEW e \in Event, CountHolds(s),
           e.type \in LifecycleEvents
    PROVE  Sound(s, e, Lifecycle(s, e))
<1> DEFINE i == First(Found(s, e))
           stale == e.type = "stale"
           d == [s.devices[i] EXCEPT !.reporting = e.type, !.stale = stale]
           changed == s.devices[i].reporting # e.type \/ s.devices[i].stale # stale
<1>1. CASE Found(s, e) = {}
  BY <1>1, KeepIsSound DEF Lifecycle
<1>2. CASE Found(s, e) # {}
  <2>1. i \in Found(s, e) /\ i \in Slots
    BY <1>2, FirstIsIn DEF Found
  <2>2. s.devices[i].online
    BY <2>1, FoundIsOnline
  <2>3. s.devices[i] \in DeviceRecord
    BY <2>1 DEF State
  <2>4. /\ d \in DeviceRecord /\ d.id = s.devices[i].id
        /\ d.addr = s.devices[i].addr /\ d.online
    BY <2>2, <2>3 DEF DeviceRecord, LifecycleEvents, ReportingStates
  <2>5. ~ changed => d = s.devices[i]
    BY <2>3 DEF DeviceRecord
  <2>6. Lifecycle(s, e) = Update(s, e, d, changed, NextStep(e.type))
    BY <1>2 DEF Lifecycle
  <2>7. changed \in BOOLEAN
    OBVIOUS
  <2> HIDE DEF d, changed
  <2> QED BY <1>2, <2>4, <2>5, <2>6, <2>7, UpdateIsSound
<1> QED BY <1>1, <1>2

LEMMA TelemetryIsSound ==
    ASSUME NEW s \in State, NEW e \in Event, CountHolds(s)
    PROVE  Sound(s, e, Telemetry(s, e))
<1> DEFINE i == First(Found(s, e))
           d == [s.devices[i] EXCEPT !.reporting = "active", !.stale = FALSE,
                                     !.seen = e.at,
                                     !.readings[e.kind] = e.reading]
           changed == \/ s.devices[i].reporting # "active"
                      \/ s.devices[i].stale
                      \/ s.devices[i].seen # e.at
                      \/ s.devices[i].readings[e.kind] # e.reading
<1>1. CASE Found(s, e) = {}
  BY <1>1, KeepIsSound DEF Telemetry
<1>2. CASE Found(s, e) # {}
  <2>1. i \in Found(s, e) /\ i \in Slots
    BY <1>2, FirstIsIn DEF Found
  <2>2. s.devices[i].online
    BY <2>1, FoundIsOnline
  <2>3. s.devices[i] \in DeviceRecord
    BY <2>1 DEF State
  <2>4. e.kind \in Kinds /\ e.reading \in Readings \cup {NoReading} /\ e.at \in Times
    BY DEF Event
  <2>5. /\ d \in DeviceRecord /\ d.id = s.devices[i].id
        /\ d.addr = s.devices[i].addr /\ d.online
    BY <2>2, <2>3, <2>4 DEF DeviceRecord, ReportingStates
  <2>6. ~ changed => d = s.devices[i]
    <3> SUFFICES ASSUME ~ changed PROVE d = s.devices[i]
      OBVIOUS
    <3> DEFINE old == s.devices[i]
    <3>1. /\ old \in DeviceRecord
          /\ old.reporting = "active" /\ old.stale = FALSE /\ old.seen = e.at
          /\ old.readings[e.kind] = e.reading
      BY <2>3 DEF DeviceRecord
    <3>2. d = [old EXCEPT !.reporting = "active", !.stale = FALSE, !.seen = e.at,
                          !.readings = [@ EXCEPT ![e.kind] = e.reading]]
      OBVIOUS
    <3> HIDE DEF d, changed, old
    <3>3. [old.readings EXCEPT ![e.kind] = e.reading] = old.readings
      BY <3>1, <2>4 DEF DeviceRecord
    <3>4. d = old
      BY <3>1, <3>2, <3>3 DEF DeviceRecord
    <3> QED BY <3>4 DEF old
  <2>7. Telemetry(s, e) = Update(s, e, d, changed, {})
    BY <1>2 DEF Telemetry
  <2>8. changed \in BOOLEAN
    OBVIOUS
  <2> HIDE DEF d, changed
  <2> QED BY <1>2, <2>5, <2>6, <2>7, <2>8, UpdateIsSound
<1> QED BY <1>1, <1>2

\* A command that ends leaves the records alone.
LEMMA CompletedIsSound ==
    ASSUME NEW s \in State, NEW e \in Event, NEW status \in 0 .. 3
    PROVE  Sound(s, e, Completed(s, status))
<1> DEFINE n == [s EXCEPT !.status = status]
<1>1. n \in State /\ Same(s, n) /\ n.revision = s.revision
  BY DEF State, Same
<1>2. Completed(s, status) = Result(n, TRUE, {"emit"})
  BY DEF Completed
<1> HIDE DEF n
<1> QED BY <1>1, <1>2 DEF Sound, Result, OneStep, Same

LEMMA HandleIsSound ==
    ASSUME NEW s \in State, NEW e \in Event, CountHolds(s)
    PROVE  Sound(s, e, Handle(s, e))
<1>1. CASE e.type = "joined"
  <2>1. Handle(s, e) = Join(s, e)
    BY <1>1 DEF Handle, LifecycleEvents
  <2> QED BY <2>1, JoinIsSound
<1>2. CASE e.type = "left"
  <2>1. Handle(s, e) = Leave(s, e)
    BY <1>2 DEF Handle, LifecycleEvents
  <2> QED BY <2>1, LeaveIsSound
<1>3. CASE e.type = "networkUp"
  <2>1. Handle(s, e) = Network(s, TRUE)
    BY <1>3 DEF Handle, LifecycleEvents
  <2> QED BY <2>1, NetworkIsSound
<1>4. CASE e.type = "networkDown"
  <2>1. Handle(s, e) = Network(s, FALSE)
    BY <1>4 DEF Handle, LifecycleEvents
  <2> QED BY <2>1, NetworkIsSound
<1>5. CASE e.type = "onOff"
  <2>1. Handle(s, e) = OnOff(s, e)
    BY <1>5 DEF Handle, LifecycleEvents
  <2> QED BY <2>1, OnOffIsSound
<1>6. CASE e.type = "telemetry"
  <2>1. Handle(s, e) = Telemetry(s, e)
    BY <1>6 DEF Handle, LifecycleEvents
  <2> QED BY <2>1, TelemetryIsSound
<1>7. CASE e.type \in LifecycleEvents
  <2>1. Handle(s, e) = Lifecycle(s, e)
    BY <1>7 DEF Handle, LifecycleEvents
  <2> QED BY <1>7, <2>1, LifecycleIsSound
<1>8. CASE e.type = "setPower"
  BY <1>8 DEF Handle, LifecycleEvents, Sound, Result, OneStep, Same
<1>9. CASE e.type = "refresh"
  BY <1>9 DEF Handle, LifecycleEvents, Sound, Result, OneStep, Same
<1>10. CASE e.type = "succeeded"
  <2>1. Handle(s, e) = Completed(s, 1)
    BY <1>10 DEF Handle, LifecycleEvents
  <2> QED BY <2>1, CompletedIsSound
<1>11. CASE e.type = "timedOut"
  <2>1. Handle(s, e) = Completed(s, 2)
    BY <1>11 DEF Handle, LifecycleEvents
  <2> QED BY <2>1, CompletedIsSound
<1>12. CASE e.type = "failed"
  <2>1. Handle(s, e) = Completed(s, 3)
    BY <1>12 DEF Handle, LifecycleEvents
  <2> QED BY <2>1, CompletedIsSound
<1>13. e.type \in EventTypes
  BY DEF Event
<1> QED
  BY <1>1, <1>2, <1>3, <1>4, <1>5, <1>6, <1>7, <1>8, <1>9, <1>10, <1>11, <1>12,
     <1>13 DEF EventTypes

\* The revision moves whenever it is counted up, also when it wraps around.
LEMMA RevisionMoves ==
    ASSUME NEW r \in 0 .. (RevisionRange - 1)
    PROVE  /\ (r + 1) % RevisionRange \in 0 .. (RevisionRange - 1)
           /\ (r + 1) % RevisionRange # r
<1>1. CASE r + 1 < RevisionRange
  <2>1. (r + 1) % RevisionRange = r + 1
    BY <1>1, NumbersAssumption
  <2> QED BY <1>1, <2>1, NumbersAssumption
<1>2. CASE r + 1 = RevisionRange
  <2>1. RevisionRange % RevisionRange = 0
    BY NumbersAssumption
  <2> QED BY <1>2, <2>1, NumbersAssumption
<1> QED BY <1>1, <1>2, NumbersAssumption

\* What process_pending publishes of the event's result.
Published(s, e) ==
    LET r == Reduce(s, e)
    IN IF r.next.revision # s.revision THEN r.next ELSE s

\* core_reduce makes one step of the records, loses none between its result
\* and what is published, and asks for what it changed to be persisted.
LEMMA ReduceIs ==
    ASSUME NEW s \in State, NEW e \in Event, CountHolds(s)
    PROVE  /\ Published(s, e) \in State
           /\ Published(s, e) = Reduce(s, e).next
           /\ OneStep(s, Published(s, e), e)
           /\ "persist" \notin Reduce(s, e).effects
                => Published(s, e).devices = s.devices
<1> DEFINE h == Handle(s, e)
           r == Reduce(s, e)
           n == [h.next EXCEPT !.revision = (s.revision + 1) % RevisionRange]
<1>1. Sound(s, e, h)
  BY HandleIsSound
<1>2. r.effects = h.effects
  BY DEF Reduce
<1>3. CASE h.changed
  <2>1. r.next = n
    BY <1>3 DEF Reduce
  <2>2. s.revision \in 0 .. (RevisionRange - 1)
    BY DEF State
  <2>3. h.next \in State
    BY <1>1 DEF Sound
  <2>4. /\ n \in State /\ n.revision # s.revision
        /\ n.devices = h.next.devices /\ n.count = h.next.count
    BY <2>2, <2>3, RevisionMoves DEF State
  <2>7. "persist" \notin h.effects => h.next.devices = s.devices
    BY <1>1 DEF Sound
  <2> HIDE DEF n
  <2>5. Published(s, e) = n
    BY <2>1, <2>4 DEF Published
  <2> HIDE DEF h, r
  <2>6. OneStep(s, n, e)
    BY <1>1, <2>4
       DEF Sound, OneStep, Same, Entered, Kept, Freed, OnlyRecord
  <2> QED BY <1>2, <2>1, <2>4, <2>5, <2>6, <2>7 DEF r
<1>4. CASE ~ h.changed
  <2>1. r.next = s
    BY <1>1, <1>4 DEF Reduce, Sound
  <2>2. Published(s, e) = s
    BY <2>1 DEF Published
  <2>3. OneStep(s, s, e)
    BY DEF OneStep, Same
  <2> QED BY <2>1, <2>2, <2>3
<1> QED BY <1>3, <1>4

-----------------------------------------------------------------------------
(* Good states stay good.                                                  *)

LEMMA GoodDepends ==
    ASSUME NEW s, NEW t, Good(s), t.devices = s.devices, t.count = s.count
    PROVE  Good(t)
<1>1. Online(t) = Online(s) /\ Used(t) = Used(s)
  BY DEF Online, Used
<1> QED BY <1>1 DEF Good, CountHolds, OneRecord, Fresh

LEMMA InitialIsGood == InitialState \in State /\ Good(InitialState)
<1>1. InitialState \in State
  BY FreshRecordType, NumbersAssumption DEF InitialState, State
<1>2. \A i \in Slots : InitialState.devices[i] = FreeRecord
  BY DEF InitialState
<1>3. Unused(FreeRecord) /\ ~ FreeRecord.online
  BY DEF Unused, FreeRecord
<1>4. Online(InitialState) = {} /\ Used(InitialState) = {}
  BY <1>2, <1>3 DEF Online, Used
<1>5. InitialState.count = 0
  BY DEF InitialState
<1> QED BY <1>1, <1>2, <1>4, <1>5, FS_EmptySet DEF Good, CountHolds, OneRecord, Fresh

\* A good state that counts no device has only free records.
LEMMA CountsNothing ==
    ASSUME NEW s \in State, Good(s), s.count = 0
    PROVE  s.devices = InitialState.devices
<1>1. Online(s) = {}
  BY OnlineFinite, FS_EmptySet DEF Good, CountHolds
<1>2. \A i \in Slots : Unused(s.devices[i])
  BY <1>1 DEF Good, CountHolds, Used
<1>3. \A i \in Slots : s.devices[i] = FreeRecord
  BY <1>2 DEF Good, Fresh
<1>4. s.devices = [i \in Slots |-> FreeRecord]
  BY <1>3 DEF State
<1> QED BY <1>4 DEF InitialState

\* Each kind of step on its own.
LEMMA EnteredIsGood ==
    ASSUME NEW s \in State, NEW n \in State, NEW e \in Event, NEW i \in Slots,
           Good(s), Entered(s, n, e, i)
    PROVE  Good(n)
<1>1. i \notin Online(s) /\ i \notin Used(s)
  BY DEF Entered, Good, CountHolds, Used
<1>2. \A j \in Slots : j # i => n.devices[j] = s.devices[j]
  BY DEF Entered, OnlyRecord
<1>3. ~ Unused(n.devices[i]) /\ n.devices[i].online
  BY DEF Entered, Unused, Nameless
<1>4. Online(n) = Online(s) \cup {i} /\ Used(n) = Used(s) \cup {i}
  BY <1>2, <1>3 DEF Online, Used
<1>5. CountHolds(n)
  <2>1. Cardinality(Online(n)) = Cardinality(Online(s)) + 1
    BY <1>1, <1>4, OnlineFinite, FS_AddElement
  <2> QED BY <1>4, <2>1 DEF CountHolds, Good, Entered
<1>6. OneRecord(n)
  <2>1. \A j \in Slots : ~ Matches(s.devices[j], e.id, e.addr)
    BY DEF Entered, Found
  <2>2. \A j \in Used(s) :
          /\ e.id # NoId => s.devices[j].id # e.id
          /\ e.id = NoId /\ s.devices[j].id = NoId => s.devices[j].addr # e.addr
    BY <2>1 DEF Entered, Nameless, Matches, Used
  <2>3. n.devices[i].id = e.id /\ n.devices[i].addr = e.addr
    BY DEF Entered
  <2>4. \A j \in Used(s) : n.devices[j] = s.devices[j]
    BY <1>1, <1>2 DEF Used
  <2> QED BY <1>4, <2>2, <2>3, <2>4 DEF OneRecord, Good
<1>7. Fresh(n)
  BY <1>2, <1>3 DEF Fresh, Good
<1> QED BY <1>5, <1>6, <1>7 DEF Good

LEMMA KeptIsGood ==
    ASSUME NEW s \in State, NEW n \in State, NEW e \in Event, NEW i \in Slots,
           Good(s), Kept(s, n, e, i)
    PROVE  Good(n)
<1>1. CountHolds(s)
  BY DEF Good
<1>2. i \in Online(s) /\ i \in Used(s)
  BY <1>1, FoundIsOnline DEF Kept, Online, Used
<1>3. \A j \in Slots : j # i => n.devices[j] = s.devices[j]
  BY DEF Kept, OnlyRecord
<1>4. /\ n.devices[i].id = s.devices[i].id
      /\ n.devices[i].id = NoId => n.devices[i].addr = s.devices[i].addr
      /\ n.devices[i].online
  BY DEF Kept, Found, Matches
<1>5. ~ Unused(n.devices[i])
  BY <1>2, <1>4 DEF Unused, Used
<1>6. Online(n) = Online(s) /\ Used(n) = Used(s)
  BY <1>2, <1>3, <1>4, <1>5 DEF Online, Used
<1>7. CountHolds(n)
  BY <1>1, <1>6 DEF CountHolds, Kept
<1>8. OneRecord(n)
  <2>1. \A j \in Used(s) :
          /\ n.devices[j].id = s.devices[j].id
          /\ n.devices[j].id = NoId => n.devices[j].addr = s.devices[j].addr
    BY <1>3, <1>4 DEF Used
  <2> QED BY <1>6, <2>1 DEF OneRecord, Good
<1>9. Fresh(n)
  BY <1>3, <1>5 DEF Fresh, Good
<1> QED BY <1>7, <1>8, <1>9 DEF Good

LEMMA FreedIsGood ==
    ASSUME NEW s \in State, NEW n \in State, NEW e \in Event, NEW i \in Slots,
           Good(s), Freed(s, n, e, i)
    PROVE  Good(n)
<1>1. CountHolds(s)
  BY DEF Good
<1>2. i \in Online(s) /\ i \in Used(s)
  BY <1>1, FoundIsOnline DEF Freed, Online, Used
<1>3. \A j \in Slots : j # i => n.devices[j] = s.devices[j]
  BY DEF Freed, OnlyRecord
<1>4. n.devices[i] = FreeRecord
  BY DEF Freed
<1>5. Unused(n.devices[i]) /\ ~ n.devices[i].online
  BY <1>4 DEF Unused, FreeRecord
<1>6. Online(n) = Online(s) \ {i} /\ Used(n) = Used(s) \ {i}
  BY <1>3, <1>5 DEF Online, Used
<1>7. CountHolds(n)
  <2>1. Cardinality(Online(n)) = Cardinality(Online(s)) - 1
    BY <1>2, <1>6, OnlineFinite, FS_RemoveElement
  <2> QED BY <1>1, <1>6, <2>1 DEF CountHolds, Freed
<1>8. OneRecord(n)
  <2>1. \A j \in Used(n) : j \in Used(s) /\ n.devices[j] = s.devices[j]
    BY <1>3, <1>6 DEF Used
  <2> QED BY <2>1 DEF OneRecord, Good
<1>9. Fresh(n)
  BY <1>3, <1>4 DEF Fresh, Good
<1> QED BY <1>7, <1>8, <1>9 DEF Good

LEMMA StepIsGood ==
    ASSUME NEW s \in State, NEW n \in State, NEW e \in Event,
           Good(s), OneStep(s, n, e)
    PROVE  Good(n)
<1>1. CASE Same(s, n)
  BY <1>1, GoodDepends DEF Same
<1>2. ASSUME NEW i \in Slots, Entered(s, n, e, i) PROVE Good(n)
  BY <1>2, EnteredIsGood
<1>3. ASSUME NEW i \in Slots, Kept(s, n, e, i) PROVE Good(n)
  BY <1>3, KeptIsGood
<1>4. ASSUME NEW i \in Slots, Freed(s, n, e, i) PROVE Good(n)
  BY <1>4, FreedIsGood
<1> QED BY <1>1, <1>2, <1>3, <1>4 DEF OneStep

-----------------------------------------------------------------------------
(* The behaviours.                                                         *)

\* The published and the saved records are good, a boot starts from nothing,
\* a cycle stops at its limit, and flash agrees unless it is behind.
Safe ==
    /\ TypeOK
    /\ Good(state)
    /\ saved # NoBlob => Good(saved)
    /\ pc = "boot" => state = InitialState
    /\ pc \in {"flush", "event"} => processed < EventsPerCycle
    /\ CleanIsSaved

\* A state is good after a step if what it is by then is good.
LEMMA GoodPrimed ==
    /\ Good(state)' <=> Good(state')
    /\ Good(saved)' <=> Good(saved')
  BY DEF Good, CountHolds, OneRecord, Fresh, Online, Used

LEMMA CycleIs == EventsPerCycle \in Nat /\ EventsPerCycle > 0 /\ NoBlob \notin State
  BY CycleAssumption

LEMMA InitIsSafe == Init => Safe
<1> SUFFICES ASSUME Init PROVE Safe
  OBVIOUS
<1>1. TypeOK
  <2>1. state \in State
    BY InitialIsGood DEF Init
  <2>2. processed \in 0 .. EventsPerCycle
    BY CycleIs DEF Init
  <2>3. dirty \in BOOLEAN /\ progress \in BOOLEAN /\ trouble \in BOOLEAN
    BY DEF Init
  <2> QED BY <2>1, <2>2, <2>3 DEF Init, TypeOK
<1> QED BY <1>1, InitialIsGood DEF Init, Safe, CleanIsSaved

\* What comes back from flash is good, for it was good when it was saved.
LEMMA RestoreIsSafe ==
    ASSUME Safe, Restore
    PROVE  Safe'
<1> DEFINE t == [saved EXCEPT !.network = FALSE, !.status = 0,
                              !.revision = Raised(@)]
<1>1. CASE Restorable
  <2>1. saved \in State /\ Good(saved) /\ saved # NoBlob
    BY <1>1 DEF Restorable, Safe, TypeOK
  <2>2. t \in State /\ t.devices = saved.devices /\ t.count = saved.count
    <3> DEFINE u == [saved EXCEPT !.network = FALSE]
               v == [u EXCEPT !.status = 0]
    <3>1. u \in State /\ u.devices = saved.devices /\ u.count = saved.count
      BY <2>1 DEF State
    <3> HIDE DEF u
    <3>2. v \in State /\ v.devices = saved.devices /\ v.count = saved.count
      BY <3>1 DEF State
    <3>3. v.revision = saved.revision
      BY <2>1 DEF u, State
    <3>4. t = [v EXCEPT !.revision = Raised(v.revision)]
      BY <3>3 DEF u
    <3>5. Raised(v.revision) \in 0 .. (RevisionRange - 1)
      BY <3>2, RevisionMoves DEF Raised, Safe, TypeOK, State
    <3> HIDE DEF v, t
    <3> QED BY <3>2, <3>4, <3>5 DEF State
  <2>3. state' = t
    BY <1>1 DEF Restore
  <2> HIDE DEF t
  <2>4. Good(t)
    BY <2>1, <2>2, GoodDepends
  <2>5. SavedDevices' = state'.devices
    BY <2>1, <2>2, <2>3 DEF SavedDevices, Restore
  <2>6. TypeOK'
    BY <2>2, <2>3 DEF Safe, TypeOK, Restore
  <2> QED BY <2>1, <2>3, <2>4, <2>5, <2>6, GoodPrimed
        DEF Safe, Restore, CleanIsSaved
<1>2. CASE ~ Restorable
  <2>1. state' = state /\ saved' = saved /\ state = InitialState
    BY <1>2 DEF Restore, Safe
  <2>2. SavedDevices' = state'.devices
    BY <1>2, <2>1, CountsNothing DEF Restorable, Safe, TypeOK, SavedDevices
  <2> QED BY <2>1, <2>2, GoodPrimed DEF Safe, TypeOK, Restore, CleanIsSaved
<1> QED BY <1>1, <1>2

\* Publishing the result of an event keeps the state good, and what it changed
\* in the records is to be saved.
LEMMA ProcessIs ==
    ASSUME Safe, NEW e \in Inputs, Process(e)
    PROVE  /\ state' = Published(state, e) /\ state' = Reduce(state, e).next
           /\ OneStep(state, state', e)
           /\ state' \in State /\ Good(state')
           /\ ~ dirty' => ~ dirty /\ state'.devices = state.devices
<1>1. e \in Event /\ state \in State /\ CountHolds(state) /\ Good(state)
  BY InputsAssumption DEF Safe, TypeOK, Good
<1>2. state' = Published(state, e)
  BY DEF Process, Published
<1>3. dirty' = (dirty \/ "persist" \in Reduce(state, e).effects)
  BY DEF Process
<1>4. /\ Published(state, e) \in State
      /\ Published(state, e) = Reduce(state, e).next
      /\ OneStep(state, Published(state, e), e)
      /\ "persist" \notin Reduce(state, e).effects
           => Published(state, e).devices = state.devices
  BY <1>1, ReduceIs
<1>5. Good(Published(state, e))
  BY <1>1, <1>4, StepIsGood
<1> QED BY <1>2, <1>3, <1>4, <1>5

LEMMA NextIsSafe == Safe /\ [Next]_vars => Safe'
<1> USE GoodPrimed
<1> SUFFICES ASSUME Safe, [Next]_vars PROVE Safe'
  OBVIOUS
<1>1. CASE Restore
  BY <1>1, RestoreIsSafe
<1>2. CASE RestoreFails
  BY <1>2 DEF RestoreFails, Safe, TypeOK, CleanIsSaved
<1>3. CASE BeginLoop
  <2>1. processed' \in 0 .. EventsPerCycle /\ processed' < EventsPerCycle
    BY <1>3, CycleIs DEF BeginLoop
  <2> QED BY <1>3, <2>1 DEF BeginLoop, Safe, TypeOK, CleanIsSaved, SavedDevices
<1>4. CASE FlushNothing
  BY <1>4 DEF FlushNothing, Safe, TypeOK, CleanIsSaved, SavedDevices
<1>5. CASE FlushSaves
  <2>1. saved' # NoBlob /\ SavedDevices' = state'.devices
    BY <1>5, CycleIs DEF FlushSaves, SavedDevices, Safe, TypeOK
  <2> QED BY <1>5, <2>1 DEF FlushSaves, Safe, TypeOK, CleanIsSaved
<1>6. CASE FlushFails
  BY <1>6 DEF FlushFails, Safe, TypeOK, CleanIsSaved
<1>7. ASSUME NEW e \in Inputs, Process(e) PROVE Safe'
  <2> USE DEF Safe
  <2>1. /\ state' \in State /\ Good(state')
        /\ ~ dirty' => ~ dirty /\ state'.devices = state.devices
    BY <1>7, ProcessIs
  <2>2. /\ pc = "event" /\ processed' = processed + 1 /\ progress' = FALSE
        /\ pc' = IF processed + 1 < EventsPerCycle THEN "flush" ELSE "sleep"
        /\ saved' = saved /\ trouble' = trouble /\ dirty' \in BOOLEAN
    BY <1>7 DEF Process, TypeOK
  <2>3. processed' \in 0 .. EventsPerCycle
        /\ (pc' \in {"flush", "event"} => processed' < EventsPerCycle)
    BY <2>2, CycleIs DEF TypeOK
  <2>4. CleanIsSaved'
    BY <2>1, <2>2 DEF CleanIsSaved, SavedDevices
  <2> QED BY <2>1, <2>2, <2>3, <2>4 DEF TypeOK
<1>8. CASE NoEvent
  BY <1>8, CycleIs DEF NoEvent, Safe, TypeOK, CleanIsSaved, SavedDevices
<1>9. CASE Restart
  <2>1. processed' \in 0 .. EventsPerCycle
    BY <1>9, CycleIs DEF Restart
  <2>2. TypeOK'
    BY <1>9, <2>1, InitialIsGood DEF Restart, Safe, TypeOK
  <2> QED BY <1>9, <2>2, InitialIsGood DEF Restart, Safe, CleanIsSaved
<1>10. CASE UNCHANGED vars
  BY <1>10 DEF vars, loopVars, Safe, TypeOK, CleanIsSaved, SavedDevices
<1> QED
  BY <1>1, <1>2, <1>3, <1>4, <1>5, <1>6, <1>7, <1>8, <1>9, <1>10
     DEF Next, RuntimeTask

LEMMA AlwaysSafe == Spec => []Safe
  BY InitIsSafe, NextIsSafe, PTL DEF Spec

\* The published and the saved state are core states, and a cycle processes no
\* more events than it may.
THEOREM TypeCorrect == Spec => []TypeOK
<1>1. Safe => TypeOK
  BY DEF Safe
<1> QED BY <1>1, AlwaysSafe, PTL

\* However devices join, leave and report, and whenever the gateway restarts,
\* the count of a state is that of its online records, so that
\* has_restorable_devices never takes a blob with devices for an empty one.
THEOREM DevicesAreCounted == Spec => []CountIsOnline
<1>1. Safe => CountIsOnline
  BY DEF Safe, Good, CountIsOnline
<1> QED BY <1>1, AlwaysSafe, PTL

\* No device ever has two records, published or saved (INV-ID-01).
THEOREM DevicesHaveOneRecord == Spec => []OneRecordPerDevice
<1>1. Safe => OneRecordPerDevice
  BY DEF Safe, Good, OneRecordPerDevice
<1> QED BY <1>1, AlwaysSafe, PTL

\* With no flag pending and no trouble with flash, flash holds the published
\* records, and so does the state a restart restores.
THEOREM CleanStateIsSaved == Spec => []CleanIsSaved
<1>1. Safe => CleanIsSaved
  BY DEF Safe
<1> QED BY <1>1, AlwaysSafe, PTL

\* What core_reduce makes of an event is what is published, also when the
\* revision wraps around: no handler changes the state without saying so.
THEOREM EveryChangeIsPublished == Spec => ChangesArePublished
<1>1. Safe /\ [Next]_vars =>
        [\A e \in Inputs : Process(e) => state' = Reduce(state, e).next]_vars
  BY ProcessIs
<1> QED BY <1>1, AlwaysSafe, PTL DEF Spec, ChangesArePublished

\* A record changes by the events of its own device only (INV-ID-03).
THEOREM RecordsChangeByTheirOwn == Spec => RecordsAreTheirOwn
<1> DEFINE Own(e, i) ==
             Process(e) /\ ~ Unused(state.devices[i])
                        /\ state'.devices[i] # state.devices[i]
               => IF state.devices[i].id = NoId
                  THEN e.id = NoId /\ e.addr = state.devices[i].addr
                  ELSE e.id = state.devices[i].id
<1>1. ASSUME Safe, NEW e \in Inputs, NEW i \in Slots PROVE Own(e, i)
  <2> SUFFICES ASSUME Process(e), ~ Unused(state.devices[i]),
                      state'.devices[i] # state.devices[i]
               PROVE  Matches(state.devices[i], e.id, e.addr)
    BY DEF Matches
  <2>1. OneStep(state, state', e)
    BY <1>1, ProcessIs
  <2>2. PICK j \in Slots : \/ Entered(state, state', e, j)
                           \/ Kept(state, state', e, j)
                           \/ Freed(state, state', e, j)
    BY <2>1 DEF OneStep, Same
  <2>3. OnlyRecord(state, state', j)
    BY <2>2 DEF Entered, Kept, Freed
  <2>4. i = j
    BY <2>3 DEF OnlyRecord
  <2>5. ~ Entered(state, state', e, j)
    BY <2>4 DEF Entered
  <2> QED BY <2>2, <2>4, <2>5 DEF Kept, Freed, Found
<1>2. Safe /\ [Next]_vars => [\A e \in Inputs, i \in Slots : Own(e, i)]_vars
  BY <1>1
<1> QED BY <1>2, AlwaysSafe, PTL DEF Spec, RecordsAreTheirOwn

\* The records of the state and of the blob are counted, and one per device.
THEOREM RecordsStayExact == Spec => []RecordsAreExact
BY TypeCorrect, DevicesAreCounted, DevicesHaveOneRecord, PTL DEF RecordsAreExact

-----------------------------------------------------------------------------
(***************************************************************************)
(* The settings, Configuration for any queues, tables, flashes and clients *)
(* that meet Settings!Bounds: what clients were promised last.             *)
(***************************************************************************)
CONSTANTS ProfileSlots, QueueBound, MaxRetries, DefaultTimeout, DefaultRetries, Olds, Changes,
          Profiles, MaxRequests, MaxFaults

VARIABLES flash, config, unsaved, doing, todo, changes, profiles, requests, faults, since,
          failed, accepted

Settings == INSTANCE Configuration WITH Slots <- ProfileSlots, dirty <- unsaved

Absent == -1

-----------------------------------------------------------------------------
(* Values that wait, w[1] to w[n], the one that holds, and what was said.  *)

IsFinal(w, n, i) == w[i] # Absent /\ \A j \in 1 .. n : j > i => w[j] = Absent

Promised(w, n, held, said) ==
    /\ \A i \in 1 .. n : IsFinal(w, n, i) => said = w[i]
    /\ (\A i \in 1 .. n : w[i] = Absent) => said \in {Absent, held}

Newer(old, new) == IF new = Absent THEN old ELSE new

\* Another value comes to wait
LEMMA PromisedAlso ==
    ASSUME NEW n \in Nat, NEW w, NEW x, \A i \in 1 .. n : x[i] = w[i],
           NEW held, NEW said, Promised(w, n, held, said)
    PROVE  Promised(x, n + 1, held, Newer(said, x[n + 1]))
<1> DEFINE m == n + 1
           s == Newer(said, x[m])
<1>1. ASSUME NEW i \in 1 .. m, IsFinal(x, m, i) PROVE s = x[i]
  <2>1. CASE i = m
    BY <1>1, <2>1 DEF IsFinal, Newer
  <2>2. CASE i # m
    <3>1. i \in 1 .. n /\ m \in 1 .. m /\ m > i
      BY <2>2
    <3>2. x[m] = Absent /\ x[i] = w[i] /\ x[i] # Absent
      BY <1>1, <3>1 DEF IsFinal
    <3>3. \A j \in 1 .. n : j > i => w[j] = Absent
      BY <1>1 DEF IsFinal
    <3>4. said = w[i]
      BY <3>1, <3>2, <3>3 DEF Promised, IsFinal
    <3> QED BY <3>2, <3>4 DEF Newer
  <2> QED BY <2>1, <2>2
<1>2. ASSUME \A i \in 1 .. m : x[i] = Absent PROVE s \in {Absent, held}
  <2>1. x[m] = Absent /\ \A i \in 1 .. n : i \in 1 .. m
    BY <1>2
  <2>2. \A i \in 1 .. n : w[i] = Absent
    BY <1>2, <2>1
  <2> QED BY <2>1, <2>2 DEF Newer, Promised
<1> QED BY <1>1, <1>2 DEF Promised

\* The first value that waits comes to hold
LEMMA PromisedHolds ==
    ASSUME NEW n \in Nat \ {0}, NEW w, NEW x, \A i \in 1 .. n - 1 : x[i] = w[i + 1],
           NEW held, NEW said, Promised(w, n, held, said)
    PROVE  Promised(x, n - 1, Newer(held, w[1]), said)
<1> DEFINE m == n - 1
           h == Newer(held, w[1])
<1>1. ASSUME NEW i \in 1 .. m, IsFinal(x, m, i) PROVE said = x[i]
  <2>1. i + 1 \in 1 .. n /\ x[i] = w[i + 1] /\ w[i + 1] # Absent
    BY <1>1 DEF IsFinal
  <2>2. ASSUME NEW j \in 1 .. n, j > i + 1 PROVE w[j] = Absent
    <3>1. j - 1 \in 1 .. m /\ j - 1 > i /\ (j - 1) + 1 = j
      BY <2>2
    <3>2. x[j - 1] = Absent
      BY <1>1, <3>1 DEF IsFinal
    <3> QED BY <3>1, <3>2
  <2>3. IsFinal(w, n, i + 1)
    BY <2>1, <2>2 DEF IsFinal
  <2> QED BY <2>1, <2>3 DEF Promised
<1>2. ASSUME \A i \in 1 .. m : x[i] = Absent PROVE said \in {Absent, h}
  <2>1. ASSUME NEW j \in 1 .. n, j > 1 PROVE w[j] = Absent
    <3>1. j - 1 \in 1 .. m /\ (j - 1) + 1 = j
      BY <2>1
    <3> QED BY <1>2, <3>1
  <2>2. 1 \in 1 .. n
    OBVIOUS
  <2>3. CASE w[1] = Absent
    <3>1. \A j \in 1 .. n : w[j] = Absent
      BY <2>1, <2>3
    <3> QED BY <2>3, <3>1 DEF Promised, Newer
  <2>4. CASE w[1] # Absent
    <3>1. IsFinal(w, n, 1)
      BY <2>1, <2>4 DEF IsFinal
    <3> QED BY <2>2, <2>4, <3>1 DEF Promised, Newer
  <2> QED BY <2>3, <2>4
<1> QED BY <1>1, <1>2 DEF Promised

-----------------------------------------------------------------------------
(* Tables of profiles                                                      *)

Key(p) == <<p[1], p[2]>>
PlacesIn(t, id) == {i \in 1 .. ProfileSlots : t[i] # <<>> /\ Key(t[i]) = id}
FreeIn(t) == {i \in 1 .. ProfileSlots : t[i] = <<>>}
LeastOf(S) == CHOOSE i \in S : \A j \in S : i <= j
FoundIn(t, id) == IF PlacesIn(t, id) = {} THEN <<>> ELSE t[LeastOf(PlacesIn(t, id))]
PlacesFor(t, p) == IF PlacesIn(t, Key(p)) # {} THEN PlacesIn(t, Key(p)) ELSE FreeIn(t)

LEMMA LeastIs ==
    ASSUME NEW S \in SUBSET Nat, S # {}
    PROVE  LeastOf(S) \in S /\ \A j \in S : LeastOf(S) <= j
<1> DEFINE less == OpToRel(<, Nat)
<1>1. IsWellFoundedOn(less, Nat)
  BY NatLessThanWellFounded
<1>2. \A x, y \in Nat : <<y, x>> \in less <=> y < x
  BY DEF OpToRel
<1> HIDE DEF less
<1>3. PICK x \in S : \A y \in S : ~ (<<y, x>> \in less)
  BY <1>1, WFMin
<1>4. ASSUME NEW y \in S PROVE x <= y
  <2>1. x \in Nat /\ y \in Nat /\ ~ (y < x)
    BY <1>2, <1>3
  <2> QED BY <2>1
<1> QED BY <1>4 DEF LeastOf

\* A profile is put in its place
LEMMA PutIs ==
    ASSUME NEW t, DOMAIN t = 1 .. ProfileSlots, NEW p, p # <<>>, PlacesFor(t, p) # {},
           NEW u, u = [t EXCEPT ![LeastOf(PlacesFor(t, p))] = p]
    PROVE  /\ FoundIn(u, Key(p)) = p
           /\ \A id : id # Key(p) => FoundIn(u, id) = FoundIn(t, id)
           /\ FreeIn(u) \subseteq FreeIn(t)
<1> DEFINE k == LeastOf(PlacesFor(t, p))
<1>1. PlacesFor(t, p) \in SUBSET (1 .. ProfileSlots)
  BY DEF PlacesFor, PlacesIn, FreeIn
<1>2. k \in PlacesFor(t, p)
  <2>1. PlacesFor(t, p) \in SUBSET Nat
    BY <1>1
  <2> QED BY <2>1, LeastIs
<1>3. k \in 1 .. ProfileSlots /\ t[k] \in {<<>>} \cup {t[k]}
  BY <1>1, <1>2
<1>4. t[k] = <<>> \/ Key(t[k]) = Key(p)
  BY <1>2 DEF PlacesFor, PlacesIn, FreeIn
<1>5. u[k] = p /\ \A i \in 1 .. ProfileSlots : i # k => u[i] = t[i]
  BY <1>3
<1>6. FreeIn(u) \subseteq FreeIn(t)
  <2> HIDE DEF k
  <2> QED BY <1>5 DEF FreeIn
<1>7. ASSUME NEW id, id # Key(p) PROVE FoundIn(u, id) = FoundIn(t, id)
  <2> HIDE DEF k
  <2>1. PlacesIn(u, id) = PlacesIn(t, id) /\ k \notin PlacesIn(t, id)
    BY <1>4, <1>5, <1>7 DEF PlacesIn
  <2>2. PlacesIn(t, id) # {} => LeastOf(PlacesIn(t, id)) \in PlacesIn(t, id)
    <3>1. PlacesIn(t, id) \in SUBSET Nat
      BY DEF PlacesIn
    <3> QED BY <3>1, LeastIs
  <2>3. \A i \in PlacesIn(t, id) : u[i] = t[i]
    BY <1>5, <2>1 DEF PlacesIn
  <2> QED BY <2>1, <2>2, <2>3 DEF FoundIn
<1>8. FoundIn(u, Key(p)) = p
  <2>1. CASE PlacesIn(t, Key(p)) # {}
    <3>1. PlacesFor(t, p) = PlacesIn(t, Key(p))
      BY <2>1 DEF PlacesFor
    <3>2. k \in PlacesIn(t, Key(p)) /\ k = LeastOf(PlacesIn(t, Key(p)))
      BY <1>2, <3>1
    <3> HIDE DEF k
    <3>3. PlacesIn(u, Key(p)) = PlacesIn(t, Key(p))
      BY <1>3, <1>5, <3>2 DEF PlacesIn
    <3> QED BY <1>5, <3>2, <3>3 DEF FoundIn
  <2>2. CASE PlacesIn(t, Key(p)) = {}
    <3> HIDE DEF k
    <3>1. PlacesIn(u, Key(p)) = {k}
      BY <1>3, <1>5, <2>2 DEF PlacesIn
    <3>2. LeastOf({k}) = k
      <4>1. {k} \in SUBSET Nat
        BY <1>3
      <4> QED BY <4>1, LeastIs
    <3> QED BY <1>5, <3>1, <3>2 DEF FoundIn
  <2> QED BY <2>1, <2>2
<1> HIDE DEF k
<1> QED BY <1>6, <1>7, <1>8

-----------------------------------------------------------------------------
(* Profiles q[1] to q[n] that wait, the table, and the profiles promised.  *)

IsLastOfKey(q, n, i) == \A j \in 1 .. n : j > i => Key(q[j]) # Key(q[i])
Waits(q, n, p) == \E i \in 1 .. n : Key(q[i]) = Key(p)
IsHeld(t, p) == FoundIn(t, Key(p)) = p \/ (FoundIn(t, Key(p)) = <<>> /\ FreeIn(t) = {})

With(told, p) == {r \in told : Key(r) # Key(p)} \cup {p}

AllTold(q, n, t, told) ==
    /\ \A p, r \in told : Key(p) = Key(r) => p = r
    /\ \A i \in 1 .. n : IsLastOfKey(q, n, i) => q[i] \in told
    /\ \A p \in told : Waits(q, n, p) \/ IsHeld(t, p)

\* Another profile comes to wait
LEMMA ToldAlso ==
    ASSUME NEW n \in Nat, NEW q, NEW x, \A i \in 1 .. n : x[i] = q[i],
           NEW p, x[n + 1] = p, NEW t, NEW told, AllTold(q, n, t, told),
           NEW now, now = With(told, p)
    PROVE  AllTold(x, n + 1, t, now)
<1> DEFINE m == n + 1
<1>1. m \in 1 .. m /\ x[m] = p /\ \A i \in 1 .. m : i # m => i \in 1 .. n
  OBVIOUS
<1>2. \A i \in 1 .. n : i \in 1 .. m /\ m > i
  OBVIOUS
<1> HIDE DEF m
<1> USE DEF With
<1>3. ASSUME NEW r \in now, NEW s \in now, Key(r) = Key(s) PROVE r = s
  BY <1>3 DEF AllTold
<1>4. ASSUME NEW i \in 1 .. m, IsLastOfKey(x, m, i) PROVE x[i] \in now
  <2>1. CASE i = m
    BY <1>1, <2>1
  <2>2. CASE i # m
    <3>1. i \in 1 .. n /\ x[i] = q[i]
      BY <1>1, <2>2
    <3>2. Key(p) # Key(x[i])
      BY <1>1, <1>2, <1>4, <3>1 DEF IsLastOfKey
    <3>3. IsLastOfKey(q, n, i)
      <4>1. ASSUME NEW j \in 1 .. n, j > i PROVE Key(x[j]) # Key(x[i])
        BY <1>2, <1>4, <4>1 DEF IsLastOfKey
      <4> QED BY <3>1, <4>1 DEF IsLastOfKey
    <3>4. q[i] \in told
      BY <3>1, <3>3 DEF AllTold
    <3> QED BY <3>1, <3>2, <3>4
  <2> QED BY <2>1, <2>2
<1>5. ASSUME NEW r \in now PROVE Waits(x, m, r) \/ IsHeld(t, r)
  <2>1. CASE r = p
    BY <1>1, <2>1 DEF Waits
  <2>2. CASE r \in told
    <3>1. CASE IsHeld(t, r)
      BY <3>1
    <3>2. CASE Waits(q, n, r)
      <4>1. PICK i \in 1 .. n : Key(q[i]) = Key(r)
        BY <3>2 DEF Waits
      <4>2. i \in 1 .. m /\ x[i] = q[i]
        BY <1>2
      <4> QED BY <4>1, <4>2 DEF Waits
    <3> QED BY <2>2, <3>1, <3>2 DEF AllTold
  <2> QED BY <2>1, <2>2
<1>6. AllTold(x, m, t, now)
  BY <1>3, <1>4, <1>5 DEF AllTold
<1> QED BY <1>6 DEF m

\* The first profile that waits is put in its place, or dropped for want of one
LEMMA ToldHolds ==
    ASSUME NEW n \in Nat \ {0}, NEW q, NEW x, \A i \in 1 .. n - 1 : x[i] = q[i + 1],
           NEW t, NEW u, NEW told, AllTold(q, n, t, told), IsHeld(u, q[1]),
           \A r : Key(r) # Key(q[1]) /\ IsHeld(t, r) => IsHeld(u, r)
    PROVE  AllTold(x, n - 1, u, told)
<1> DEFINE m == n - 1
<1>1. 1 \in 1 .. n /\ \A i \in 1 .. m : i + 1 \in 1 .. n
  OBVIOUS
<1>2. \A i \in 1 .. n : i # 1 => i > 1 /\ i - 1 \in 1 .. m /\ (i - 1) + 1 = i
  OBVIOUS
<1>3. \A i, j \in 1 .. m : j + 1 > i + 1 => j > i
  OBVIOUS
<1>4. \A i \in 1 .. m : x[i] = q[i + 1]
  OBVIOUS
<1>5. ASSUME NEW i \in 1 .. m, IsLastOfKey(x, m, i) PROVE x[i] \in told
  <2>1. ASSUME NEW j \in 1 .. n, j > i + 1 PROVE Key(q[j]) # Key(q[i + 1])
    <3>1. j - 1 \in 1 .. m /\ (j - 1) + 1 = j /\ j - 1 > i
      BY <2>1
    <3>2. x[j - 1] = q[j]
      BY <1>4, <3>1
    <3>3. Key(x[j - 1]) # Key(x[i])
      BY <1>5, <3>1 DEF IsLastOfKey
    <3> QED BY <1>4, <3>2, <3>3
  <2>2. i + 1 \in 1 .. n /\ IsLastOfKey(q, n, i + 1)
    BY <1>1, <2>1 DEF IsLastOfKey
  <2>3. q[i + 1] \in told
    BY <2>2 DEF AllTold
  <2> QED BY <1>4, <2>3
<1>6. ASSUME NEW r \in told, ~ Waits(x, m, r) PROVE IsHeld(u, r)
  <2>1. ASSUME NEW i \in 1 .. n, i # 1 PROVE Key(q[i]) # Key(r)
    <3>1. i - 1 \in 1 .. m /\ x[i - 1] = q[i]
      BY <1>2, <1>4, <2>1
    <3> QED BY <1>6, <3>1 DEF Waits
  <2>2. CASE Key(r) = Key(q[1])
    <3>1. IsLastOfKey(q, n, 1)
      BY <2>1, <2>2 DEF IsLastOfKey
    <3>2. q[1] \in told
      BY <1>1, <3>1 DEF AllTold
    <3>3. r = q[1]
      BY <2>2, <3>2 DEF AllTold
    <3> QED BY <3>3
  <2>3. CASE Key(r) # Key(q[1])
    <3>1. ~ Waits(q, n, r)
      BY <2>1, <2>3 DEF Waits
    <3>2. IsHeld(t, r)
      BY <3>1 DEF AllTold
    <3> QED BY <2>3, <3>2
  <2> QED BY <2>2, <2>3
<1>7. \A p, r \in told : Key(p) = Key(r) => p = r
  BY DEF AllTold
<1> HIDE DEF m
<1>8. AllTold(x, m, u, told)
  BY <1>5, <1>6, <1>7 DEF AllTold
<1> QED BY <1>8 DEF m

-----------------------------------------------------------------------------
(* The inductive invariant                                                 *)

Fields(c) ==
    /\ DOMAIN c = {"timeout", "retries", "profiles"}
    /\ c = [timeout |-> c.timeout, retries |-> c.retries, profiles |-> c.profiles]

\* Settings have their three fields, requests wait in queues
SettingsShape ==
    /\ Fields(config) /\ Fields(accepted)
    /\ DOMAIN config.profiles = 1 .. ProfileSlots
    /\ changes \in Seq(Changes) /\ profiles \in Seq(Profiles)

\* Whose writes they are; before the settings are loaded nothing was asked for
SettingsControl ==
    /\ todo # <<>> => doing \in {"migrating", "repairing", "saving"}
    /\ ~ Settings!Running =>
          /\ changes = <<>> /\ profiles = <<>> /\ accepted = Settings!Nothing

TimeoutsWait == [i \in 1 .. Len(changes) |-> changes[i].timeout]
RetriesWait == [i \in 1 .. Len(changes) |-> changes[i].retries]

\* What clients were told, and the settings that wait and hold
ToldOfSettings ==
    /\ Promised(TimeoutsWait, Len(changes), config.timeout, accepted.timeout)
    /\ Promised(RetriesWait, Len(changes), config.retries, accepted.retries)

ToldOfProfiles == AllTold(profiles, Len(profiles), config.profiles, accepted.profiles)

SettingsInv ==
    /\ SettingsShape /\ SettingsControl /\ ToldOfSettings /\ ToldOfProfiles
    /\ Settings!DirtyHasFailed

\* The tables of the two modules
LEMMA TablesAre ==
    /\ Settings!Absent = Absent
    /\ \A a, b : Settings!Newer(a, b) = Newer(a, b)
    /\ \A p : Settings!Id(p) = Key(p)
    /\ \A id : Settings!PlacesOf(id) = PlacesIn(config.profiles, id)
    /\ Settings!FreePlaces = FreeIn(config.profiles)
    /\ \A p : Settings!PlacesFor(p) = PlacesFor(config.profiles, p)
    /\ \A S : Settings!Least(S) = LeastOf(S)
    /\ \A id : Settings!Found(id) = FoundIn(config.profiles, id)
<1>1. Settings!Absent = Absent /\ \A a, b : Settings!Newer(a, b) = Newer(a, b)
  BY DEF Settings!Absent, Absent, Settings!Newer, Newer
<1>2. \A p : Settings!Id(p) = Key(p)
  BY DEF Settings!Id, Key
<1>3. \A id : Settings!PlacesOf(id) = PlacesIn(config.profiles, id)
  BY <1>2 DEF Settings!PlacesOf, PlacesIn, Settings!IsUsed, Settings!Unused
<1>4. Settings!FreePlaces = FreeIn(config.profiles)
  BY DEF Settings!FreePlaces, FreeIn, Settings!IsUsed, Settings!Unused
<1>5. \A p : Settings!PlacesFor(p) = PlacesFor(config.profiles, p)
  BY <1>2, <1>3, <1>4 DEF Settings!PlacesFor, PlacesFor
<1>6. \A S : Settings!Least(S) = LeastOf(S)
  BY DEF Settings!Least, LeastOf
<1>7. \A id : Settings!Found(id) = FoundIn(config.profiles, id)
  BY <1>3, <1>6 DEF Settings!Found, FoundIn, Settings!Unused
<1> QED BY <1>1, <1>2, <1>3, <1>4, <1>5, <1>6, <1>7

\* Nothing waits, and nothing was promised
LEMMA NothingWaits ==
    ASSUME changes = <<>>, profiles = <<>>, accepted = Settings!Nothing
    PROVE  ToldOfSettings /\ ToldOfProfiles /\ Fields(accepted)
<1>1. Len(changes) = 0 /\ Len(profiles) = 0
  OBVIOUS
<1>2. /\ accepted.timeout = Absent /\ accepted.retries = Absent
      /\ accepted.profiles = {}
  BY DEF Settings!Nothing, Settings!Absent, Absent
<1>3. ToldOfSettings
  BY <1>1, <1>2 DEF ToldOfSettings, Promised
<1>4. ToldOfProfiles
  BY <1>1, <1>2 DEF ToldOfProfiles, AllTold
<1>5. Fields(accepted)
  BY DEF Settings!Nothing, Fields
<1> QED BY <1>3, <1>4, <1>5

LEMMA SettingsInitially ==
    ASSUME Settings!Bounds, Settings!Init
    PROVE  SettingsInv
<1> USE DEF Settings!Init
<1>1. SettingsControl
  BY DEF SettingsControl
<1>2. ToldOfSettings /\ ToldOfProfiles /\ Fields(accepted)
  BY NothingWaits
<1>3. Fields(config) /\ DOMAIN config.profiles = 1 .. ProfileSlots
  BY DEF Settings!NoConfig, Settings!NoProfiles, Fields
<1>4. SettingsShape
  <2>1. changes \in Seq(Changes) /\ profiles \in Seq(Profiles)
    OBVIOUS
  <2> QED BY <1>2, <1>3, <2>1 DEF SettingsShape
<1>5. Settings!DirtyHasFailed
  BY DEF Settings!DirtyHasFailed
<1> QED BY <1>1, <1>2, <1>4, <1>5 DEF SettingsInv

\* Nothing that clients were told is at stake when only the flash and what is still
\* written to it change
LEMMA ToldStays ==
    ASSUME SettingsInv, UNCHANGED <<config, accepted, changes, profiles>>
    PROVE  SettingsShape' /\ ToldOfSettings' /\ ToldOfProfiles'
<1>1. SettingsShape'
  BY DEF SettingsInv, SettingsShape, Fields
<1>2. ToldOfSettings'
  BY DEF SettingsInv, ToldOfSettings, TimeoutsWait, RetriesWait
<1>3. ToldOfProfiles'
  BY DEF SettingsInv, ToldOfProfiles
<1> QED BY <1>1, <1>2, <1>3

\* Loaded, before anything could be asked for
LEMMA LoadedIs ==
    ASSUME SettingsInv, ~ Settings!Running, NEW f, Settings!Loaded(f),
           UNCHANGED <<accepted, changes, profiles>>
    PROVE  SettingsInv'
<1>1. /\ changes' = <<>> /\ profiles' = <<>> /\ accepted' = Settings!Nothing
  BY DEF SettingsInv, SettingsControl
<1>2. (ToldOfSettings /\ ToldOfProfiles /\ Fields(accepted))'
  <2>1. Settings!Nothing' = Settings!Nothing
    BY DEF Settings!Nothing
  <2>2. Len(changes') = 0 /\ Len(profiles') = 0
    BY <1>1
  <2>3. /\ accepted'.timeout = Absent /\ accepted'.retries = Absent
        /\ accepted'.profiles = {}
    BY <1>1 DEF Settings!Nothing, Settings!Absent, Absent
  <2>4. ToldOfSettings'
    BY <2>2, <2>3 DEF ToldOfSettings, Promised, Absent
  <2>5. ToldOfProfiles'
    BY <2>2, <2>3 DEF ToldOfProfiles, AllTold
  <2>6. Fields(accepted)'
    BY <1>1 DEF Settings!Nothing, Fields
  <2> QED BY <2>4, <2>5, <2>6
<1>3. Fields(config)' /\ DOMAIN config'.profiles = 1 .. ProfileSlots
  BY DEF Settings!Loaded, Settings!LoadedFrom, Settings!LoadProfiles, Fields
<1>4. SettingsShape'
  <2>1. changes' \in Seq(Changes) /\ profiles' \in Seq(Profiles)
    BY <1>1
  <2> QED BY <1>2, <1>3, <2>1 DEF SettingsShape
<1>5. SettingsControl'
  BY DEF Settings!Loaded, SettingsControl, Settings!Running
<1>6. Settings!DirtyHasFailed'
  BY DEF Settings!Loaded, Settings!DirtyHasFailed
<1> QED BY <1>2, <1>4, <1>5, <1>6 DEF SettingsInv

LEMMA LoadKeepsSettings ==
    ASSUME SettingsInv, Settings!Load
    PROVE  SettingsInv'
<1>1. UNCHANGED <<accepted, changes, profiles>> /\ ~ Settings!Running /\ doing = "off"
  BY DEF Settings!Load, Settings!queueVars, Settings!Running
<1>2. CASE Settings!Loaded(flash)
  BY <1>1, <1>2, LoadedIs
<1>3. CASE doing' \in {"halted", "migrating", "repairing"} /\ config' = config
           /\ (todo' # todo => doing' \in {"migrating", "repairing"})
  <2>1. SettingsShape' /\ ToldOfSettings' /\ ToldOfProfiles'
    BY <1>1, <1>3, ToldStays
  <2>2. todo = <<>>
    BY <1>1 DEF SettingsInv, SettingsControl
  <2>3. SettingsControl'
    BY <1>1, <1>3, <2>2
    DEF SettingsInv, SettingsControl, Settings!Running, Settings!Nothing
  <2>4. Settings!DirtyHasFailed'
    BY <1>3 DEF Settings!DirtyHasFailed
  <2> QED BY <2>1, <2>3, <2>4 DEF SettingsInv
<1> QED BY <1>2, <1>3 DEF Settings!Load

LEMMA WriteKeepsSettings ==
    ASSUME SettingsInv, Settings!Write
    PROVE  SettingsInv'
<1>1. /\ UNCHANGED <<accepted, changes, profiles>>
      /\ doing \in {"migrating", "repairing", "saving"}
  BY DEF Settings!Write, Settings!queueVars, SettingsInv, SettingsControl
<1>2. CASE Len(todo) > 1
  <2>1. UNCHANGED <<config, unsaved, doing, failed>>
    BY <1>2 DEF Settings!Write
  <2>2. SettingsShape' /\ ToldOfSettings' /\ ToldOfProfiles'
    BY <1>1, <2>1, ToldStays
  <2>3. SettingsControl'
    BY <1>1, <2>1 DEF SettingsInv, SettingsControl, Settings!Running, Settings!Nothing
  <2>4. Settings!DirtyHasFailed'
    BY <1>1, <2>1 DEF Settings!DirtyHasFailed
  <2> QED BY <2>2, <2>3, <2>4 DEF SettingsInv
<1>3. CASE ~ (Len(todo) > 1) /\ doing = "saving"
  <2>1. doing' = "idle" /\ todo' = <<>> /\ unsaved' = FALSE /\ config' = config
    BY <1>3 DEF Settings!Write
  <2>2. SettingsShape' /\ ToldOfSettings' /\ ToldOfProfiles'
    BY <1>1, <2>1, ToldStays
  <2>3. SettingsControl' /\ Settings!DirtyHasFailed'
    BY <2>1 DEF SettingsControl, Settings!Running, Settings!DirtyHasFailed
  <2> QED BY <2>2, <2>3 DEF SettingsInv
<1>4. CASE ~ (Len(todo) > 1) /\ doing # "saving"
  <2>1. Settings!Loaded(flash')
    BY <1>4 DEF Settings!Write
  <2>2. ~ Settings!Running
    BY <1>1, <1>4 DEF Settings!Running
  <2> QED BY <1>1, <2>1, <2>2, LoadedIs
<1> QED BY <1>2, <1>3, <1>4

LEMMA WriteFailsKeepsSettings ==
    ASSUME SettingsInv, Settings!WriteFails
    PROVE  SettingsInv'
<1>1. /\ UNCHANGED <<accepted, changes, profiles>>
      /\ doing \in {"migrating", "repairing", "saving"}
  BY DEF Settings!WriteFails, Settings!queueVars, SettingsInv, SettingsControl
<1>2. CASE doing = "migrating"
  <2>1. doing' = "halted" /\ todo' = <<>> /\ config' = config
    BY <1>2 DEF Settings!WriteFails
  <2>2. SettingsShape' /\ ToldOfSettings' /\ ToldOfProfiles'
    BY <1>1, <2>1, ToldStays
  <2>3. SettingsControl' /\ Settings!DirtyHasFailed'
    BY <1>1, <1>2, <2>1
    DEF SettingsInv, SettingsControl, Settings!Running, Settings!DirtyHasFailed,
        Settings!Nothing
  <2> QED BY <2>2, <2>3 DEF SettingsInv
<1>3. CASE doing = "repairing"
  <2>1. Settings!Loaded(flash)
    BY <1>3 DEF Settings!WriteFails
  <2>2. ~ Settings!Running
    BY <1>3 DEF Settings!Running
  <2> QED BY <1>1, <2>1, <2>2, LoadedIs
<1>4. CASE doing = "saving"
  <2>1. doing' = "idle" /\ todo' = <<>> /\ failed' = TRUE /\ config' = config
    BY <1>4 DEF Settings!WriteFails
  <2>2. SettingsShape' /\ ToldOfSettings' /\ ToldOfProfiles'
    BY <1>1, <2>1, ToldStays
  <2>3. SettingsControl' /\ Settings!DirtyHasFailed'
    BY <2>1 DEF SettingsControl, Settings!Running, Settings!DirtyHasFailed
  <2> QED BY <2>2, <2>3 DEF SettingsInv
<1> QED BY <1>1, <1>2, <1>3, <1>4

LEMMA RestartKeepsSettings ==
    ASSUME Settings!Restart
    PROVE  SettingsInv'
<1> USE DEF Settings!Restart
<1>1. (ToldOfSettings /\ ToldOfProfiles /\ Fields(accepted))'
  <2>1. Len(changes') = 0 /\ Len(profiles') = 0
    OBVIOUS
  <2>2. /\ accepted'.timeout = Absent /\ accepted'.retries = Absent
        /\ accepted'.profiles = {}
    BY DEF Settings!Nothing, Settings!Absent, Absent
  <2>3. ToldOfSettings'
    BY <2>1, <2>2 DEF ToldOfSettings, Promised, Absent
  <2>4. ToldOfProfiles'
    BY <2>1, <2>2 DEF ToldOfProfiles, AllTold
  <2>5. Fields(accepted)'
    BY DEF Settings!Nothing, Fields
  <2> QED BY <2>3, <2>4, <2>5
<1>2. Fields(config)' /\ DOMAIN config'.profiles = 1 .. ProfileSlots
  BY DEF Settings!NoConfig, Settings!NoProfiles, Fields
<1>3. SettingsShape'
  <2>1. changes' \in Seq(Changes) /\ profiles' \in Seq(Profiles)
    OBVIOUS
  <2> QED BY <1>1, <1>2, <2>1 DEF SettingsShape
<1>4. SettingsControl'
  BY DEF SettingsControl, Settings!Nothing
<1>5. Settings!DirtyHasFailed'
  BY DEF Settings!DirtyHasFailed
<1> QED BY <1>1, <1>3, <1>4, <1>5 DEF SettingsInv

\* A change of settings comes to wait
LEMMA PostConfigKeepsSettings ==
    ASSUME SettingsInv, NEW change \in Changes, Settings!PostConfigWrite(change)
    PROVE  SettingsInv'
<1> DEFINE n == Len(changes)
<1>1. changes \in Seq(Changes) /\ n \in Nat /\ Settings!Running
  BY DEF SettingsInv, SettingsShape, Settings!PostConfigWrite, Settings!Asks
<1>2. /\ changes' = Append(changes, change)
      /\ accepted' = [accepted EXCEPT !.timeout = Newer(@, change.timeout),
                                      !.retries = Newer(@, change.retries)]
      /\ UNCHANGED <<config, unsaved, doing, todo, profiles, failed>>
  BY TablesAre DEF Settings!PostConfigWrite, Settings!memoryVars
<1>3. /\ Len(changes') = n + 1 /\ changes' \in Seq(Changes)
      /\ changes'[n + 1] = change /\ \A i \in 1 .. n : changes'[i] = changes[i]
  BY <1>1, <1>2
<1>4. /\ accepted'.timeout = Newer(accepted.timeout, change.timeout)
      /\ accepted'.retries = Newer(accepted.retries, change.retries)
      /\ accepted'.profiles = accepted.profiles /\ Fields(accepted)'
  <2> HIDE <1>3
  <2>1. Fields(accepted)
    BY DEF SettingsInv, SettingsShape
  <2> QED BY <1>2, <2>1 DEF Fields
<1>5. SettingsShape'
  BY <1>2, <1>3, <1>4 DEF SettingsInv, SettingsShape, Fields
<1>6. SettingsControl'
  BY <1>1, <1>2 DEF SettingsInv, SettingsControl, Settings!Running
<1>7. ToldOfSettings'
  <2> DEFINE w == TimeoutsWait
             v == RetriesWait
  <2>1. /\ \A i \in 1 .. n : w'[i] = w[i] /\ v'[i] = v[i]
        /\ w'[n + 1] = change.timeout /\ v'[n + 1] = change.retries
    BY <1>1, <1>3 DEF TimeoutsWait, RetriesWait
  <2>2. /\ Promised(w, n, config.timeout, accepted.timeout)
        /\ Promised(v, n, config.retries, accepted.retries)
    BY DEF SettingsInv, ToldOfSettings
  <2> HIDE DEF w, v, n
  <2>3. Promised(w', n + 1, config.timeout, Newer(accepted.timeout, w'[n + 1]))
    BY <1>1, <2>1, <2>2, PromisedAlso
  <2>4. Promised(v', n + 1, config.retries, Newer(accepted.retries, v'[n + 1]))
    BY <1>1, <2>1, <2>2, PromisedAlso
  <2> QED BY <1>2, <1>3, <1>4, <2>1, <2>3, <2>4 DEF ToldOfSettings, w, v
<1>8. ToldOfProfiles'
  BY <1>2, <1>4 DEF SettingsInv, ToldOfProfiles
<1>9. Settings!DirtyHasFailed'
  BY <1>2 DEF SettingsInv, Settings!DirtyHasFailed
<1> QED BY <1>5, <1>6, <1>7, <1>8, <1>9 DEF SettingsInv

\* A profile comes to wait
LEMMA PostProfileKeepsSettings ==
    ASSUME SettingsInv, NEW profile \in Profiles,
           Settings!PostReportingProfileWrite(profile)
    PROVE  SettingsInv'
<1> DEFINE n == Len(profiles)
<1>1. profiles \in Seq(Profiles) /\ n \in Nat /\ Settings!Running
  BY DEF SettingsInv, SettingsShape, Settings!PostReportingProfileWrite, Settings!Asks
<1>2. /\ profiles' = Append(profiles, profile)
      /\ accepted' = [accepted EXCEPT !.profiles = With(@, profile)]
      /\ UNCHANGED <<config, unsaved, doing, todo, changes, failed>>
  BY TablesAre DEF Settings!PostReportingProfileWrite, Settings!memoryVars, With
<1>3. /\ Len(profiles') = n + 1 /\ profiles' \in Seq(Profiles)
      /\ profiles'[n + 1] = profile /\ \A i \in 1 .. n : profiles'[i] = profiles[i]
  BY <1>1, <1>2
<1>4. /\ accepted'.timeout = accepted.timeout /\ accepted'.retries = accepted.retries
      /\ accepted'.profiles = With(accepted.profiles, profile)
      /\ Fields(accepted)'
  <2> HIDE <1>3
  <2>1. Fields(accepted)
    BY DEF SettingsInv, SettingsShape
  <2> QED BY <1>2, <2>1 DEF Fields
<1>5. SettingsShape'
  BY <1>2, <1>3, <1>4 DEF SettingsInv, SettingsShape, Fields
<1>6. SettingsControl'
  BY <1>1, <1>2 DEF SettingsInv, SettingsControl, Settings!Running
<1>7. ToldOfSettings'
  BY <1>2, <1>4 DEF SettingsInv, ToldOfSettings, TimeoutsWait, RetriesWait
<1>8. ToldOfProfiles'
  <2>1. AllTold(profiles, n, config.profiles, accepted.profiles)
    BY DEF SettingsInv, ToldOfProfiles
  <2> HIDE DEF n
  <2>2. AllTold(profiles', n + 1, config.profiles, accepted'.profiles)
    BY <1>1, <1>3, <1>4, <2>1, ToldAlso
  <2> QED BY <1>2, <1>3, <2>2 DEF ToldOfProfiles
<1>9. Settings!DirtyHasFailed'
  BY <1>2 DEF SettingsInv, Settings!DirtyHasFailed
<1> QED BY <1>5, <1>6, <1>7, <1>8, <1>9 DEF SettingsInv

\* A change of settings comes to hold
LEMMA DrainConfigKeepsSettings ==
    ASSUME SettingsInv, Settings!DrainConfigWrite
    PROVE  SettingsInv'
<1> DEFINE n == Len(changes)
           change == Head(changes)
<1>1. /\ changes \in Seq(Changes) /\ n \in Nat \ {0} /\ changes' = Tail(changes)
      /\ doing' = "saving" /\ UNCHANGED <<profiles, accepted>>
  BY DEF SettingsInv, SettingsShape, Settings!DrainConfigWrite, Settings!Saves
<1>2. config' = [config EXCEPT !.timeout = Newer(@, change.timeout),
                               !.retries = Newer(@, change.retries)]
  BY TablesAre DEF Settings!DrainConfigWrite, Settings!Saves
<1>3. /\ Len(changes') = n - 1 /\ changes' \in Seq(Changes) /\ change = changes[1]
      /\ \A i \in 1 .. n - 1 : changes'[i] = changes[i + 1]
  BY <1>1
<1>4. /\ config'.timeout = Newer(config.timeout, change.timeout)
      /\ config'.retries = Newer(config.retries, change.retries)
      /\ config'.profiles = config.profiles /\ Fields(config)'
  <2> HIDE <1>3
  <2>1. Fields(config)
    BY DEF SettingsInv, SettingsShape
  <2> QED BY <1>2, <2>1 DEF Fields
<1>5. SettingsShape'
  BY <1>1, <1>3, <1>4 DEF SettingsInv, SettingsShape, Fields
<1>6. SettingsControl' /\ Settings!DirtyHasFailed'
  BY <1>1 DEF SettingsControl, Settings!Running, Settings!DirtyHasFailed
<1>7. ToldOfSettings'
  <2> DEFINE w == TimeoutsWait
             v == RetriesWait
  <2>1. /\ \A i \in 1 .. n - 1 : w'[i] = w[i + 1] /\ v'[i] = v[i + 1]
        /\ w[1] = change.timeout /\ v[1] = change.retries
    <3>1. 1 \in 1 .. n /\ \A i \in 1 .. n - 1 : i + 1 \in 1 .. n
      BY <1>1
    <3> QED BY <1>3, <3>1 DEF TimeoutsWait, RetriesWait
  <2>2. /\ Promised(w, n, config.timeout, accepted.timeout)
        /\ Promised(v, n, config.retries, accepted.retries)
    BY DEF SettingsInv, ToldOfSettings
  <2> HIDE DEF w, v, n, change
  <2>3. Promised(w', n - 1, Newer(config.timeout, w[1]), accepted.timeout)
    BY <1>1, <2>1, <2>2, PromisedHolds
  <2>4. Promised(v', n - 1, Newer(config.retries, v[1]), accepted.retries)
    BY <1>1, <2>1, <2>2, PromisedHolds
  <2> QED BY <1>1, <1>3, <1>4, <2>1, <2>3, <2>4 DEF ToldOfSettings, w, v
<1>8. ToldOfProfiles'
  BY <1>1, <1>4 DEF SettingsInv, ToldOfProfiles
<1> QED BY <1>5, <1>6, <1>7, <1>8 DEF SettingsInv

\* A profile is put in its place, or dropped for want of one
LEMMA DrainProfileKeepsSettings ==
    ASSUME Settings!Bounds, SettingsInv, Settings!DrainProfileWrite
    PROVE  SettingsInv'
<1> DEFINE n == Len(profiles)
           p == Head(profiles)
           t == config.profiles
           places == PlacesFor(t, p)
<1>1. /\ profiles \in Seq(Profiles) /\ n \in Nat \ {0} /\ profiles' = Tail(profiles)
      /\ UNCHANGED <<changes, accepted, failed>> /\ p \in Profiles /\ doing = "idle"
  BY DEF SettingsInv, SettingsShape, Settings!DrainProfileWrite, Settings!Idle
<1>2. /\ Len(profiles') = n - 1 /\ profiles' \in Seq(Profiles) /\ p = profiles[1]
      /\ \A i \in 1 .. n - 1 : profiles'[i] = profiles[i + 1]
  BY <1>1
<1>3. IF places = {} THEN UNCHANGED <<config, unsaved, doing, todo>>
      ELSE /\ doing' = "saving"
           /\ config' = [config EXCEPT !.profiles[LeastOf(places)] = p]
  BY TablesAre DEF Settings!DrainProfileWrite, Settings!Saves, Settings!memoryVars
<1>4. p # <<>>
  <2>1. DOMAIN p = 1 .. 4
    BY <1>1 DEF Settings!Bounds
  <2>2. 1 \in 1 .. 4 /\ ~ (1 \in 1 .. 0)
    OBVIOUS
  <2>3. DOMAIN <<>> = 1 .. 0
    OBVIOUS
  <2> HIDE DEF p
  <2> QED BY <2>1, <2>2, <2>3
<1>5. Fields(config) /\ DOMAIN t = 1 .. ProfileSlots
  BY DEF SettingsInv, SettingsShape
<1>6. /\ config'.timeout = config.timeout /\ config'.retries = config.retries
      /\ config'.profiles = IF places = {} THEN t ELSE [t EXCEPT ![LeastOf(places)] = p]
      /\ Fields(config)'
  <2> HIDE DEF places, p
  <2> HIDE <1>1, <1>2, <1>4
  <2>1. CASE places = {}
    BY <1>3, <1>5, <2>1 DEF Fields
  <2>2. CASE places # {}
    BY <1>3, <1>5, <2>2 DEF Fields
  <2> QED BY <2>1, <2>2
<1>7. /\ IsHeld(config'.profiles, p)
      /\ \A r : Key(r) # Key(p) /\ IsHeld(t, r) => IsHeld(config'.profiles, r)
  <2> HIDE DEF places, p, t
  <2>1. CASE places = {}
    <3>1. PlacesIn(t, Key(p)) = {} /\ FreeIn(t) = {}
      BY <2>1 DEF places, PlacesFor
    <3> QED BY <1>6, <2>1, <3>1 DEF IsHeld, FoundIn
  <2>2. CASE places # {}
    <3> DEFINE u == [t EXCEPT ![LeastOf(places)] = p]
    <3>1. /\ FoundIn(u, Key(p)) = p
          /\ \A id : id # Key(p) => FoundIn(u, id) = FoundIn(t, id)
          /\ FreeIn(u) \subseteq FreeIn(t)
      BY <1>4, <1>5, <2>2, PutIs DEF places
    <3>2. config'.profiles = u
      BY <1>6, <2>2
    <3> HIDE DEF u
    <3>3. IsHeld(u, p)
      BY <3>1 DEF IsHeld
    <3>4. ASSUME NEW r, Key(r) # Key(p), IsHeld(t, r) PROVE IsHeld(u, r)
      <4>1. FoundIn(u, Key(r)) = FoundIn(t, Key(r))
        BY <3>1, <3>4
      <4> QED BY <3>1, <3>4, <4>1 DEF IsHeld
    <3> QED BY <3>2, <3>3, <3>4
  <2> QED BY <2>1, <2>2
<1>8. ToldOfProfiles'
  <2>1. AllTold(profiles, n, t, accepted.profiles)
    BY DEF SettingsInv, ToldOfProfiles
  <2> HIDE DEF n, p, t, places
  <2>2. AllTold(profiles', n - 1, config'.profiles, accepted.profiles)
    BY <1>1, <1>2, <1>7, <2>1, ToldHolds
  <2> QED BY <1>1, <1>2, <2>2 DEF ToldOfProfiles
<1>9. SettingsShape'
  <2>1. DOMAIN config'.profiles = 1 .. ProfileSlots
    BY <1>5, <1>6
  <2> QED BY <1>1, <1>2, <1>6, <2>1 DEF SettingsInv, SettingsShape, Fields
<1>10. ToldOfSettings'
  BY <1>1, <1>6 DEF SettingsInv, ToldOfSettings, TimeoutsWait, RetriesWait
<1>11. SettingsControl' /\ Settings!DirtyHasFailed'
  <2>1. CASE doing' = "saving"
    BY <2>1 DEF SettingsControl, Settings!Running, Settings!DirtyHasFailed
  <2>2. CASE UNCHANGED <<unsaved, doing, todo>>
    BY <1>1, <2>2
    DEF SettingsInv, SettingsControl, Settings!Running, Settings!DirtyHasFailed
  <2> QED BY <1>3, <2>1, <2>2
<1> QED BY <1>8, <1>9, <1>10, <1>11 DEF SettingsInv

LEMMA PersistKeepsSettings ==
    ASSUME SettingsInv, Settings!PersistState
    PROVE  SettingsInv'
<1>1. doing' = "saving" /\ UNCHANGED <<config, accepted, changes, profiles>>
  BY DEF Settings!PersistState, Settings!Saves, Settings!queueVars
<1>2. SettingsShape' /\ ToldOfSettings' /\ ToldOfProfiles'
  BY <1>1, ToldStays
<1>3. SettingsControl' /\ Settings!DirtyHasFailed'
  BY <1>1 DEF SettingsControl, Settings!Running, Settings!DirtyHasFailed
<1> QED BY <1>2, <1>3 DEF SettingsInv

LEMMA StutteringKeepsSettings ==
    ASSUME SettingsInv, UNCHANGED Settings!vars
    PROVE  SettingsInv'
<1>1. UNCHANGED <<config, unsaved, doing, todo, changes, profiles, failed, accepted>>
  BY DEF Settings!vars, Settings!memoryVars, Settings!queueVars, Settings!historyVars
<1>2. SettingsShape' /\ ToldOfSettings' /\ ToldOfProfiles'
  BY <1>1, ToldStays
<1>3. SettingsControl' /\ Settings!DirtyHasFailed'
  BY <1>1
  DEF SettingsInv, SettingsControl, Settings!Running, Settings!Nothing,
      Settings!DirtyHasFailed
<1> QED BY <1>2, <1>3 DEF SettingsInv

\* In a gateway that runs, with nothing waiting, what was promised is what holds
LEMMA PromisesAreKept ==
    ASSUME SettingsInv
    PROVE  Settings!LastAcceptedWins
<1>1. ASSUME changes = <<>>
      PROVE  /\ accepted.timeout \in {Settings!Absent, config.timeout}
             /\ accepted.retries \in {Settings!Absent, config.retries}
  <2>1. Len(changes) = 0
    BY <1>1
  <2>2. /\ Promised(TimeoutsWait, 0, config.timeout, accepted.timeout)
        /\ Promised(RetriesWait, 0, config.retries, accepted.retries)
    BY <2>1 DEF SettingsInv, ToldOfSettings
  <2>3. \A i \in 1 .. 0 : FALSE
    OBVIOUS
  <2> QED BY <2>2, <2>3, TablesAre DEF Promised
<1>2. ASSUME profiles = <<>>, NEW p \in accepted.profiles
      PROVE  \/ Settings!Found(Settings!Id(p)) = p
             \/ /\ Settings!Found(Settings!Id(p)) = Settings!Unused
                /\ Settings!FreePlaces = {}
  <2>1. Len(profiles) = 0
    BY <1>2
  <2>2. AllTold(profiles, 0, config.profiles, accepted.profiles)
    BY <2>1 DEF SettingsInv, ToldOfProfiles
  <2>3. ~ Waits(profiles, 0, p)
    BY DEF Waits
  <2>4. IsHeld(config.profiles, p)
    BY <1>2, <2>2, <2>3 DEF AllTold
  <2> QED BY <2>4, TablesAre DEF IsHeld, Settings!Unused
<1> QED BY <1>1, <1>2 DEF Settings!LastAcceptedWins

\* Whatever is asked for, and whatever writes and power fail: what clients were last
\* promised is what holds once nothing waits, and settings stay dirty only after a save
\* that failed (ConfigManager: load, save, set_reporting_profile; PersistenceManager:
\* drain_config_writes, drain_reporting_profile_writes). Both are parts of the
\* configuration's property AcceptedIsKept.
THEOREM PromisedSettingsHold ==
    ASSUME Settings!Bounds
    PROVE  Settings!Spec => [](Settings!LastAcceptedWins /\ Settings!DirtyHasFailed)
<1>1. Settings!Init => SettingsInv
  BY SettingsInitially
<1>2. SettingsInv /\ [Settings!Next]_Settings!vars => SettingsInv'
  <2> SUFFICES ASSUME SettingsInv, [Settings!Next]_Settings!vars
               PROVE  SettingsInv'
    OBVIOUS
  <2>1. CASE Settings!Load
    BY <2>1, LoadKeepsSettings
  <2>2. CASE Settings!Write
    BY <2>2, WriteKeepsSettings
  <2>3. CASE Settings!WriteFails
    BY <2>3, WriteFailsKeepsSettings
  <2>4. CASE Settings!Restart
    BY <2>4, RestartKeepsSettings
  <2>5. CASE \E change \in Changes : Settings!PostConfigWrite(change)
    BY <2>5, PostConfigKeepsSettings
  <2>6. CASE \E profile \in Profiles : Settings!PostReportingProfileWrite(profile)
    BY <2>6, PostProfileKeepsSettings
  <2>7. CASE Settings!DrainConfigWrite
    BY <2>7, DrainConfigKeepsSettings
  <2>8. CASE Settings!DrainProfileWrite
    BY <2>8, DrainProfileKeepsSettings
  <2>9. CASE Settings!PersistState
    BY <2>9, PersistKeepsSettings
  <2>10. CASE UNCHANGED Settings!vars
    BY <2>10, StutteringKeepsSettings
  <2> QED
    BY <2>1, <2>2, <2>3, <2>4, <2>5, <2>6, <2>7, <2>8, <2>9, <2>10 DEF Settings!Next
<1>3. SettingsInv => Settings!LastAcceptedWins /\ Settings!DirtyHasFailed
  BY PromisesAreKept DEF SettingsInv
<1> QED BY <1>1, <1>2, <1>3, PTL DEF Settings!Spec

-----------------------------------------------------------------------------
(* The profiles of a table that are used, one after the other              *)

\* The function that UsedOf defines, for a table of n places, and that it exists
Selects(f, t, n) ==
    f = [i \in 0 .. n |-> IF i = 0 THEN <<>>
                          ELSE IF Settings!IsUsed(t[i]) THEN Append(f[i - 1], t[i])
                          ELSE f[i - 1]]

LEMMA SelectionExists ==
    ASSUME NEW t, NEW n \in Nat
    PROVE  \E f : Selects(f, t, n)
<1> DEFINE Bad == {m \in Nat : ~ \E f : Selects(f, t, m)}
           less == OpToRel(<, Nat)
<1>1. IsWellFoundedOn(less, Nat)
  BY NatLessThanWellFounded
<1>2. \A x, y \in Nat : <<y, x>> \in less <=> y < x
  BY DEF OpToRel
<1> HIDE DEF less
<1>3. ASSUME Bad # {} PROVE FALSE
  <2>1. Bad \subseteq Nat
    OBVIOUS
  <2>2. PICK m \in Bad : \A y \in Bad : ~ (<<y, m>> \in less)
    <3> HIDE DEF Bad
    <3> QED BY <1>1, <1>3, <2>1, WFMin
  <2>3. m \in Nat /\ ~ \E f : Selects(f, t, m)
    BY <2>2
  <2>4. CASE m = 0
    <3> DEFINE f == [i \in 0 .. 0 |-> <<>>]
    <3>1. f = [i \in 0 .. 0 |-> IF i = 0 THEN <<>>
                                ELSE IF Settings!IsUsed(t[i]) THEN Append(f[i - 1], t[i])
                                ELSE f[i - 1]]
      OBVIOUS
    <3>2. Selects(f, t, m)
      BY <2>4, <3>1 DEF Selects
    <3> QED BY <2>3, <3>2
  <2>5. CASE m # 0
    <3>1. m - 1 \in Nat /\ m - 1 < m
      BY <2>3, <2>5
    <3>2. m - 1 \notin Bad
      BY <1>2, <2>2, <2>3, <3>1
    <3>3. PICK f : Selects(f, t, m - 1)
      BY <3>1, <3>2
    <3> DEFINE value(h, i) == IF i = 0 THEN <<>>
                              ELSE IF Settings!IsUsed(t[i]) THEN Append(h[i - 1], t[i])
                              ELSE h[i - 1]
               g == [i \in 0 .. m |-> value(f, i)]
    <3>4. f = [i \in 0 .. m - 1 |-> value(f, i)]
      BY <3>3 DEF Selects
    <3>5. \A i \in 0 .. m - 1 : i \in 0 .. m
      BY <2>3
    <3>6. \A i \in 0 .. m - 1 : g[i] = f[i]
      <4>1. \A i \in 0 .. m - 1 : f[i] = value(f, i)
        BY <3>4
      <4>2. \A i \in 0 .. m : g[i] = value(f, i)
        OBVIOUS
      <4> HIDE DEF g, value
      <4> QED BY <3>5, <4>1, <4>2
    <3>7. \A i \in 0 .. m : value(g, i) = value(f, i)
      <4>1. \A i \in 0 .. m : i # 0 => i - 1 \in 0 .. m - 1
        BY <2>3
      <4> HIDE DEF g
      <4> QED BY <3>6, <4>1
    <3>8. g = [i \in 0 .. m |-> value(g, i)]
      <4> HIDE DEF value
      <4> QED BY <3>7
    <3>9. Selects(g, t, m)
      BY <3>8 DEF Selects
    <3> QED BY <2>3, <3>9
  <2> QED BY <2>4, <2>5
<1> QED BY <1>3

IsUsedUpTo(t, k) == \A i \in DOMAIN t : t[i] # <<>> <=> i <= k

\* They are members of the table, no more than it has places; of a table without gaps
\* they are its first entries.
LEMMA UsedIs ==
    ASSUME NEW S, NEW n \in Nat, NEW t \in [1 .. n -> S \cup {<<>>}]
    PROVE  /\ Settings!UsedOf(t) \in Seq(S) /\ Len(Settings!UsedOf(t)) <= n
           /\ \A k \in 0 .. n : IsUsedUpTo(t, k) =>
                 /\ Len(Settings!UsedOf(t)) = k
                 /\ \A i \in 1 .. k : Settings!UsedOf(t)[i] = t[i]
<1>1. Len(t) = n /\ DOMAIN t = 1 .. n
  OBVIOUS
<1>2. \E f : Selects(f, t, n)
  BY SelectionExists
<1>3. PICK f : Selects(f, t, n) /\ Settings!UsedOf(t) = f[n]
  BY <1>1, <1>2 DEF Settings!UsedOf, Selects
<1>4. /\ f[0] = <<>>
      /\ \A i \in 1 .. n : f[i] = IF t[i] # <<>> THEN Append(f[i - 1], t[i]) ELSE f[i - 1]
  <2>1. \A i \in 0 .. n : f[i] = IF i = 0 THEN <<>>
                                 ELSE IF Settings!IsUsed(t[i]) THEN Append(f[i - 1], t[i])
                                 ELSE f[i - 1]
    BY <1>3 DEF Selects
  <2>2. 0 \in 0 .. n /\ \A i \in 1 .. n : i \in 0 .. n /\ i # 0
    OBVIOUS
  <2> QED BY <2>1, <2>2 DEF Settings!IsUsed, Settings!Unused
<1> DEFINE Reach(m, k) == IF m <= k THEN m ELSE k
           Right(m) == /\ f[m] \in Seq(S) /\ Len(f[m]) <= m
                      /\ \A k \in 0 .. n : IsUsedUpTo(t, k) =>
                            /\ Len(f[m]) = Reach(m, k)
                            /\ \A i \in 1 .. Reach(m, k) : f[m][i] = t[i]
           Bad == {m \in Nat : m <= n /\ ~ Right(m)}
           less == OpToRel(<, Nat)
<1>5. IsWellFoundedOn(less, Nat)
  BY NatLessThanWellFounded
<1>6. \A x, y \in Nat : <<y, x>> \in less <=> y < x
  BY DEF OpToRel
<1> HIDE DEF less
<1>7. ASSUME Bad # {} PROVE FALSE
  <2>1. PICK m \in Bad : \A y \in Bad : ~ (<<y, m>> \in less)
    <3>1. Bad \subseteq Nat
      OBVIOUS
    <3> HIDE DEF Bad
    <3> QED BY <1>5, <1>7, <3>1, WFMin
  <2>2. m \in Nat /\ m <= n /\ ~ Right(m)
    BY <2>1
  <2>3. CASE m = 0
    <3>1. f[m] = <<>>
      BY <1>4, <2>3
    <3>2. Right(m)
      BY <2>3, <3>1
    <3> QED BY <2>2, <3>2
  <2>4. CASE m # 0
    <3>1. m - 1 \in Nat /\ m - 1 < m /\ m \in 1 .. n
      BY <2>2, <2>4
    <3>2. Right(m - 1)
      <4>1. m - 1 \notin Bad
        BY <1>6, <2>1, <2>2, <3>1
      <4> HIDE DEF Right
      <4> QED BY <2>2, <3>1, <4>1
    <3> DEFINE q == f[m - 1]
    <3>3. q \in Seq(S) /\ Len(q) \in Nat /\ Len(q) <= m - 1
      BY <3>2
    <3>4. f[m] = IF t[m] # <<>> THEN Append(q, t[m]) ELSE q
      BY <1>4, <3>1
    <3>5. f[m] \in Seq(S) /\ Len(f[m]) <= m
      <4> HIDE DEF q
      <4> QED BY <3>1, <3>3, <3>4
    <3>6. ASSUME NEW k \in 0 .. n, IsUsedUpTo(t, k)
          PROVE  Len(f[m]) = Reach(m, k) /\ \A i \in 1 .. Reach(m, k) : f[m][i] = t[i]
      <4>1. Len(q) = Reach(m - 1, k) /\ \A i \in 1 .. Reach(m - 1, k) : q[i] = t[i]
        BY <3>2, <3>6
      <4>2. t[m] # <<>> <=> m <= k
        BY <1>1, <3>1, <3>6 DEF IsUsedUpTo
      <4>3. CASE m <= k
        <5>1. Reach(m, k) = m /\ Reach(m - 1, k) = m - 1
          BY <2>2, <4>3
        <5>2. f[m] = Append(q, t[m]) /\ t[m] \in S
          BY <3>1, <3>4, <4>2, <4>3
        <5> HIDE DEF q, Reach
        <5> QED BY <2>2, <3>3, <4>1, <5>1, <5>2
      <4>4. CASE ~ (m <= k)
        <5>1. Reach(m, k) = k /\ Reach(m - 1, k) = k
          BY <2>2, <4>4
        <5>2. f[m] = q
          BY <3>4, <4>2, <4>4
        <5> HIDE DEF q, Reach
        <5> QED BY <4>1, <5>1, <5>2
      <4> QED BY <4>3, <4>4
    <3>7. Right(m)
      BY <3>5, <3>6
    <3> HIDE DEF Right
    <3> QED BY <2>2, <3>7
  <2> QED BY <2>3, <2>4
<1>8. Right(n)
  <2>1. n \in Nat /\ n <= n
    OBVIOUS
  <2> HIDE DEF Right
  <2> QED BY <1>7, <2>1
<1>9. ASSUME NEW k \in 0 .. n PROVE Reach(n, k) = k
  OBVIOUS
<1> HIDE DEF Reach
<1> QED BY <1>3, <1>8, <1>9
-----------------------------------------------------------------------------
(* Flash, before and after some writes                                     *)

SlotKey(w, i) == <<Settings!Word[w], i>>
CountKey == Settings!Key("count")
SchemaKey == Settings!Key("schema")
TimeoutKey == Settings!Key("timeout")
RetriesKey == Settings!Key("retries")
Places == 1 .. ProfileSlots
Words == 1 .. 4

Flashes == [Settings!Keys -> Nat \cup {Absent}]
Writes == [key : Settings!Keys, value : Nat]
One(key, value) == [key |-> key, value |-> value]

LEMMA KeysAre ==
    /\ {CountKey, SchemaKey, TimeoutKey, RetriesKey} \subseteq Settings!Keys
    /\ \A w \in Words, i \in Places : SlotKey(w, i) \in Settings!Keys
    /\ CountKey \notin {SchemaKey, TimeoutKey, RetriesKey}
    /\ SchemaKey \notin {TimeoutKey, RetriesKey} /\ TimeoutKey # RetriesKey
    /\ \A w \in Words, i \in Places :
          SlotKey(w, i) \notin {CountKey, SchemaKey, TimeoutKey, RetriesKey}
    /\ \A w \in Words, v \in Words, i \in Places, j \in Places :
          SlotKey(w, i) = SlotKey(v, j) => w = v /\ i = j
<1>1. {CountKey, SchemaKey, TimeoutKey, RetriesKey} \subseteq Settings!Keys
  <2> DEFINE Names == {"schema", "timeout", "retries", "count",
                       "legacy timeout", "legacy retries", "legacy count"}
  <2>1. Names \X {0} \subseteq Settings!Keys
    BY DEF Settings!Keys
  <2>2. {"count", "schema", "timeout", "retries"} \subseteq Names
    OBVIOUS
  <2> HIDE DEF Names
  <2> QED
    BY <2>1, <2>2 DEF CountKey, SchemaKey, TimeoutKey, RetriesKey, Settings!Key
<1>2. \A w \in Words, i \in Places : SlotKey(w, i) \in Settings!Keys
  BY DEF SlotKey, Words, Places, Settings!Keys
<1>3. /\ CountKey \notin {SchemaKey, TimeoutKey, RetriesKey}
      /\ SchemaKey \notin {TimeoutKey, RetriesKey} /\ TimeoutKey # RetriesKey
  BY DEF CountKey, SchemaKey, TimeoutKey, RetriesKey, Settings!Key
<1>4. ASSUME NEW w \in Words, NEW i \in Places
      PROVE  SlotKey(w, i) \notin {CountKey, SchemaKey, TimeoutKey, RetriesKey}
  <2>1. i # 0
    BY DEF Places
  <2> QED BY <2>1 DEF SlotKey, CountKey, SchemaKey, TimeoutKey, RetriesKey, Settings!Key
<1>5. ASSUME NEW w \in Words, NEW v \in Words, NEW i \in Places, NEW j \in Places,
             SlotKey(w, i) = SlotKey(v, j)
      PROVE  w = v /\ i = j
  <2>1. Settings!Word[w] = Settings!Word[v] /\ i = j
    BY <1>5 DEF SlotKey
  <2>2. w \in {1, 2, 3, 4} /\ v \in {1, 2, 3, 4}
    BY DEF Words
  <2>3. /\ Settings!Word[1] = "k" /\ Settings!Word[2] = "c" /\ Settings!Word[3] = "i"
        /\ Settings!Word[4] = "r"
    BY DEF Settings!Word
  <2>4. /\ "k" # "c" /\ "k" # "i" /\ "k" # "r" /\ "c" # "i" /\ "c" # "r" /\ "i" # "r"
    OBVIOUS
  <2> QED BY <2>1, <2>2, <2>3, <2>4
<1> QED BY <1>1, <1>2, <1>3, <1>4, <1>5

\* The last write of a key
LEMMA LastWriteExists ==
    ASSUME NEW S, NEW q \in Seq(S), NEW key, NEW j \in DOMAIN q, q[j].key = key
    PROVE  \E m \in DOMAIN q : q[m].key = key /\ \A n \in DOMAIN q : n > m => q[n].key # key
<1> DEFINE those == {m \in DOMAIN q : q[m].key = key}
           T == {l \in Nat : Len(q) - l \in those}
           less == OpToRel(<, Nat)
<1>1. IsWellFoundedOn(less, Nat)
  BY NatLessThanWellFounded
<1>2. \A x, y \in Nat : <<y, x>> \in less <=> y < x
  BY DEF OpToRel
<1> HIDE DEF less
<1>3. Len(q) \in Nat /\ DOMAIN q = 1 .. Len(q)
  OBVIOUS
<1>4. Len(q) - j \in T
  BY <1>3
<1>5. T \subseteq Nat
  OBVIOUS
<1>6. PICK l \in T : \A y \in T : ~ (<<y, l>> \in less)
  <2> HIDE DEF T
  <2> QED BY <1>1, <1>4, <1>5, WFMin
<1>7. l \in Nat /\ Len(q) - l \in those
  BY <1>6
<1>8. ASSUME NEW n \in DOMAIN q, n > Len(q) - l PROVE q[n].key # key
  <2>1. Len(q) - n \in Nat /\ Len(q) - n < l /\ Len(q) - (Len(q) - n) = n
    BY <1>3, <1>7, <1>8
  <2>2. Len(q) - n \notin T
    BY <1>2, <1>6, <1>7, <2>1
  <2>3. n \notin those
    BY <2>1, <2>2
  <2> QED BY <2>3
<1> QED BY <1>7, <1>8

LEMMA AfterLast ==
    ASSUME NEW S, NEW q \in Seq(S), NEW f, NEW m \in DOMAIN q, q[m].key \in Settings!Keys,
           \A n \in DOMAIN q : n > m => q[n].key # q[m].key
    PROVE  Settings!After(f, q)[q[m].key] = q[m].value
<1> DEFINE key == q[m].key
           those == {n \in DOMAIN q : q[n].key = key}
           last == CHOOSE n \in those : \A k \in those : k <= n
<1>1. DOMAIN q = 1 .. Len(q) /\ Len(q) \in Nat
  OBVIOUS
<1>2. m \in those /\ \A k \in those : k <= m
  BY <1>1
<1>3. last \in those /\ \A k \in those : k <= last
  <2> HIDE DEF those
  <2> QED BY <1>2
<1>4. last = m
  <2>1. those \subseteq Nat
    BY <1>1
  <2> HIDE DEF those, last
  <2> QED BY <1>2, <1>3, <2>1
<1>5. Settings!After(f, q)[key] = IF those = {} THEN f[key] ELSE q[last].value
  BY DEF Settings!After
<1> HIDE DEF those, last
<1> QED BY <1>2, <1>4, <1>5

LEMMA AfterUntouched ==
    ASSUME NEW f, NEW q, NEW key \in Settings!Keys, \A n \in DOMAIN q : q[n].key # key
    PROVE  Settings!After(f, q)[key] = f[key]
  BY DEF Settings!After

\* What a key holds that is only ever written with one value
LEMMA AfterOnly ==
    ASSUME NEW S, NEW q \in Seq(S), NEW f, NEW j \in DOMAIN q, q[j].key \in Settings!Keys,
           \A n \in DOMAIN q : q[n].key = q[j].key => q[n].value = q[j].value
    PROVE  Settings!After(f, q)[q[j].key] = q[j].value
<1>1. PICK m \in DOMAIN q : /\ q[m].key = q[j].key
                            /\ \A n \in DOMAIN q : n > m => q[n].key # q[j].key
  BY LastWriteExists
<1>2. Settings!After(f, q)[q[m].key] = q[m].value
  BY <1>1, AfterLast
<1> QED BY <1>1, <1>2

LEMMA AfterIs ==
    ASSUME NEW f \in Flashes, NEW q \in Seq(Writes)
    PROVE  Settings!After(f, q) \in Flashes
<1>1. ASSUME NEW key \in Settings!Keys
      PROVE  Settings!After(f, q)[key] \in Nat \cup {Absent}
  <2>1. CASE \A n \in DOMAIN q : q[n].key # key
    <3>1. Settings!After(f, q)[key] = f[key]
      BY <2>1, AfterUntouched
    <3> QED BY <3>1 DEF Flashes
  <2>2. CASE \E n \in DOMAIN q : q[n].key = key
    <3>1. PICK j \in DOMAIN q : q[j].key = key
      BY <2>2
    <3>2. PICK m \in DOMAIN q : /\ q[m].key = key
                                /\ \A n \in DOMAIN q : n > m => q[n].key # key
      BY <3>1, LastWriteExists
    <3>3. Settings!After(f, q)[key] = q[m].value
      BY <3>2, AfterLast
    <3>4. q[m] \in Writes
      OBVIOUS
    <3> QED BY <3>3, <3>4 DEF Writes
  <2> QED BY <2>1, <2>2
<1>2. Settings!After(f, q) = [key \in Settings!Keys |-> Settings!After(f, q)[key]]
  BY DEF Settings!After
<1> QED BY <1>1, <1>2 DEF Flashes

LEMMA AfterNothing ==
    ASSUME NEW f \in Flashes
    PROVE  Settings!After(f, <<>>) = f
<1>1. \A key \in Settings!Keys : Settings!After(f, <<>>)[key] = f[key]
  BY AfterUntouched
<1>2. Settings!After(f, <<>>) = [key \in Settings!Keys |-> Settings!After(f, <<>>)[key]]
  BY DEF Settings!After
<1>3. f = [key \in Settings!Keys |-> f[key]]
  BY DEF Flashes
<1> QED BY <1>1, <1>2, <1>3

\* Making the first write changes nothing about what flash will hold in the end
LEMMA AfterTail ==
    ASSUME NEW f \in Flashes, NEW q \in Seq(Writes), q # <<>>,
           NEW g, g = [f EXCEPT ![Head(q).key] = Head(q).value]
    PROVE  g \in Flashes /\ Settings!After(g, Tail(q)) = Settings!After(f, q)
<1> DEFINE p == Tail(q)
<1>1. /\ Len(q) \in Nat \ {0} /\ DOMAIN q = 1 .. Len(q) /\ Head(q) = q[1]
      /\ p \in Seq(Writes) /\ DOMAIN p = 1 .. Len(q) - 1
      /\ \A m \in DOMAIN p : p[m] = q[m + 1]
  OBVIOUS
<1>2. Head(q) \in Writes /\ Head(q).key \in Settings!Keys /\ Head(q).value \in Nat
  <2>1. 1 \in DOMAIN q
    BY <1>1
  <2>2. q[1] \in Writes
    BY <2>1
  <2> QED BY <1>1, <2>2 DEF Writes
<1>3. g \in Flashes
  BY <1>2 DEF Flashes
<1>4. \A key \in Settings!Keys : g[key] = IF key = q[1].key THEN q[1].value ELSE f[key]
  BY <1>1 DEF Flashes
<1>5. \A m \in DOMAIN q : m = 1 \/ (m - 1 \in DOMAIN p /\ p[m - 1] = q[m])
  BY <1>1
<1> HIDE DEF p
<1>6. ASSUME NEW key \in Settings!Keys
      PROVE  Settings!After(g, p)[key] = Settings!After(f, q)[key]
  <2>1. CASE \A n \in DOMAIN p : p[n].key # key
    <3>1. Settings!After(g, p)[key] = g[key]
      BY <2>1, AfterUntouched
    <3>2. \A n \in DOMAIN q : n > 1 => q[n].key # key
      BY <1>1, <1>5, <2>1
    <3>3. CASE q[1].key = key
      <4>1. Settings!After(f, q)[key] = q[1].value
        BY <1>1, <3>2, <3>3, AfterLast
      <4> QED BY <1>4, <3>1, <3>3, <4>1
    <3>4. CASE q[1].key # key
      <4>1. \A n \in DOMAIN q : q[n].key # key
        BY <1>1, <3>2, <3>4
      <4>2. Settings!After(f, q)[key] = f[key]
        BY <4>1, AfterUntouched
      <4> QED BY <1>4, <3>1, <3>4, <4>2
    <3> QED BY <3>3, <3>4
  <2>2. CASE \E n \in DOMAIN p : p[n].key = key
    <3>1. PICK m \in DOMAIN p : /\ p[m].key = key
                                /\ \A n \in DOMAIN p : n > m => p[n].key # key
      BY <1>1, <2>2, LastWriteExists
    <3>2. Settings!After(g, p)[key] = p[m].value
      BY <1>1, <3>1, AfterLast
    <3>3. m + 1 \in DOMAIN q /\ q[m + 1] = p[m]
      BY <1>1
    <3>4. ASSUME NEW n \in DOMAIN q, n > m + 1 PROVE q[n].key # key
      <4>1. n # 1 /\ n - 1 > m
        BY <1>1, <3>4
      <4> QED BY <1>5, <3>1, <4>1
    <3>5. Settings!After(f, q)[key] = q[m + 1].value
      BY <3>1, <3>3, <3>4, AfterLast
    <3> QED BY <3>2, <3>3, <3>5
  <2> QED BY <2>1, <2>2
<1>7. /\ Settings!After(g, p) = [key \in Settings!Keys |-> Settings!After(g, p)[key]]
      /\ Settings!After(f, q) = [key \in Settings!Keys |-> Settings!After(f, q)[key]]
  BY DEF Settings!After
<1>8. Settings!After(g, p) = Settings!After(f, q)
  BY <1>6, <1>7
<1> QED BY <1>3, <1>8 DEF p
-----------------------------------------------------------------------------
(* What is written                                                         *)

All(q) == {q[m] : m \in DOMAIN q}

\* Nothing but the schema follows the number of profiles, and the words that say whose
\* profile it is are never zero
Ordered(q) == \A m, n \in DOMAIN q : m < n /\ q[m].key = CountKey => q[n].key = SchemaKey
Named(q) == \A x \in All(q), w \in 1 .. 2, i \in Places : x.key = SlotKey(w, i) => x.value > 0

LEMMA ConcatIs ==
    ASSUME NEW p \in Seq(Writes), NEW q \in Seq(Writes)
    PROVE  /\ p \o q \in Seq(Writes) /\ All(p \o q) = All(p) \cup All(q)
           /\ Len(p \o q) = Len(p) + Len(q)
           /\ q # <<>> => p \o q # <<>> /\ (p \o q)[Len(p \o q)] = q[Len(q)]
           /\ (\A x \in All(p) : x.key # CountKey) /\ Ordered(q) => Ordered(p \o q)
           /\ Ordered(p) /\ (\A x \in All(q) : x.key = SchemaKey) => Ordered(p \o q)
<1> DEFINE r == p \o q
           a == Len(p)
           b == Len(q)
<1>1. a \in Nat /\ b \in Nat /\ DOMAIN p = 1 .. a /\ DOMAIN q = 1 .. b
  OBVIOUS
<1>2. /\ r \in Seq(Writes) /\ Len(r) = a + b /\ DOMAIN r = 1 .. a + b
      /\ \A i \in 1 .. a + b : r[i] = IF i <= a THEN p[i] ELSE q[i - a]
  OBVIOUS
<1>3. q # <<>> => r # <<>> /\ r[a + b] = q[b]
  <2> SUFFICES ASSUME q # <<>> PROVE r # <<>> /\ r[a + b] = q[b]
    OBVIOUS
  <2>1. b # 0
    OBVIOUS
  <2>2. a + b \in 1 .. a + b /\ ~ (a + b <= a) /\ (a + b) - a = b
    BY <1>1, <2>1
  <2>3. r[a + b] = q[b]
    BY <1>2, <2>2
  <2>4. Len(r) # 0
    BY <1>1, <1>2, <2>1
  <2> HIDE DEF r
  <2> QED BY <2>3, <2>4
<1> HIDE DEF r, a, b
<1>4. /\ \A i \in DOMAIN p : i \in DOMAIN r /\ r[i] = p[i]
      /\ \A i \in DOMAIN q : i + a \in DOMAIN r /\ r[i + a] = q[i]
  BY <1>1, <1>2
<1>5. \A i \in DOMAIN r : \/ i \in DOMAIN p /\ r[i] = p[i]
                          \/ i - a \in DOMAIN q /\ r[i] = q[i - a] /\ i > a
  BY <1>1, <1>2
<1>6. All(r) = All(p) \cup All(q)
  <2>1. All(p) \subseteq All(r) /\ All(q) \subseteq All(r)
    BY <1>4 DEF All
  <2>2. All(r) \subseteq All(p) \cup All(q)
    BY <1>5 DEF All
  <2> QED BY <2>1, <2>2
<1>7. ASSUME \A x \in All(p) : x.key # CountKey, Ordered(q) PROVE Ordered(r)
  <2> SUFFICES ASSUME NEW m \in DOMAIN r, NEW n \in DOMAIN r, m < n, r[m].key = CountKey
               PROVE  r[n].key = SchemaKey
    BY DEF Ordered
  <2>1. m - a \in DOMAIN q /\ r[m] = q[m - a] /\ m > a
    BY <1>5, <1>7 DEF All
  <2>2. n > a /\ m - a < n - a
    BY <1>1, <1>2, <2>1
  <2>3. n \notin DOMAIN p
    BY <1>1, <1>2, <2>2
  <2>4. n - a \in DOMAIN q /\ r[n] = q[n - a]
    BY <1>5, <2>3
  <2> QED BY <1>7, <2>1, <2>2, <2>4 DEF Ordered
<1>8. ASSUME Ordered(p), \A x \in All(q) : x.key = SchemaKey PROVE Ordered(r)
  <2> SUFFICES ASSUME NEW m \in DOMAIN r, NEW n \in DOMAIN r, m < n, r[m].key = CountKey
               PROVE  r[n].key = SchemaKey
    BY DEF Ordered
  <2>1. CASE n \in DOMAIN p /\ r[n] = p[n]
    <3>1. m \in DOMAIN p
      BY <1>1, <1>2, <2>1
    <3>2. r[m] = p[m]
      BY <1>4, <3>1
    <3> QED BY <1>8, <2>1, <3>1, <3>2 DEF Ordered
  <2>2. CASE n - a \in DOMAIN q /\ r[n] = q[n - a]
    BY <1>8, <2>2 DEF All
  <2> QED BY <1>5, <2>1, <2>2
<1> QED BY <1>2, <1>3, <1>6, <1>7, <1>8 DEF r, a, b

LEMMA AllAre ==
    ASSUME NEW q \in Seq(Writes)
    PROVE  /\ All(q) \subseteq Writes /\ \A x \in All(q) : x.key \in Settings!Keys
           /\ \A x \in All(q) : \E m \in DOMAIN q : q[m] = x
<1>1. \A m \in DOMAIN q : q[m] \in Writes
  OBVIOUS
<1> QED BY <1>1 DEF All, Writes

LEMMA AfterAll ==
    ASSUME NEW q \in Seq(Writes), NEW f, NEW x \in All(q),
           \A y \in All(q) : y.key = x.key => y.value = x.value
    PROVE  Settings!After(f, q)[x.key] = x.value
<1>1. PICK j \in DOMAIN q : q[j] = x
  BY DEF All
<1>2. x.key \in Settings!Keys
  BY AllAre
<1>3. \A n \in DOMAIN q : q[n].key = q[j].key => q[n].value = q[j].value
  BY <1>1 DEF All
<1> QED BY <1>1, <1>2, <1>3, AfterOnly

LEMMA AfterNone ==
    ASSUME NEW q, NEW f, NEW key \in Settings!Keys, \A y \in All(q) : y.key # key
    PROVE  Settings!After(f, q)[key] = f[key]
<1>1. \A n \in DOMAIN q : q[n].key # key
  BY DEF All
<1> QED BY <1>1, AfterUntouched

LEMMA PutIsOne ==
    ASSUME NEW name, Settings!Key(name) \in Settings!Keys, NEW value \in Nat
    PROVE  /\ Settings!Put(name, value) \in Seq(Writes)
           /\ Settings!Put(name, value) # <<>>
           /\ All(Settings!Put(name, value)) = {One(Settings!Key(name), value)}
           /\ Len(Settings!Put(name, value)) = 1
           /\ Settings!Put(name, value)[1] = One(Settings!Key(name), value)
           /\ Ordered(Settings!Put(name, value))
<1> DEFINE x == One(Settings!Key(name), value)
<1>1. x \in Writes
  BY DEF One, Writes
<1>2. Settings!Put(name, value) = <<x>>
  BY DEF Settings!Put, One
<1> HIDE DEF x
<1>3. /\ <<x>> \in Seq(Writes) /\ <<x>> # <<>> /\ Len(<<x>>) = 1 /\ <<x>>[1] = x
      /\ DOMAIN <<x>> = {1}
  BY <1>1
<1>4. All(<<x>>) = {x}
  BY <1>3 DEF All
<1>5. Ordered(<<x>>)
  BY <1>3 DEF Ordered
<1> QED BY <1>2, <1>3, <1>4, <1>5 DEF x

ProfileSet == {p \in [1 .. 4 -> Nat] : p[1] > 0 /\ p[2] > 0}
IsSlotWrite(x, used, n) == \E i \in 1 .. n, w \in Words : x = One(SlotKey(w, i), used[i][w])

LEMMA SlotWritesAre ==
    ASSUME ProfileSlots \in Nat, NEW used \in Seq(ProfileSet), Len(used) <= ProfileSlots
    PROVE  /\ Settings!SlotWrites(used) \in Seq(Writes)
           /\ \A x : x \in All(Settings!SlotWrites(used)) <=> IsSlotWrite(x, used, Len(used))
<1> DEFINE n == Len(used)
           slot(m) == ((m - 1) \div 4) + 1
           word(m) == ((m - 1) % 4) + 1
           q == Settings!SlotWrites(used)
<1>1. n \in Nat /\ n <= ProfileSlots /\ \A i \in 1 .. n : used[i] \in ProfileSet
  OBVIOUS
<1>2. \A m \in 1 .. (4 * n) : slot(m) \in 1 .. n /\ word(m) \in Words
  BY <1>1 DEF Words
<1>3. ASSUME NEW i \in 1 .. n, NEW w \in Words
      PROVE  /\ 4 * (i - 1) + w \in 1 .. (4 * n)
             /\ slot(4 * (i - 1) + w) = i /\ word(4 * (i - 1) + w) = w
  BY <1>1 DEF Words
<1>4. q = [m \in 1 .. (4 * n) |-> One(SlotKey(word(m), slot(m)), used[slot(m)][word(m)])]
  BY DEF Settings!SlotWrites, One, SlotKey
<1> HIDE DEF n, slot, word, q
<1>5. ASSUME NEW i \in 1 .. n, NEW w \in Words
      PROVE  One(SlotKey(w, i), used[i][w]) \in Writes
  <2>1. SlotKey(w, i) \in Settings!Keys
    BY <1>1, KeysAre DEF Places
  <2>2. used[i][w] \in Nat
    BY <1>1 DEF ProfileSet, Words
  <2> QED BY <2>1, <2>2 DEF One, Writes
<1>6. \A m \in 1 .. (4 * n) : q[m] = One(SlotKey(word(m), slot(m)), used[slot(m)][word(m)])
                              /\ q[m] \in Writes
  BY <1>2, <1>4, <1>5
<1>7. 4 * n \in Nat /\ DOMAIN q = 1 .. (4 * n)
  BY <1>1, <1>4
<1>8. q \in Seq(Writes)
  <2>1. q = [m \in 1 .. (4 * n) |-> q[m]]
    BY <1>4, <1>6
  <2>2. q \in [1 .. (4 * n) -> Writes]
    BY <1>6, <2>1
  <2> QED BY <1>7, <2>2
<1>9. ASSUME NEW x, x \in All(q) PROVE IsSlotWrite(x, used, n)
  <2>1. PICK m \in 1 .. (4 * n) : q[m] = x
    BY <1>7, <1>9 DEF All
  <2> QED BY <1>2, <1>6, <2>1 DEF IsSlotWrite
<1>10. ASSUME NEW x, IsSlotWrite(x, used, n) PROVE x \in All(q)
  <2>1. PICK i \in 1 .. n, w \in Words : x = One(SlotKey(w, i), used[i][w])
    BY <1>10 DEF IsSlotWrite
  <2> DEFINE m == 4 * (i - 1) + w
  <2>2. m \in 1 .. (4 * n) /\ slot(m) = i /\ word(m) = w
    BY <1>3
  <2> HIDE DEF m
  <2>3. q[m] = x
    BY <1>6, <2>1, <2>2
  <2> QED BY <1>7, <2>2, <2>3 DEF All
<1> QED BY <1>8, <1>9, <1>10 DEF q, n

IsProfileWrite(x, used, n) == x = One(CountKey, n) \/ IsSlotWrite(x, used, n)

LEMMA SlotWriteIs ==
    ASSUME NEW n, NEW used, NEW x, IsSlotWrite(x, used, n), n \in Nat, n <= ProfileSlots,
           ProfileSlots \in Nat
    PROVE  /\ x.key \notin {CountKey, SchemaKey, TimeoutKey, RetriesKey}
           /\ \A w \in Words, i \in Places : x.key = SlotKey(w, i) =>
                 i \in 1 .. n /\ x.value = used[i][w]
<1>1. PICK i \in 1 .. n, w \in Words : x = One(SlotKey(w, i), used[i][w])
  BY DEF IsSlotWrite
<1>2. x.key = SlotKey(w, i) /\ x.value = used[i][w] /\ i \in Places
  BY <1>1 DEF One, Places
<1> QED BY <1>2, KeysAre

LEMMA ProfileWritesAre ==
    ASSUME ProfileSlots \in Nat, NEW used \in Seq(ProfileSet), Len(used) <= ProfileSlots
    PROVE  /\ Settings!WriteProfiles(used) \in Seq(Writes)
           /\ Settings!WriteProfiles(used) # <<>>
           /\ \A x : x \in All(Settings!WriteProfiles(used)) <=>
                         IsProfileWrite(x, used, Len(used))
           /\ Ordered(Settings!WriteProfiles(used))
<1> DEFINE p == Settings!SlotWrites(used)
           q == Settings!Put("count", Len(used))
           n == Len(used)
<1>1. n \in Nat /\ n <= ProfileSlots
  OBVIOUS
<1>2. p \in Seq(Writes) /\ \A x : x \in All(p) <=> IsSlotWrite(x, used, n)
  BY SlotWritesAre
<1>3. /\ q \in Seq(Writes) /\ q # <<>> /\ All(q) = {One(CountKey, n)} /\ Ordered(q)
  <2>1. Settings!Key("count") \in Settings!Keys
    BY KeysAre DEF CountKey
  <2> QED BY <1>1, <2>1, PutIsOne DEF CountKey
<1>4. Settings!WriteProfiles(used) = p \o q
  BY DEF Settings!WriteProfiles
<1> HIDE DEF p, q, n
<1>5. \A x \in All(p) : x.key # CountKey
  BY <1>1, <1>2, SlotWriteIs
<1>6. /\ p \o q \in Seq(Writes) /\ All(p \o q) = All(p) \cup All(q) /\ p \o q # <<>>
      /\ Ordered(p \o q)
  BY <1>2, <1>3, <1>5, ConcatIs
<1>7. \A x : x \in All(p \o q) <=> IsProfileWrite(x, used, n)
  BY <1>2, <1>3, <1>6 DEF IsProfileWrite
<1> QED BY <1>4, <1>6, <1>7 DEF n
-----------------------------------------------------------------------------
(* What is loaded                                                          *)

Tables == [Places -> ProfileSet \cup {<<>>}]
Settles(f) == Settings!Schema(f) \in {0, Settings!CurrentSchema}

\* Settings that may be held, with k profiles and no gaps
IsHeldConfig(c, k) ==
    /\ Fields(c) /\ Settings!ValidTimeout(c.timeout) /\ Settings!ValidRetries(c.retries)
    /\ c.profiles \in Tables /\ k \in 0 .. ProfileSlots /\ IsUsedUpTo(c.profiles, k)

OrZero(v) == IF v = Absent THEN 0 ELSE v

LEMMA SlotIs ==
    ASSUME NEW f \in Flashes, NEW a, NEW b, NEW c, NEW d, NEW i,
           {<<a, i>>, <<b, i>>, <<c, i>>, <<d, i>>} \subseteq Settings!Keys
    PROVE  /\ Settings!ReadSlot(f, <<a, b, c, d>>, i) \in ProfileSet \cup {<<>>}
           /\ Settings!ReadSlot(f, <<a, b, c, d>>, i) =
                 IF f[<<a, i>>] > 0 /\ f[<<b, i>>] > 0
                 THEN <<f[<<a, i>>], f[<<b, i>>], OrZero(f[<<c, i>>]), OrZero(f[<<d, i>>])>>
                 ELSE <<>>
<1> DEFINE x == f[<<a, i>>]
           y == f[<<b, i>>]
           u == OrZero(f[<<c, i>>])
           v == OrZero(f[<<d, i>>])
<1>1. /\ x \in Nat \cup {Absent} /\ y \in Nat \cup {Absent}
      /\ u \in Nat /\ v \in Nat
  BY DEF Flashes, OrZero, Absent
<1>2. Settings!ReadSlot(f, <<a, b, c, d>>, i) =
         IF {x, y} \cap {Absent, 0} # {} THEN <<>> ELSE <<x, y, u, v>>
  BY DEF Settings!ReadSlot, Settings!Absent, Absent, Settings!Unused, OrZero
<1> HIDE DEF x, y, u, v
<1>3. {x, y} \cap {Absent, 0} # {} <=> ~ (x > 0 /\ y > 0)
  <2>1. {x, y} \cap {Absent, 0} # {} <=> x = Absent \/ x = 0 \/ y = Absent \/ y = 0
    OBVIOUS
  <2>2. x = Absent \/ x = 0 \/ y = Absent \/ y = 0 <=> ~ (x > 0 /\ y > 0)
    BY <1>1 DEF Absent
  <2> QED BY <2>1, <2>2
<1>4. x > 0 /\ y > 0 => <<x, y, u, v>> \in ProfileSet
  <2> SUFFICES ASSUME x > 0, y > 0 PROVE <<x, y, u, v>> \in ProfileSet
    OBVIOUS
  <2>1. x \in Nat /\ y \in Nat
    BY <1>1 DEF Absent
  <2>2. <<x, y, u, v>> \in [1 .. 4 -> Nat]
    BY <1>1, <2>1
  <2> QED BY <2>2 DEF ProfileSet
<1> QED BY <1>2, <1>3, <1>4 DEF x, y, u, v

LEMMA WordsAre ==
    ASSUME NEW f \in Flashes, NEW i \in Places
    PROVE  /\ Settings!ReadSlot(f, Settings!Word, i) \in ProfileSet \cup {<<>>}
           /\ Settings!ReadSlot(f, Settings!Word, i) =
                 IF f[SlotKey(1, i)] > 0 /\ f[SlotKey(2, i)] > 0
                 THEN <<f[SlotKey(1, i)], f[SlotKey(2, i)],
                        OrZero(f[SlotKey(3, i)]), OrZero(f[SlotKey(4, i)])>>
                 ELSE <<>>
<1>1. {SlotKey(1, i), SlotKey(2, i), SlotKey(3, i), SlotKey(4, i)} \subseteq Settings!Keys
  BY KeysAre DEF Words
<1>2. /\ SlotKey(1, i) = <<"k", i>> /\ SlotKey(2, i) = <<"c", i>>
      /\ SlotKey(3, i) = <<"i", i>> /\ SlotKey(4, i) = <<"r", i>>
  BY DEF SlotKey, Settings!Word
<1>3. Settings!Word = <<"k", "c", "i", "r">>
  BY DEF Settings!Word
<1> QED BY <1>1, <1>2, <1>3, SlotIs

LEMMA LegacyWordsAre ==
    ASSUME NEW f \in Flashes, NEW i \in Places
    PROVE  Settings!ReadSlot(f, Settings!Legacy, i) \in ProfileSet \cup {<<>>}
<1> DEFINE L == Settings!Legacy
<1>1. {<<L[1], i>>, <<L[2], i>>, <<L[3], i>>, <<L[4], i>>} \subseteq Settings!Keys
  <2>1. {L[1], L[2], L[3], L[4]} \subseteq {L[w] : w \in 1 .. 4}
    <3>1. 1 \in 1 .. 4 /\ 2 \in 1 .. 4 /\ 3 \in 1 .. 4 /\ 4 \in 1 .. 4
      OBVIOUS
    <3> HIDE DEF L
    <3> QED BY <3>1
  <2>2. {L[w] : w \in 1 .. 4} \X Places \subseteq Settings!Keys
    BY DEF Settings!Keys, Places
  <2> HIDE DEF L
  <2> QED BY <2>1, <2>2
<1>2. L = <<"legacy k", "legacy c", "legacy i", "legacy r">>
  BY DEF Settings!Legacy
<1>3. L = <<L[1], L[2], L[3], L[4]>>
  BY <1>2
<1> HIDE DEF L
<1>4. Settings!ReadSlot(f, <<L[1], L[2], L[3], L[4]>>, i) \in ProfileSet \cup {<<>>}
  BY <1>1, SlotIs
<1> QED BY <1>3, <1>4 DEF L

\* The profiles that are counted, as far as there are places
CountedIn(f) == IF f[CountKey] = Absent THEN 0
                ELSE IF f[CountKey] <= ProfileSlots THEN f[CountKey] ELSE ProfileSlots

LEMMA LoadIs ==
    ASSUME Settings!Bounds, NEW f \in Flashes, Settings!CountsWholeProfiles(f)
    PROVE  /\ IsHeldConfig(Settings!LoadedFrom(f), CountedIn(f))
           /\ Settings!LoadedFrom(f).timeout = Settings!TimeoutOr(f[TimeoutKey])
           /\ Settings!LoadedFrom(f).retries = Settings!RetriesOr(f[RetriesKey])
           /\ \A i \in 1 .. CountedIn(f) :
                 Settings!LoadedFrom(f).profiles[i] = Settings!ReadSlot(f, Settings!Word, i)
<1> DEFINE c == Settings!LoadedFrom(f)
           k == CountedIn(f)
           t == Settings!LoadProfiles(f)
<1>1. ProfileSlots \in Nat \ {0} /\ f[CountKey] \in Nat \cup {Absent}
  BY KeysAre DEF Settings!Bounds, Flashes
<1>2. k \in 0 .. ProfileSlots /\ \A i \in Places : i <= k <=> i <= f[CountKey]
  BY <1>1 DEF CountedIn, Absent, Places
<1>3. /\ c.timeout = Settings!TimeoutOr(f[TimeoutKey])
      /\ c.retries = Settings!RetriesOr(f[RetriesKey])
      /\ c.profiles = t /\ Fields(c)
  BY DEF Settings!LoadedFrom, TimeoutKey, RetriesKey, Fields
<1>4. Settings!ValidTimeout(c.timeout) /\ Settings!ValidRetries(c.retries)
  BY <1>3 DEF Settings!TimeoutOr, Settings!RetriesOr, Settings!Bounds
<1>5. t = [i \in Places |-> IF i <= k THEN Settings!ReadSlot(f, Settings!Word, i) ELSE <<>>]
  <2>1. t = [i \in Places |-> IF i <= Settings!Lesser(f[CountKey], ProfileSlots)
                              THEN Settings!ReadSlot(f, Settings!Word, i) ELSE <<>>]
    BY DEF Settings!LoadProfiles, Places, Settings!Unused, CountKey
  <2>2. \A i \in Places : i <= Settings!Lesser(f[CountKey], ProfileSlots) <=> i <= k
    <3> HIDE DEF k
    <3> QED BY <1>1, <1>2 DEF Settings!Lesser, Absent, Places
  <2> HIDE DEF t, k
  <2> QED BY <2>1, <2>2
<1> HIDE DEF k, t, c
<1>6. \A i \in Places : Settings!ReadSlot(f, Settings!Word, i) \in ProfileSet \cup {<<>>}
  BY WordsAre
<1>7. t \in Tables
  BY <1>5, <1>6 DEF Tables
<1>8. \A i \in Places : i <= k => Settings!ReadSlot(f, Settings!Word, i) # <<>>
  BY <1>2 DEF Settings!CountsWholeProfiles, Places, CountKey, Settings!Unused
<1>9. IsUsedUpTo(t, k)
  BY <1>5, <1>8 DEF IsUsedUpTo
<1>10. \A i \in 1 .. k : i \in Places /\ i <= k
  BY <1>1, <1>2 DEF Places
<1>11. IsHeldConfig(c, k)
  BY <1>2, <1>3, <1>4, <1>7, <1>9 DEF IsHeldConfig
<1> QED BY <1>3, <1>5, <1>10, <1>11 DEF k, c

\* Flashes that hold the same words where profiles are counted give the same settings
LEMMA LoadsAlike ==
    ASSUME Settings!Bounds, NEW f \in Flashes, NEW g \in Flashes,
           Settings!CountsWholeProfiles(f), Settings!CountsWholeProfiles(g),
           Settings!TimeoutOr(f[TimeoutKey]) = Settings!TimeoutOr(g[TimeoutKey]),
           Settings!RetriesOr(f[RetriesKey]) = Settings!RetriesOr(g[RetriesKey]),
           CountedIn(f) = CountedIn(g),
           \A i \in 1 .. CountedIn(f) : Settings!ReadSlot(f, Settings!Word, i) =
                                        Settings!ReadSlot(g, Settings!Word, i)
    PROVE  Settings!LoadedFrom(f) = Settings!LoadedFrom(g)
<1> DEFINE c == Settings!LoadedFrom(f)
           d == Settings!LoadedFrom(g)
           k == CountedIn(f)
<1>1. IsHeldConfig(c, k) /\ IsHeldConfig(d, k)
  BY LoadIs
<1>2. /\ c.timeout = d.timeout /\ c.retries = d.retries
      /\ \A i \in 1 .. k : c.profiles[i] = d.profiles[i]
  BY LoadIs
<1> HIDE DEF c, d, k
<1>3. c.profiles \in Tables /\ d.profiles \in Tables /\ k \in 0 .. ProfileSlots
  BY <1>1 DEF IsHeldConfig
<1>4. \A i \in Places : c.profiles[i] = d.profiles[i]
  <2> SUFFICES ASSUME NEW i \in Places PROVE c.profiles[i] = d.profiles[i]
    OBVIOUS
  <2>1. CASE i <= k
    <3>1. i \in 1 .. k
      BY <1>3, <2>1 DEF Places
    <3> QED BY <1>2, <3>1
  <2>2. CASE ~ (i <= k)
    <3>1. c.profiles[i] = <<>> /\ d.profiles[i] = <<>>
      BY <1>1, <1>3, <2>2 DEF IsHeldConfig, IsUsedUpTo, Tables
    <3> QED BY <3>1
  <2> QED BY <2>1, <2>2
<1>5. c.profiles = d.profiles
  BY <1>3, <1>4 DEF Tables
<1>6. c = d
  BY <1>1, <1>2, <1>5 DEF IsHeldConfig, Fields
<1> QED BY <1>6 DEF c, d

\* A flash that holds what was saved gives it back
LEMMA Reloads ==
    ASSUME Settings!Bounds, NEW f \in Flashes, NEW c, NEW k, IsHeldConfig(c, k),
           f[TimeoutKey] = c.timeout, f[RetriesKey] = c.retries, f[CountKey] = k,
           \A i \in 1 .. k, w \in Words : f[SlotKey(w, i)] = c.profiles[i][w]
    PROVE  Settings!LoadedFrom(f) = c /\ Settings!CountsWholeProfiles(f)
<1>1. ProfileSlots \in Nat \ {0} /\ k \in Nat /\ k <= ProfileSlots /\ k # Absent
  BY DEF Settings!Bounds, IsHeldConfig, Absent
<1>2. ASSUME NEW i \in 1 .. k
      PROVE  /\ i \in Places /\ c.profiles[i] \in ProfileSet
             /\ Settings!ReadSlot(f, Settings!Word, i) = c.profiles[i]
  <2>1. i \in Places /\ i <= k
    BY <1>1 DEF Places
  <2>2. c.profiles[i] \in ProfileSet
    BY <2>1 DEF IsHeldConfig, IsUsedUpTo, Tables
  <2> DEFINE p == c.profiles[i]
  <2>3. /\ f[SlotKey(1, i)] = p[1] /\ f[SlotKey(2, i)] = p[2]
        /\ f[SlotKey(3, i)] = p[3] /\ f[SlotKey(4, i)] = p[4]
    BY DEF Words
  <2>4. p \in [1 .. 4 -> Nat] /\ p[1] > 0 /\ p[2] > 0
    BY <2>2 DEF ProfileSet
  <2> HIDE DEF p
  <2>5. p[3] # Absent /\ p[4] # Absent /\ p = <<p[1], p[2], p[3], p[4]>>
    BY <2>4 DEF Absent
  <2>6. Settings!ReadSlot(f, Settings!Word, i) = <<p[1], p[2], OrZero(p[3]), OrZero(p[4])>>
    BY <2>1, <2>3, <2>4, WordsAre
  <2>7. Settings!ReadSlot(f, Settings!Word, i) = p
    BY <2>5, <2>6 DEF OrZero
  <2> QED BY <2>1, <2>2, <2>7 DEF p
<1>3. Settings!CountsWholeProfiles(f)
  <2> SUFFICES ASSUME NEW i \in 1 .. ProfileSlots, i <= f[CountKey]
               PROVE  Settings!ReadSlot(f, Settings!Word, i) # <<>>
    BY DEF Settings!CountsWholeProfiles, CountKey, Settings!Unused
  <2>1. i \in 1 .. k
    BY <1>1
  <2>2. DOMAIN c.profiles[i] = 1 .. 4 /\ DOMAIN <<>> = {} /\ 1 \in 1 .. 4
    BY <1>2, <2>1 DEF ProfileSet
  <2>3. c.profiles[i] # <<>>
    BY <2>2
  <2> QED BY <1>2, <2>1, <2>3
<1> DEFINE d == Settings!LoadedFrom(f)
<1>4. CountedIn(f) = k
  BY <1>1 DEF CountedIn
<1>5. /\ IsHeldConfig(d, k)
      /\ d.timeout = Settings!TimeoutOr(f[TimeoutKey])
      /\ d.retries = Settings!RetriesOr(f[RetriesKey])
      /\ \A i \in 1 .. k : d.profiles[i] = c.profiles[i]
  BY <1>2, <1>3, <1>4, LoadIs
<1> HIDE DEF d
<1>6. d.timeout = c.timeout /\ d.retries = c.retries
  BY <1>5 DEF IsHeldConfig, Settings!TimeoutOr, Settings!RetriesOr
<1>7. \A i \in Places : d.profiles[i] = c.profiles[i]
  <2> SUFFICES ASSUME NEW i \in Places PROVE d.profiles[i] = c.profiles[i]
    OBVIOUS
  <2>1. CASE i <= k
    <3>1. i \in 1 .. k
      BY <1>1, <2>1 DEF Places
    <3> QED BY <1>5, <3>1
  <2>2. CASE ~ (i <= k)
    <3>1. c.profiles[i] = <<>> /\ d.profiles[i] = <<>>
      BY <1>5, <2>2 DEF IsHeldConfig, IsUsedUpTo, Tables
    <3> QED BY <3>1
  <2> QED BY <2>1, <2>2
<1>8. d.profiles = c.profiles
  <2>1. d.profiles \in Tables /\ c.profiles \in Tables
    BY <1>5 DEF IsHeldConfig
  <2> QED BY <1>7, <2>1 DEF Tables
<1>9. d = c
  BY <1>5, <1>6, <1>8 DEF IsHeldConfig, Fields
<1> QED BY <1>3, <1>9 DEF d
-----------------------------------------------------------------------------
(* Saves                                                                   *)

IsSaveWrite(x, c, k) ==
    \/ x \in {One(TimeoutKey, c.timeout), One(RetriesKey, c.retries),
              One(SchemaKey, Settings!CurrentSchema)}
    \/ IsProfileWrite(x, c.profiles, k)

LEMMA SaveWritesAre ==
    ASSUME Settings!Bounds, NEW c, NEW k, IsHeldConfig(c, k)
    PROVE  /\ Settings!SaveWrites(c) \in Seq(Writes) /\ Settings!SaveWrites(c) # <<>>
           /\ Ordered(Settings!SaveWrites(c))
           /\ \A x : x \in All(Settings!SaveWrites(c)) <=> IsSaveWrite(x, c, k)
<1> DEFINE p1 == Settings!Put("timeout", c.timeout)
           p2 == Settings!Put("retries", c.retries)
           p3 == Settings!Put("schema", Settings!CurrentSchema)
           used == Settings!UsedOf(c.profiles)
           q == Settings!WriteProfiles(used)
           x1 == One(TimeoutKey, c.timeout)
           x2 == One(RetriesKey, c.retries)
           x3 == One(SchemaKey, Settings!CurrentSchema)
<1>1. /\ ProfileSlots \in Nat /\ c.timeout \in Nat /\ c.retries \in Nat
      /\ Settings!CurrentSchema \in Nat
  BY DEF Settings!Bounds, IsHeldConfig, Settings!ValidTimeout, Settings!ValidRetries,
         Settings!CurrentSchema
<1>2. /\ used \in Seq(ProfileSet) /\ Len(used) = k /\ k <= ProfileSlots
      /\ \A i \in 1 .. k : used[i] = c.profiles[i]
  <2>1. c.profiles \in [1 .. ProfileSlots -> ProfileSet \cup {<<>>}]
    BY DEF IsHeldConfig, Tables, Places
  <2>2. k \in 0 .. ProfileSlots /\ IsUsedUpTo(c.profiles, k)
    BY DEF IsHeldConfig
  <2> HIDE DEF used
  <2>3. /\ Settings!UsedOf(c.profiles) \in Seq(ProfileSet)
        /\ Len(Settings!UsedOf(c.profiles)) = k
        /\ \A i \in 1 .. k : Settings!UsedOf(c.profiles)[i] = c.profiles[i]
    <3> DEFINE t == c.profiles
    <3>1. t \in [1 .. ProfileSlots -> ProfileSet \cup {<<>>}] /\ IsUsedUpTo(t, k)
      BY <2>1, <2>2
    <3> HIDE DEF t
    <3>2. /\ Settings!UsedOf(t) \in Seq(ProfileSet)
          /\ Len(Settings!UsedOf(t)) = k
          /\ \A i \in 1 .. k : Settings!UsedOf(t)[i] = t[i]
      BY <1>1, <2>2, <3>1, UsedIs
    <3> QED BY <3>2 DEF t
  <2> QED BY <1>1, <2>2, <2>3 DEF used
<1>3. /\ q \in Seq(Writes) /\ q # <<>> /\ Ordered(q)
      /\ \A x : x \in All(q) <=> IsProfileWrite(x, c.profiles, k)
  <2> HIDE DEF used
  <2>1. /\ q \in Seq(Writes) /\ q # <<>> /\ Ordered(q)
        /\ \A x : x \in All(q) <=> IsProfileWrite(x, used, k)
    BY <1>1, <1>2, ProfileWritesAre
  <2>2. \A x : IsProfileWrite(x, used, k) <=> IsProfileWrite(x, c.profiles, k)
    BY <1>2 DEF IsProfileWrite, IsSlotWrite
  <2> QED BY <2>1, <2>2
<1>4. /\ p1 \in Seq(Writes) /\ All(p1) = {x1} /\ p2 \in Seq(Writes) /\ All(p2) = {x2}
      /\ p3 \in Seq(Writes) /\ All(p3) = {x3}
  <2>1. /\ Settings!Key("timeout") \in Settings!Keys /\ Settings!Key("retries") \in Settings!Keys
        /\ Settings!Key("schema") \in Settings!Keys
    BY KeysAre DEF TimeoutKey, RetriesKey, SchemaKey
  <2> QED BY <1>1, <2>1, PutIsOne DEF TimeoutKey, RetriesKey, SchemaKey
<1>5. Settings!SaveWrites(c) = ((p1 \o p2) \o p3) \o q
  BY DEF Settings!SaveWrites
<1>6. x1.key # CountKey /\ x2.key # CountKey /\ x3.key # CountKey
  BY KeysAre DEF One
<1> HIDE DEF p1, p2, p3, q, x1, x2, x3, used
<1>7. p1 \o p2 \in Seq(Writes) /\ All(p1 \o p2) = {x1, x2}
  BY <1>4, ConcatIs
<1> DEFINE p == (p1 \o p2) \o p3
<1>8. p \in Seq(Writes) /\ All(p) = {x1, x2, x3}
  <2>1. p \in Seq(Writes) /\ All(p) = All(p1 \o p2) \cup All(p3)
    BY <1>4, <1>7, ConcatIs
  <2> HIDE DEF p
  <2> QED BY <1>4, <1>7, <2>1
<1> HIDE DEF p
<1>9. p \o q \in Seq(Writes) /\ All(p \o q) = All(p) \cup All(q) /\ p \o q # <<>>
      /\ Ordered(p \o q)
  BY <1>3, <1>6, <1>8, ConcatIs
<1>10. \A x : x \in All(p \o q) <=> IsSaveWrite(x, c, k)
  BY <1>3, <1>8, <1>9 DEF IsSaveWrite, x1, x2, x3
<1> QED BY <1>5, <1>9, <1>10 DEF p

\* Writes of one save agree where they write the same key
LEMMA SaveWriteIs ==
    ASSUME Settings!Bounds, NEW c, NEW k, IsHeldConfig(c, k), NEW x, IsSaveWrite(x, c, k)
    PROVE  /\ x.key = TimeoutKey => x.value = c.timeout
           /\ x.key = RetriesKey => x.value = c.retries
           /\ x.key = CountKey => x.value = k
           /\ x.key = SchemaKey => x.value = Settings!CurrentSchema
           /\ \A w \in Words, i \in Places : x.key = SlotKey(w, i) =>
                 i \in 1 .. k /\ x.value = c.profiles[i][w]
           /\ \/ x.key \in {TimeoutKey, RetriesKey, CountKey, SchemaKey}
              \/ \E w \in Words, i \in 1 .. k : x.key = SlotKey(w, i)
<1>1. ProfileSlots \in Nat /\ k \in Nat /\ k <= ProfileSlots
  BY DEF Settings!Bounds, IsHeldConfig
<1>2. CASE IsSlotWrite(x, c.profiles, k)
  <2>1. /\ x.key \notin {CountKey, SchemaKey, TimeoutKey, RetriesKey}
        /\ \A w \in Words, i \in Places : x.key = SlotKey(w, i) =>
              i \in 1 .. k /\ x.value = c.profiles[i][w]
    BY <1>1, <1>2, SlotWriteIs
  <2>2. \E w \in Words, i \in 1 .. k : x.key = SlotKey(w, i)
    BY <1>2 DEF IsSlotWrite, One
  <2> QED BY <2>1, <2>2
<1>3. CASE x \in {One(TimeoutKey, c.timeout), One(RetriesKey, c.retries),
                  One(SchemaKey, Settings!CurrentSchema), One(CountKey, k)}
  BY <1>3, KeysAre DEF One
<1> QED BY <1>2, <1>3 DEF IsSaveWrite, IsProfileWrite

LEMMA AfterSave ==
    ASSUME Settings!Bounds, NEW c, NEW k, IsHeldConfig(c, k), NEW f \in Flashes
    PROVE  /\ Settings!LoadedFrom(Settings!After(f, Settings!SaveWrites(c))) = c
           /\ Settings!CountsWholeProfiles(Settings!After(f, Settings!SaveWrites(c)))
           /\ Named(Settings!SaveWrites(c))
<1> DEFINE q == Settings!SaveWrites(c)
           g == Settings!After(f, q)
<1>1. /\ q \in Seq(Writes) /\ \A x : x \in All(q) <=> IsSaveWrite(x, c, k)
  BY SaveWritesAre
<1> HIDE DEF q
<1>2. g \in Flashes
  BY <1>1, AfterIs
<1>3. ASSUME NEW x, IsSaveWrite(x, c, k),
             \A y : IsSaveWrite(y, c, k) /\ y.key = x.key => y.value = x.value
      PROVE  g[x.key] = x.value
  BY <1>1, <1>3, AfterAll
<1>4. g[TimeoutKey] = c.timeout
  <2> DEFINE x == One(TimeoutKey, c.timeout)
  <2>1. IsSaveWrite(x, c, k) /\ x.key = TimeoutKey /\ x.value = c.timeout
    BY DEF IsSaveWrite, One
  <2> HIDE DEF x
  <2> QED BY <1>3, <2>1, SaveWriteIs
<1>5. g[RetriesKey] = c.retries
  <2> DEFINE x == One(RetriesKey, c.retries)
  <2>1. IsSaveWrite(x, c, k) /\ x.key = RetriesKey /\ x.value = c.retries
    BY DEF IsSaveWrite, One
  <2> HIDE DEF x
  <2> QED BY <1>3, <2>1, SaveWriteIs
<1>6. g[CountKey] = k
  <2> DEFINE x == One(CountKey, k)
  <2>1. IsSaveWrite(x, c, k) /\ x.key = CountKey /\ x.value = k
    BY DEF IsSaveWrite, IsProfileWrite, One
  <2> HIDE DEF x
  <2> QED BY <1>3, <2>1, SaveWriteIs
<1>7. ASSUME NEW i \in 1 .. k, NEW w \in Words PROVE g[SlotKey(w, i)] = c.profiles[i][w]
  <2> DEFINE x == One(SlotKey(w, i), c.profiles[i][w])
  <2>1. IsSaveWrite(x, c, k) /\ x.key = SlotKey(w, i) /\ x.value = c.profiles[i][w]
    BY DEF IsSaveWrite, IsProfileWrite, IsSlotWrite, One
  <2>2. i \in Places
    BY DEF Settings!Bounds, IsHeldConfig, Places
  <2> HIDE DEF x
  <2> QED BY <1>3, <2>1, <2>2, SaveWriteIs
<1>8. Named(q)
  <2> SUFFICES ASSUME NEW x \in All(q), NEW w \in 1 .. 2, NEW i \in Places, x.key = SlotKey(w, i)
               PROVE  x.value > 0
    BY DEF Named
  <2>1. w \in Words /\ IsSaveWrite(x, c, k)
    BY <1>1 DEF Words
  <2>2. i \in 1 .. k /\ x.value = c.profiles[i][w]
    BY <2>1, SaveWriteIs
  <2>3. c.profiles[i] \in ProfileSet
    BY <2>2 DEF IsHeldConfig, IsUsedUpTo, Tables
  <2>4. w \in {1, 2}
    OBVIOUS
  <2> QED BY <2>2, <2>3, <2>4 DEF ProfileSet
<1> HIDE DEF g
<1>9. Settings!LoadedFrom(g) = c /\ Settings!CountsWholeProfiles(g)
  BY <1>2, <1>4, <1>5, <1>6, <1>7, Reloads
<1> QED BY <1>8, <1>9 DEF g, q

\* Words that flash counts are not lost by a write that names a profile
LEMMA WholeStays ==
    ASSUME ProfileSlots \in Nat, NEW f \in Flashes, Settings!CountsWholeProfiles(f),
           NEW x \in Writes, x.key # CountKey,
           \A w \in 1 .. 2, i \in Places : x.key = SlotKey(w, i) => x.value > 0,
           NEW g, g = [f EXCEPT ![x.key] = x.value]
    PROVE  g \in Flashes /\ Settings!CountsWholeProfiles(g)
<1>1. x.key \in Settings!Keys /\ x.value \in Nat
  BY DEF Writes
<1>2. g \in Flashes /\ \A key \in Settings!Keys : g[key] = IF key = x.key THEN x.value ELSE f[key]
  BY <1>1 DEF Flashes
<1>3. g[CountKey] = f[CountKey]
  BY <1>2, KeysAre
<1>4. ASSUME NEW i \in Places, i <= g[CountKey]
      PROVE  Settings!ReadSlot(g, Settings!Word, i) # <<>>
  <2>1. Settings!ReadSlot(f, Settings!Word, i) # <<>>
    BY <1>3, <1>4 DEF Settings!CountsWholeProfiles, Places, CountKey, Settings!Unused
  <2>2. f[SlotKey(1, i)] > 0 /\ f[SlotKey(2, i)] > 0
    BY <2>1, WordsAre
  <2>3. 1 \in 1 .. 2 /\ 2 \in 1 .. 2 /\ 1 \in Words /\ 2 \in Words
    BY DEF Words
  <2>4. SlotKey(1, i) \in Settings!Keys /\ SlotKey(2, i) \in Settings!Keys
    BY <2>3, KeysAre
  <2>5. g[SlotKey(1, i)] > 0 /\ g[SlotKey(2, i)] > 0
    BY <1>2, <2>2, <2>3, <2>4
  <2>6. Settings!ReadSlot(g, Settings!Word, i) =
           <<g[SlotKey(1, i)], g[SlotKey(2, i)],
             OrZero(g[SlotKey(3, i)]), OrZero(g[SlotKey(4, i)])>>
    BY <1>2, <2>5, WordsAre
  <2>7. \A a, b, c, d : <<a, b, c, d>> # <<>>
    OBVIOUS
  <2> QED BY <2>6, <2>7
<1> QED BY <1>2, <1>4 DEF Settings!CountsWholeProfiles, Places, CountKey, Settings!Unused

\* Flash that holds the settings still holds them after a write of theirs
LEMMA SaveWriteKeeps ==
    ASSUME Settings!Bounds, NEW f \in Flashes, Settings!CountsWholeProfiles(f),
           NEW c, NEW k, IsHeldConfig(c, k), Settings!LoadedFrom(f) = c,
           NEW x \in Writes, IsSaveWrite(x, c, k),
           NEW g \in Flashes, g = [f EXCEPT ![x.key] = x.value],
           Settings!CountsWholeProfiles(g)
    PROVE  Settings!LoadedFrom(g) = c
<1>1. /\ IsHeldConfig(c, CountedIn(f))
      /\ c.timeout = Settings!TimeoutOr(f[TimeoutKey])
      /\ c.retries = Settings!RetriesOr(f[RetriesKey])
      /\ \A i \in 1 .. CountedIn(f) : c.profiles[i] = Settings!ReadSlot(f, Settings!Word, i)
  BY LoadIs
<1>2. ProfileSlots \in Nat /\ CountedIn(f) \in 0 .. ProfileSlots /\ k \in 0 .. ProfileSlots
  BY <1>1 DEF Settings!Bounds, IsHeldConfig
<1>3. CountedIn(f) = k
  <2>1. \A i \in Places : i <= k <=> i <= CountedIn(f)
    BY <1>1 DEF IsHeldConfig, IsUsedUpTo, Tables
  <2>2. \A i \in 1 .. ProfileSlots : i <= k <=> i <= CountedIn(f)
    BY <2>1 DEF Places
  <2> QED BY <1>2, <2>2
<1>4. \A key \in Settings!Keys : g[key] = IF key = x.key THEN x.value ELSE f[key]
  <2>1. x.key \in Settings!Keys
    BY DEF Writes
  <2> QED BY <2>1 DEF Flashes
<1>5. /\ x.key = TimeoutKey => x.value = c.timeout
      /\ x.key = RetriesKey => x.value = c.retries
      /\ x.key = CountKey => x.value = k
      /\ \A w \in Words, i \in Places : x.key = SlotKey(w, i) =>
            i \in 1 .. k /\ x.value = c.profiles[i][w]
  BY SaveWriteIs
<1>6. Settings!TimeoutOr(g[TimeoutKey]) = c.timeout
  <2>1. Settings!ValidTimeout(c.timeout)
    BY DEF IsHeldConfig
  <2> QED BY <1>1, <1>4, <1>5, <2>1, KeysAre DEF Settings!TimeoutOr
<1>7. Settings!RetriesOr(g[RetriesKey]) = c.retries
  <2>1. Settings!ValidRetries(c.retries)
    BY DEF IsHeldConfig
  <2> QED BY <1>1, <1>4, <1>5, <2>1, KeysAre DEF Settings!RetriesOr
<1>8. CountedIn(g) = k
  <2>1. CASE x.key = CountKey
    <3>1. g[CountKey] = k
      BY <1>4, <1>5, <2>1, KeysAre
    <3> QED BY <1>2, <3>1 DEF CountedIn, Absent
  <2>2. CASE x.key # CountKey
    <3>1. g[CountKey] = f[CountKey]
      BY <1>4, <2>2, KeysAre
    <3> QED BY <1>3, <3>1 DEF CountedIn
  <2> QED BY <2>1, <2>2
<1>9. ASSUME NEW i \in 1 .. k
      PROVE  Settings!ReadSlot(g, Settings!Word, i) = Settings!ReadSlot(f, Settings!Word, i)
  <2> DEFINE p == c.profiles[i]
             h(w) == f[SlotKey(w, i)]
             j(w) == g[SlotKey(w, i)]
  <2>1. i \in Places /\ p = Settings!ReadSlot(f, Settings!Word, i)
    BY <1>1, <1>2, <1>3 DEF Places
  <2>2. p # <<>>
    BY <1>2, <2>1 DEF IsHeldConfig, IsUsedUpTo, Tables
  <2>3. /\ h(1) > 0 /\ h(2) > 0
        /\ p = <<h(1), h(2), OrZero(h(3)), OrZero(h(4))>>
    BY <2>1, <2>2, WordsAre
  <2>4. p[1] = h(1) /\ p[2] = h(2) /\ p[3] = OrZero(h(3)) /\ p[4] = OrZero(h(4))
    <3> HIDE DEF h, p
    <3> QED BY <2>3
  <2>5. \A w \in Words : j(w) \in {h(w), p[w]}
    BY <1>4, <1>5, <2>1, KeysAre
  <2>6. p[3] # Absent /\ p[4] # Absent
    <3>1. p \in ProfileSet
      BY <2>1, <2>2, WordsAre
    <3> HIDE DEF p
    <3> QED BY <3>1 DEF ProfileSet, Absent
  <2>7. 1 \in Words /\ 2 \in Words /\ 3 \in Words /\ 4 \in Words
    BY DEF Words
  <2>8. /\ Settings!ReadSlot(g, Settings!Word, i) =
              IF j(1) > 0 /\ j(2) > 0
              THEN <<j(1), j(2), OrZero(j(3)), OrZero(j(4))>> ELSE <<>>
    BY <2>1, WordsAre
  <2> HIDE DEF p, h, j
  <2>9. j(1) = h(1) /\ j(2) = h(2)
    BY <2>4, <2>5, <2>7
  <2>10. OrZero(j(3)) = OrZero(h(3)) /\ OrZero(j(4)) = OrZero(h(4))
    BY <2>4, <2>5, <2>6, <2>7 DEF OrZero
  <2> QED BY <2>1, <2>3, <2>8, <2>9, <2>10
<1>10. Settings!LoadedFrom(g) = Settings!LoadedFrom(f)
  BY <1>1, <1>3, <1>6, <1>7, <1>8, <1>9, LoadsAlike
<1> QED BY <1>10
-----------------------------------------------------------------------------
(* Repairs and migrations                                                  *)

LEMMA LegacyKeysAre ==
    ASSUME NEW w \in Words, NEW i \in Places
    PROVE  /\ SlotKey(w, i) \notin {Settings!Key("legacy count"), Settings!Key("legacy timeout"),
                                    Settings!Key("legacy retries"), <<Settings!Legacy[1], 1>>}
<1>1. i # 0
  BY DEF Places
<1>2. Settings!Word[w] # "legacy k"
  <2>1. w \in {1, 2, 3, 4}
    BY DEF Words
  <2>2. /\ Settings!Word[1] = "k" /\ Settings!Word[2] = "c" /\ Settings!Word[3] = "i"
        /\ Settings!Word[4] = "r"
    BY DEF Settings!Word
  <2>3. "legacy k" \notin {"k", "c", "i", "r"}
    OBVIOUS
  <2> QED BY <2>1, <2>2, <2>3
<1>3. Settings!Legacy[1] = "legacy k"
  BY DEF Settings!Legacy
<1> QED BY <1>1, <1>2, <1>3 DEF SlotKey, Settings!Key

\* A flash that needs no migration does not come to need one by being written to
LEMMA SettledStays ==
    ASSUME NEW f \in Flashes, Settles(f), NEW x \in Writes,
           \/ x.key \in {TimeoutKey, RetriesKey, CountKey}
           \/ x.key = SchemaKey /\ x.value = Settings!CurrentSchema
           \/ \E w \in Words, i \in Places : x.key = SlotKey(w, i),
           NEW g, g = [f EXCEPT ![x.key] = x.value]
    PROVE  Settles(g)
<1>1. x.key \in Settings!Keys /\ x.value \in Nat /\ x.value # Absent
  BY DEF Writes, Absent
<1>2. \A key : key # x.key => g[key] = f[key]
  BY DEF Flashes
<1>3. g[x.key] = x.value
  BY <1>1 DEF Flashes
<1>4. CASE x.key = SchemaKey
  <2>1. g[SchemaKey] = 3
    BY <1>3, <1>4, KeysAre DEF Settings!CurrentSchema
  <2> QED
    BY <2>1 DEF Settles, Settings!Schema, Settings!NeedsRepair, SchemaKey, Settings!Absent,
                Settings!CurrentSchema
<1>5. CASE x.key # SchemaKey
  <2>1. g[SchemaKey] = f[SchemaKey]
    BY <1>2, <1>5
  <2>2. Settings!NeedsRepair(g) <=> Settings!NeedsRepair(f)
    BY <2>1 DEF Settings!NeedsRepair, SchemaKey
  <2>3. CASE ~ Settings!NeedsRepair(f)
    BY <2>1, <2>2, <2>3 DEF Settles, Settings!Schema, SchemaKey
  <2>4. CASE Settings!NeedsRepair(f)
    <3>1. CASE Settings!HasCurrentKeys(g)
      BY <2>2, <2>4, <3>1 DEF Settles, Settings!Schema
    <3>2. CASE ~ Settings!HasCurrentKeys(g)
      <4>1. \A key : Settings!Has(f, key) => Settings!Has(g, key)
        BY <1>1, <1>2, <1>3 DEF Settings!Has, Settings!Absent, Absent
      <4>2. ~ Settings!HasCurrentKeys(f)
        BY <3>2, <4>1 DEF Settings!HasCurrentKeys
      <4>3. Settings!Schema(f) = 0
        BY <2>4, <4>2 DEF Settles, Settings!Schema, Settings!CurrentSchema
      <4>4. ~ Settings!HasLegacyV2Keys(f) /\ ~ Settings!HasLegacyV1Keys(f)
        BY <2>4, <4>2, <4>3 DEF Settings!Schema, Settings!CurrentSchema
      <4>5. x.key \notin {Settings!Key("legacy count"), Settings!Key("legacy timeout"),
                          Settings!Key("legacy retries"), <<Settings!Legacy[1], 1>>}
        <5>1. CASE x.key \in {TimeoutKey, RetriesKey, CountKey}
          <6>1. PICK name \in {"timeout", "retries", "count"} : x.key = <<name, 0>>
            BY <5>1 DEF TimeoutKey, RetriesKey, CountKey, Settings!Key
          <6>2. name \notin {"legacy count", "legacy timeout", "legacy retries"}
            OBVIOUS
          <6>3. /\ <<name, 0>> # <<"legacy count", 0>> /\ <<name, 0>> # <<"legacy timeout", 0>>
                /\ <<name, 0>> # <<"legacy retries", 0>>
            BY <6>2
          <6>4. <<name, 0>> # <<Settings!Legacy[1], 1>>
            OBVIOUS
          <6> QED BY <6>1, <6>3, <6>4 DEF Settings!Key
        <5>2. CASE \E w \in Words, i \in Places : x.key = SlotKey(w, i)
          BY <5>2, LegacyKeysAre
        <5> QED BY <1>5, <5>1, <5>2
      <4>6. ~ Settings!HasLegacyV2Keys(g) /\ ~ Settings!HasLegacyV1Keys(g)
        BY <1>2, <4>4, <4>5
        DEF Settings!HasLegacyV2Keys, Settings!HasLegacyV1Keys, Settings!Has
      <4> QED BY <2>2, <2>4, <3>2, <4>6 DEF Settles, Settings!Schema
    <3> QED BY <3>1, <3>2
  <2> QED BY <2>3, <2>4
<1> QED BY <1>4, <1>5

\* A repair of the schema's key does not change what is loaded
LEMMA RepairIs ==
    ASSUME Settings!Bounds, NEW f \in Flashes, Settles(f), Settings!CountsWholeProfiles(f)
    PROVE  /\ Settings!LoadWrites(f) \in
                 {<<>>, Settings!Put("schema", Settings!CurrentSchema)}
           /\ Settings!LoadWrites(f) \in Seq(Writes)
           /\ Settings!LoadedFrom(Settings!After(f, Settings!LoadWrites(f))) =
                 Settings!LoadedFrom(f)
           /\ Settings!CountsWholeProfiles(Settings!After(f, Settings!LoadWrites(f)))
<1> DEFINE q == Settings!LoadWrites(f)
           g == Settings!After(f, q)
           r == Settings!Put("schema", Settings!CurrentSchema)
<1>1. q \in {<<>>, r}
  BY DEF Settles, Settings!LoadWrites, Settings!CurrentSchema
<1>2. r \in Seq(Writes) /\ All(r) = {One(SchemaKey, Settings!CurrentSchema)}
  <2>1. Settings!Key("schema") \in Settings!Keys /\ Settings!CurrentSchema \in Nat
    BY KeysAre DEF SchemaKey, Settings!CurrentSchema
  <2> QED BY <2>1, PutIsOne DEF SchemaKey
<1> HIDE DEF q, r
<1>3. q \in Seq(Writes) /\ \A x \in All(q) : x.key = SchemaKey
  <2>1. CASE q = r
    BY <1>2, <2>1 DEF One
  <2>2. CASE q = <<>>
    BY <2>2 DEF All
  <2> QED BY <1>1, <2>1, <2>2
<1>4. g \in Flashes
  BY <1>3, AfterIs
<1>5. \A key \in Settings!Keys : key # SchemaKey => g[key] = f[key]
  BY <1>3, AfterNone
<1> HIDE DEF g
<1>6. /\ g[TimeoutKey] = f[TimeoutKey] /\ g[RetriesKey] = f[RetriesKey]
      /\ g[CountKey] = f[CountKey]
      /\ \A w \in Words, i \in Places : g[SlotKey(w, i)] = f[SlotKey(w, i)]
  BY <1>5, KeysAre
<1>7. \A i \in Places : Settings!ReadSlot(g, Settings!Word, i) =
                        Settings!ReadSlot(f, Settings!Word, i)
  <2>1. 1 \in Words /\ 2 \in Words /\ 3 \in Words /\ 4 \in Words
    BY DEF Words
  <2> QED BY <1>4, <1>6, <2>1, WordsAre
<1>8. Settings!CountsWholeProfiles(g)
  BY <1>6, <1>7 DEF Settings!CountsWholeProfiles, Places, CountKey
<1>9. CountedIn(g) = CountedIn(f) /\ \A i \in 1 .. CountedIn(f) : i \in Places
  <2>1. CountedIn(g) = CountedIn(f)
    BY <1>6 DEF CountedIn
  <2>2. CountedIn(f) \in 0 .. ProfileSlots /\ ProfileSlots \in Nat
    BY LoadIs DEF IsHeldConfig, Settings!Bounds
  <2> QED BY <2>1, <2>2 DEF Places
<1>10. Settings!LoadedFrom(g) = Settings!LoadedFrom(f)
  BY <1>4, <1>6, <1>7, <1>8, <1>9, LoadsAlike
<1> QED BY <1>1, <1>3, <1>8, <1>10 DEF g, q, r

\* What a migration writes keeps what is counted whole, and ends with the schema
IsMigration(q) ==
    /\ q \in Seq(Writes) /\ q # <<>> /\ Ordered(q) /\ Named(q)
    /\ q[Len(q)] = One(SchemaKey, Settings!CurrentSchema)
    /\ \/ \A x \in All(q) : /\ x.key # CountKey
                            /\ \A w \in Words, i \in Places : x.key # SlotKey(w, i)
       \/ \E used \in Seq(ProfileSet) :
             /\ Len(used) <= ProfileSlots
             /\ \A x : IsProfileWrite(x, used, Len(used)) => x \in All(q)
             /\ \A x \in All(q) : \/ IsProfileWrite(x, used, Len(used))
                                  \/ x.key \in {TimeoutKey, RetriesKey, SchemaKey}

\* The profiles of the second schema that a migration copies
LegacyOf(f) ==
    LET count == Settings!Lesser(f[Settings!Key("legacy count")], ProfileSlots)
    IN [i \in 1 .. (IF count = Absent THEN 0 ELSE count) |->
            Settings!ReadSlot(f, Settings!Legacy, i)]
Copied(f) == Settings!UsedOf(LegacyOf(f))

LEMMA CopiedAre ==
    ASSUME Settings!Bounds, NEW f \in Flashes
    PROVE  /\ Copied(f) \in Seq(ProfileSet)
           /\ Len(Copied(f)) \in Nat /\ Len(Copied(f)) <= ProfileSlots
           /\ Settings!MigrateV2(f) =
                 IF f[CountKey] > 0 THEN Settings!Put("schema", Settings!CurrentSchema)
                 ELSE Settings!WriteProfiles(Copied(f))
                      \o Settings!Put("schema", Settings!CurrentSchema)
<1> DEFINE legacyCount == Settings!Lesser(f[Settings!Key("legacy count")], ProfileSlots)
           n == IF legacyCount = Absent THEN 0 ELSE legacyCount
           legacy == [i \in 1 .. n |-> Settings!ReadSlot(f, Settings!Legacy, i)]
<1>1. ProfileSlots \in Nat \ {0}
  BY DEF Settings!Bounds
<1>2. n \in Nat /\ n <= ProfileSlots
  <2>1. Settings!Key("legacy count") \in Settings!Keys
    <3> DEFINE Names == {"schema", "timeout", "retries", "count",
                         "legacy timeout", "legacy retries", "legacy count"}
    <3>1. Names \X {0} \subseteq Settings!Keys
      BY DEF Settings!Keys
    <3>2. "legacy count" \in Names
      OBVIOUS
    <3> HIDE DEF Names
    <3> QED BY <3>1, <3>2 DEF Settings!Key
  <2>2. f[Settings!Key("legacy count")] \in Nat \cup {Absent}
    BY <2>1 DEF Flashes
  <2>3. legacyCount \in {f[Settings!Key("legacy count")], ProfileSlots}
        /\ legacyCount <= ProfileSlots
    <3> DEFINE v == f[Settings!Key("legacy count")]
    <3> HIDE DEF v
    <3>1. v \in Nat \cup {Absent} => Settings!Lesser(v, ProfileSlots) \in {v, ProfileSlots}
                                  /\ Settings!Lesser(v, ProfileSlots) <= ProfileSlots
      BY <1>1 DEF Settings!Lesser, Absent
    <3> QED BY <2>2, <3>1 DEF v
  <2> HIDE DEF legacyCount
  <2>4. legacyCount \in Nat \cup {Absent}
    BY <1>1, <2>2, <2>3
  <2>5. CASE legacyCount = Absent
    <3>1. n = 0
      BY <2>5
    <3> HIDE DEF n
    <3> QED BY <1>1, <3>1
  <2>6. CASE legacyCount # Absent
    <3>1. n = legacyCount
      BY <2>6
    <3>2. legacyCount \in Nat /\ legacyCount <= ProfileSlots
      BY <2>3, <2>4, <2>6
    <3> HIDE DEF n
    <3> QED BY <3>1, <3>2
  <2> QED BY <2>5, <2>6
<1>3. legacy \in [1 .. n -> ProfileSet \cup {<<>>}]
  <2>1. \A i \in 1 .. n : i \in Places
    <3> HIDE DEF n
    <3> QED BY <1>1, <1>2 DEF Places
  <2> HIDE DEF n
  <2> QED BY <2>1, LegacyWordsAre
<1>4. legacy = LegacyOf(f)
  BY DEF LegacyOf
<1>5. Settings!MigrateV2(f) =
         IF f[CountKey] > 0 THEN Settings!Put("schema", Settings!CurrentSchema)
         ELSE Settings!WriteProfiles(Copied(f))
              \o Settings!Put("schema", Settings!CurrentSchema)
  BY DEF Settings!MigrateV2, CountKey, Settings!Absent, Absent, Copied, LegacyOf
<1> HIDE DEF legacy, n
<1>6. Copied(f) \in Seq(ProfileSet) /\ Len(Copied(f)) <= n
  BY <1>2, <1>3, <1>4, UsedIs DEF Copied
<1> QED BY <1>1, <1>2, <1>5, <1>6

LEMMA MigrateV2Is ==
    ASSUME Settings!Bounds, NEW f \in Flashes
    PROVE  IsMigration(Settings!MigrateV2(f))
<1> DEFINE used == Copied(f)
           p == Settings!WriteProfiles(used)
           r == Settings!Put("schema", Settings!CurrentSchema)
           last == One(SchemaKey, Settings!CurrentSchema)
           q == Settings!MigrateV2(f)
<1>1. ProfileSlots \in Nat \ {0}
  BY DEF Settings!Bounds
<1>2. q = IF f[CountKey] > 0 THEN r ELSE p \o r
  BY CopiedAre
<1>3. used \in Seq(ProfileSet)
  BY CopiedAre
<1>4. Len(used) \in Nat /\ Len(used) <= ProfileSlots
  BY CopiedAre
<1> HIDE DEF used
<1>5. /\ p \in Seq(Writes) /\ p # <<>> /\ Ordered(p)
      /\ \A x : x \in All(p) <=> IsProfileWrite(x, used, Len(used))
  BY <1>1, <1>3, <1>4, ProfileWritesAre
<1>6. /\ r \in Seq(Writes) /\ r # <<>> /\ All(r) = {last} /\ Len(r) = 1 /\ r[1] = last
      /\ Ordered(r)
  <2>1. Settings!Key("schema") \in Settings!Keys /\ Settings!CurrentSchema \in Nat
    BY KeysAre DEF SchemaKey, Settings!CurrentSchema
  <2> QED BY <2>1, PutIsOne DEF SchemaKey
<1>7. /\ last.key = SchemaKey /\ last.key # CountKey
      /\ \A w \in Words, i \in Places : last.key # SlotKey(w, i)
  BY KeysAre DEF One
<1> SUFFICES IsMigration(q)
  OBVIOUS
<1> HIDE DEF p, r, q, last
<1>8. CASE f[CountKey] > 0
  <2>1. q = r
    BY <1>2, <1>8
  <2>2. Named(r)
    <3>1. \A w \in 1 .. 2 : w \in Words
      BY DEF Words
    <3> QED BY <1>6, <1>7, <3>1 DEF Named
  <2>3. r[Len(r)] = last
    BY <1>6
  <2>4. \A x \in All(r) : /\ x.key # CountKey
                          /\ \A w \in Words, i \in Places : x.key # SlotKey(w, i)
    BY <1>6, <1>7
  <2>5. IsMigration(r)
    BY <1>6, <2>2, <2>3, <2>4 DEF IsMigration, last
  <2> QED BY <2>1, <2>5
<1>9. CASE ~ (f[CountKey] > 0)
  <2>1. q = p \o r
    BY <1>2, <1>9
  <2>2. /\ q \in Seq(Writes) /\ All(q) = All(p) \cup {last} /\ q # <<>>
        /\ q[Len(q)] = r[Len(r)] /\ Ordered(q)
    BY <1>5, <1>6, <1>7, <2>1, ConcatIs
  <2>3. q[Len(q)] = last
    BY <1>6, <2>2
  <2>4. Named(q)
    <3> SUFFICES ASSUME NEW x \in All(q), NEW w \in 1 .. 2, NEW i \in Places,
                        x.key = SlotKey(w, i)
                 PROVE  x.value > 0
      BY DEF Named
    <3>1. w \in Words /\ w \in {1, 2}
      BY DEF Words
    <3>2. x \in All(p)
      BY <1>7, <2>2, <3>1
    <3>3. IsProfileWrite(x, used, Len(used))
      BY <1>5, <3>2
    <3>4. x # One(CountKey, Len(used))
      BY <3>1, KeysAre DEF One
    <3>5. i \in 1 .. Len(used) /\ x.value = used[i][w]
      BY <1>1, <1>4, <3>1, <3>3, <3>4, SlotWriteIs DEF IsProfileWrite
    <3>6. used[i] \in ProfileSet
      BY <1>3, <3>5
    <3> QED BY <3>1, <3>5, <3>6 DEF ProfileSet
  <2>5. \A x \in All(q) : \/ IsProfileWrite(x, used, Len(used))
                          \/ x.key \in {TimeoutKey, RetriesKey, SchemaKey}
    BY <1>5, <1>7, <2>2
  <2>6. \A x : IsProfileWrite(x, used, Len(used)) => x \in All(q)
    BY <1>5, <2>2
  <2>7. \E u \in Seq(ProfileSet) :
           /\ Len(u) <= ProfileSlots
           /\ \A x : IsProfileWrite(x, u, Len(u)) => x \in All(q)
           /\ \A x \in All(q) : \/ IsProfileWrite(x, u, Len(u))
                                \/ x.key \in {TimeoutKey, RetriesKey, SchemaKey}
    BY <1>3, <1>4, <2>5, <2>6
  <2> QED BY <2>2, <2>3, <2>4, <2>7 DEF IsMigration, last
<1> QED BY <1>8, <1>9

LEMMA LoadMigrates ==
    ASSUME Settings!Bounds, NEW f \in Flashes, Settings!Schema(f) \in {1, 2}
    PROVE  IsMigration(Settings!LoadWrites(f))
<1> DEFINE q == Settings!MigrateV2(f)
           a == Settings!TimeoutOr(Settings!FirstOf(f, "legacy timeout", "timeout"))
           b == Settings!RetriesOr(Settings!FirstOf(f, "legacy retries", "retries"))
           p1 == Settings!Put("timeout", a)
           p2 == Settings!Put("retries", b)
           p3 == Settings!Put("schema", 2)
           p == (p1 \o p2) \o p3
<1>1. IsMigration(q)
  BY MigrateV2Is
<1>2. Settings!Schema(f) = 2 => Settings!LoadWrites(f) = q
  BY DEF Settings!LoadWrites
<1>3. Settings!Schema(f) = 1 => Settings!LoadWrites(f) = p \o q
  <2>1. Settings!MigrateV1(f) = p
    BY DEF Settings!MigrateV1
  <2>2. Settings!Schema(f) = 1 => Settings!LoadWrites(f) = Settings!MigrateV1(f) \o q
    BY DEF Settings!LoadWrites
  <2> HIDE DEF p, q
  <2> QED BY <2>1, <2>2
<1>4. a \in Nat /\ b \in Nat
  <2>1. /\ Settings!ValidTimeout(DefaultTimeout) /\ Settings!ValidRetries(DefaultRetries)
        /\ MaxRetries \in Nat
    BY DEF Settings!Bounds
  <2>2. \A v : Settings!ValidTimeout(Settings!TimeoutOr(v))
    BY <2>1 DEF Settings!TimeoutOr
  <2>3. \A v : Settings!ValidRetries(Settings!RetriesOr(v))
    BY <2>1 DEF Settings!RetriesOr
  <2>4. Settings!ValidTimeout(a) /\ Settings!ValidRetries(b)
    BY <2>2, <2>3
  <2> HIDE DEF a, b
  <2> QED BY <2>1, <2>4 DEF Settings!ValidTimeout, Settings!ValidRetries
<1> HIDE DEF a, b, q
<1>5. /\ p1 \in Seq(Writes) /\ All(p1) = {One(TimeoutKey, a)}
      /\ p2 \in Seq(Writes) /\ All(p2) = {One(RetriesKey, b)}
      /\ p3 \in Seq(Writes) /\ All(p3) = {One(SchemaKey, 2)}
  <2>1. /\ Settings!Key("timeout") \in Settings!Keys /\ Settings!Key("retries") \in Settings!Keys
        /\ Settings!Key("schema") \in Settings!Keys
    BY KeysAre DEF TimeoutKey, RetriesKey, SchemaKey
  <2> QED BY <1>4, <2>1, PutIsOne DEF TimeoutKey, RetriesKey, SchemaKey
<1> HIDE DEF p1, p2, p3
<1>6. p1 \o p2 \in Seq(Writes) /\ All(p1 \o p2) = All(p1) \cup All(p2)
  BY <1>5, ConcatIs
<1>7. p \in Seq(Writes) /\ All(p) = (All(p1) \cup All(p2)) \cup All(p3)
  BY <1>5, <1>6, ConcatIs
<1> HIDE DEF p
<1>8. \A x \in All(p) : x.key \in {TimeoutKey, RetriesKey, SchemaKey}
  BY <1>5, <1>7 DEF One
<1>9. /\ \A x \in All(p) : x.key # CountKey
      /\ \A x \in All(p), w \in Words, i \in Places : x.key # SlotKey(w, i)
  BY <1>8, KeysAre
<1>10. IsMigration(p \o q)
  <2>1. /\ q \in Seq(Writes) /\ q # <<>> /\ Ordered(q) /\ Named(q)
        /\ q[Len(q)] = One(SchemaKey, Settings!CurrentSchema)
    BY <1>1 DEF IsMigration
  <2>2. /\ p \o q \in Seq(Writes) /\ All(p \o q) = All(p) \cup All(q) /\ p \o q # <<>>
        /\ (p \o q)[Len(p \o q)] = q[Len(q)] /\ Ordered(p \o q)
    BY <1>7, <1>9, <2>1, ConcatIs
  <2> DEFINE r == p \o q
  <2> HIDE DEF r
  <2>3. Named(r)
    <3>1. \A w \in 1 .. 2 : w \in Words
      BY DEF Words
    <3> QED BY <1>9, <2>1, <2>2, <3>1 DEF Named, r
  <2>4. r \in Seq(Writes) /\ All(r) = All(p) \cup All(q) /\ r # <<>>
        /\ r[Len(r)] = One(SchemaKey, Settings!CurrentSchema) /\ Ordered(r)
    BY <2>1, <2>2 DEF r
  <2>5. CASE \A x \in All(q) : /\ x.key # CountKey
                               /\ \A w \in Words, i \in Places : x.key # SlotKey(w, i)
    <3>1. \A x \in All(r) : /\ x.key # CountKey
                            /\ \A w \in Words, i \in Places : x.key # SlotKey(w, i)
      BY <1>9, <2>4, <2>5
    <3>2. IsMigration(r)
      BY <2>3, <2>4, <3>1 DEF IsMigration
    <3> QED BY <3>2 DEF r
  <2>6. ASSUME NEW used \in Seq(ProfileSet), Len(used) <= ProfileSlots,
               \A x : IsProfileWrite(x, used, Len(used)) => x \in All(q),
               \A x \in All(q) : \/ IsProfileWrite(x, used, Len(used))
                                 \/ x.key \in {TimeoutKey, RetriesKey, SchemaKey}
        PROVE  IsMigration(p \o q)
    <3>1. \A x \in All(r) : \/ IsProfileWrite(x, used, Len(used))
                            \/ x.key \in {TimeoutKey, RetriesKey, SchemaKey}
      BY <1>8, <2>4, <2>6
    <3>2. \A x : IsProfileWrite(x, used, Len(used)) => x \in All(r)
      BY <2>4, <2>6
    <3>3. IsMigration(r)
      BY <2>3, <2>4, <2>6, <3>1, <3>2 DEF IsMigration
    <3> QED BY <3>3 DEF r
  <2> QED BY <1>1, <2>5, <2>6 DEF IsMigration
<1> QED BY <1>1, <1>2, <1>3, <1>10

\* After a migration what is counted is whole, and the schema is the current one
LEMMA AfterMigration ==
    ASSUME Settings!Bounds, NEW f \in Flashes, Settings!CountsWholeProfiles(f),
           NEW q, IsMigration(q)
    PROVE  /\ Settings!After(f, q)[SchemaKey] = Settings!CurrentSchema
           /\ Settings!CountsWholeProfiles(Settings!After(f, q))
<1> DEFINE g == Settings!After(f, q)
<1>1. /\ q \in Seq(Writes) /\ q # <<>>
      /\ q[Len(q)] = One(SchemaKey, Settings!CurrentSchema)
  BY DEF IsMigration
<1>2. g \in Flashes
  BY <1>1, AfterIs
<1>3. g[SchemaKey] = Settings!CurrentSchema
  <2> DEFINE n == Len(q)
  <2>1. n \in DOMAIN q /\ \A m \in DOMAIN q : ~ (m > n)
    BY <1>1
  <2>2. q[n].key = SchemaKey /\ q[n].value = Settings!CurrentSchema
    BY <1>1 DEF One
  <2>3. SchemaKey \in Settings!Keys
    BY KeysAre
  <2> HIDE DEF n
  <2> QED BY <1>1, <2>1, <2>2, <2>3, AfterLast
<1> SUFFICES Settings!CountsWholeProfiles(g)
  BY <1>3
<1>4. CASE \A x \in All(q) : /\ x.key # CountKey
                             /\ \A w \in Words, i \in Places : x.key # SlotKey(w, i)
  <2>1. /\ g[CountKey] = f[CountKey]
        /\ \A w \in Words, i \in Places : g[SlotKey(w, i)] = f[SlotKey(w, i)]
    BY <1>4, AfterNone, KeysAre
  <2> HIDE DEF g
  <2>2. \A i \in Places : Settings!ReadSlot(g, Settings!Word, i) =
                          Settings!ReadSlot(f, Settings!Word, i)
    <3>1. 1 \in Words /\ 2 \in Words /\ 3 \in Words /\ 4 \in Words
      BY DEF Words
    <3> QED BY <1>2, <2>1, <3>1, WordsAre
  <2> QED BY <2>1, <2>2 DEF Settings!CountsWholeProfiles, Places, CountKey
<1>5. ASSUME NEW used \in Seq(ProfileSet), Len(used) <= ProfileSlots,
             \A x : IsProfileWrite(x, used, Len(used)) => x \in All(q),
             \A x \in All(q) : \/ IsProfileWrite(x, used, Len(used))
                               \/ x.key \in {TimeoutKey, RetriesKey, SchemaKey}
      PROVE  Settings!CountsWholeProfiles(g)
  <2> DEFINE n == Len(used)
  <2>1. n \in Nat /\ n <= ProfileSlots /\ ProfileSlots \in Nat
    BY <1>5 DEF Settings!Bounds
  <2>2. \A i \in 1 .. n : used[i] \in ProfileSet
    OBVIOUS
  <2> HIDE DEF n
  <2>3. g[CountKey] = n
    <3> DEFINE x == One(CountKey, n)
    <3>1. x \in All(q) /\ x.key = CountKey /\ x.value = n
      BY <1>5 DEF IsProfileWrite, One, n
    <3>2. \A y \in All(q) : y.key = CountKey => y.value = n
      <4> SUFFICES ASSUME NEW y \in All(q), y.key = CountKey PROVE y.value = n
        OBVIOUS
      <4>1. IsProfileWrite(y, used, n)
        BY <1>5, KeysAre DEF n
      <4>2. ~ IsSlotWrite(y, used, n)
        BY <2>1, SlotWriteIs
      <4>3. y = One(CountKey, n)
        BY <4>1, <4>2 DEF IsProfileWrite
      <4> QED BY <4>3 DEF One
    <3> HIDE DEF x
    <3> QED BY <1>1, <3>1, <3>2, AfterAll
  <2>4. ASSUME NEW i \in 1 .. n, NEW w \in Words PROVE g[SlotKey(w, i)] = used[i][w]
    <3> DEFINE x == One(SlotKey(w, i), used[i][w])
    <3>1. i \in Places
      BY <2>1 DEF Places
    <3>2. x \in All(q) /\ x.key = SlotKey(w, i) /\ x.value = used[i][w]
      BY <1>5 DEF IsProfileWrite, IsSlotWrite, One, n
    <3>3. \A y \in All(q) : y.key = SlotKey(w, i) => y.value = used[i][w]
      <4> SUFFICES ASSUME NEW y \in All(q), y.key = SlotKey(w, i) PROVE y.value = used[i][w]
        OBVIOUS
      <4>1. y.key \notin {CountKey, SchemaKey, TimeoutKey, RetriesKey}
        BY <3>1, KeysAre
      <4>2. IsProfileWrite(y, used, n) /\ y # One(CountKey, n)
        BY <1>5, <4>1 DEF n, One
      <4>3. IsSlotWrite(y, used, n)
        BY <4>2 DEF IsProfileWrite
      <4> QED BY <2>1, <3>1, <4>3, SlotWriteIs
    <3> HIDE DEF x
    <3> QED BY <1>1, <3>2, <3>3, AfterAll
  <2> HIDE DEF g
  <2> SUFFICES ASSUME NEW i \in Places, i <= n
               PROVE  Settings!ReadSlot(g, Settings!Word, i) # <<>>
    BY <2>3 DEF Settings!CountsWholeProfiles, Places, CountKey, Settings!Unused
  <2>5. i \in 1 .. n /\ 1 \in Words /\ 2 \in Words
    BY <2>1 DEF Places, Words
  <2>6. g[SlotKey(1, i)] > 0 /\ g[SlotKey(2, i)] > 0
    BY <2>2, <2>4, <2>5 DEF ProfileSet
  <2>7. Settings!ReadSlot(g, Settings!Word, i) =
           <<g[SlotKey(1, i)], g[SlotKey(2, i)],
             OrZero(g[SlotKey(3, i)]), OrZero(g[SlotKey(4, i)])>>
    BY <1>2, <2>6, WordsAre
  <2>8. \A a, b, c, d : <<a, b, c, d>> # <<>>
    OBVIOUS
  <2> QED BY <2>7, <2>8
<1> QED BY <1>4, <1>5 DEF IsMigration

-----------------------------------------------------------------------------
(* Settings that are kept                                                  *)

\* Flash counts whole profiles only, and still will when all is written
Whole(f, q) ==
    /\ f \in Flashes /\ Settings!CountsWholeProfiles(f)
    /\ q \in Seq(Writes) /\ Ordered(q) /\ Named(q)
    /\ Settings!CountsWholeProfiles(Settings!After(f, q))

\* What is written is what is held, or repairs the schema's key, or migrates; settings
\* that are not dirty are in flash, even while they are being written again
Tracks(f, q, c, isDirty, what) ==
    /\ what \in {"idle", "saving", "repairing"} => Settles(f)
    /\ what \in {"idle", "saving"} /\ ~ isDirty => Settings!LoadedFrom(f) = c
    /\ what = "repairing" => \A x \in All(q) : x = One(SchemaKey, Settings!CurrentSchema)
    /\ what = "migrating" => Settings!After(f, q)[SchemaKey] = Settings!CurrentSchema
    /\ what = "saving" =>
          /\ Settings!LoadedFrom(Settings!After(f, q)) = c
          /\ \E k : IsHeldConfig(c, k) /\ \A x \in All(q) : IsSaveWrite(x, c, k)

SettingsTypes ==
    /\ \A c \in since : Settings!IsConfig(c)
    /\ unsaved \in BOOLEAN /\ failed \in BOOLEAN
    /\ doing \in {"off", "migrating", "repairing", "idle", "saving", "halted"}
    /\ Len(changes) <= QueueBound /\ Len(profiles) <= QueueBound
    /\ requests \in 0 .. MaxRequests /\ faults \in 0 .. MaxFaults

Held == \E k : IsHeldConfig(config, k)
Stored == Whole(flash, todo) /\ Tracks(flash, todo, config, unsaved, doing)

KeptInv == Held /\ Stored /\ SettingsTypes

LEMMA HeldIsConfig ==
    ASSUME NEW c, NEW k, IsHeldConfig(c, k)
    PROVE  Settings!IsConfig(c)
  BY DEF IsHeldConfig, Settings!IsConfig, Tables, Places

LEMMA WholeAlike ==
    ASSUME NEW f \in Flashes, NEW g \in Flashes, Settings!CountsWholeProfiles(f),
           g[CountKey] = f[CountKey],
           \A w \in Words, i \in Places : g[SlotKey(w, i)] = f[SlotKey(w, i)]
    PROVE  Settings!CountsWholeProfiles(g)
<1>1. 1 \in Words /\ 2 \in Words /\ 3 \in Words /\ 4 \in Words
  BY DEF Words
<1>2. \A i \in Places : Settings!ReadSlot(g, Settings!Word, i) =
                        Settings!ReadSlot(f, Settings!Word, i)
  BY <1>1, WordsAre
<1> QED BY <1>2 DEF Settings!CountsWholeProfiles, Places, CountKey

LEMMA WholeBefore ==
    ASSUME NEW f \in Flashes, NEW q \in Seq(Writes), \A x \in All(q) : x.key = SchemaKey,
           Settings!CountsWholeProfiles(Settings!After(f, q))
    PROVE  Settings!CountsWholeProfiles(f)
<1> DEFINE g == Settings!After(f, q)
<1>1. g \in Flashes /\ Settings!CountsWholeProfiles(g)
  BY AfterIs
<1>2. \A key \in Settings!Keys : key # SchemaKey => g[key] = f[key]
  BY AfterNone
<1> HIDE DEF g
<1>3. /\ f[CountKey] = g[CountKey]
      /\ \A w \in Words, i \in Places : f[SlotKey(w, i)] = g[SlotKey(w, i)]
  BY <1>2, KeysAre
<1> QED BY <1>1, <1>3, WholeAlike

LEMMA NothingIsWhole ==
    ASSUME NEW f \in Flashes, Settings!CountsWholeProfiles(f)
    PROVE  Whole(f, <<>>)
<1>1. <<>> \in Seq(Writes) /\ All(<<>>) = {} /\ DOMAIN <<>> = {}
  BY DEF All
<1>2. Ordered(<<>>) /\ Named(<<>>)
  BY <1>1 DEF Ordered, Named
<1>3. Settings!After(f, <<>>) = f
  BY AfterNothing
<1> QED BY <1>1, <1>2, <1>3 DEF Whole

LEMMA TailIs ==
    ASSUME NEW q \in Seq(Writes), q # <<>>
    PROVE  /\ Head(q) \in All(q) /\ Tail(q) \in Seq(Writes) /\ All(Tail(q)) \subseteq All(q)
           /\ Ordered(q) => Ordered(Tail(q))
           /\ Ordered(q) /\ Head(q).key = CountKey => \A x \in All(Tail(q)) : x.key = SchemaKey
           /\ Named(q) => Named(Tail(q))
<1> DEFINE p == Tail(q)
<1>1. /\ Len(q) \in Nat \ {0} /\ DOMAIN q = 1 .. Len(q) /\ Head(q) = q[1]
      /\ p \in Seq(Writes) /\ DOMAIN p = 1 .. Len(q) - 1
      /\ \A m \in DOMAIN p : p[m] = q[m + 1]
  OBVIOUS
<1> HIDE DEF p
<1>2. 1 \in DOMAIN q /\ \A m \in DOMAIN p : m + 1 \in DOMAIN q /\ 1 < m + 1 /\ p[m] = q[m + 1]
  BY <1>1
<1>3. Head(q) \in All(q) /\ All(p) \subseteq All(q)
  BY <1>1, <1>2 DEF All
<1>4. \A m, n \in DOMAIN p : m < n => m + 1 < n + 1
  BY <1>1
<1>5. Ordered(q) => Ordered(p)
  BY <1>2, <1>4 DEF Ordered
<1>6. Ordered(q) /\ Head(q).key = CountKey => \A x \in All(p) : x.key = SchemaKey
  BY <1>1, <1>2 DEF Ordered, All
<1>7. Named(q) => Named(p)
  BY <1>3 DEF Named
<1> QED BY <1>1, <1>3, <1>5, <1>6, <1>7 DEF p

\* One write is made
LEMMA WriteIsWhole ==
    ASSUME Settings!Bounds, NEW f, NEW q, Whole(f, q), q # <<>>,
           NEW g, g = [f EXCEPT ![Head(q).key] = Head(q).value]
    PROVE  Whole(g, Tail(q)) /\ Settings!After(g, Tail(q)) = Settings!After(f, q)
<1> DEFINE x == Head(q)
           p == Tail(q)
<1>1. /\ f \in Flashes /\ Settings!CountsWholeProfiles(f)
      /\ q \in Seq(Writes) /\ Ordered(q) /\ Named(q)
      /\ Settings!CountsWholeProfiles(Settings!After(f, q))
  BY DEF Whole
<1>2. g \in Flashes /\ Settings!After(g, p) = Settings!After(f, q)
  BY <1>1, AfterTail
<1>3. /\ x \in All(q) /\ p \in Seq(Writes) /\ Ordered(p) /\ Named(p)
      /\ x.key = CountKey => \A y \in All(p) : y.key = SchemaKey
  BY <1>1, TailIs
<1>4. x \in Writes
  BY <1>1, <1>3, AllAre
<1>5. g = [f EXCEPT ![x.key] = x.value]
  OBVIOUS
<1> HIDE DEF x, p
<1>6. ASSUME x.key = CountKey PROVE Settings!CountsWholeProfiles(g)
  <2>1. \A y \in All(p) : y.key = SchemaKey
    BY <1>3, <1>6
  <2>2. Settings!CountsWholeProfiles(Settings!After(g, p))
    BY <1>1, <1>2
  <2> QED BY <1>2, <1>3, <2>1, <2>2, WholeBefore
<1>7. ASSUME x.key # CountKey PROVE Settings!CountsWholeProfiles(g)
  <2>1. \A w \in 1 .. 2, i \in Places : x.key = SlotKey(w, i) => x.value > 0
    BY <1>1, <1>3 DEF Named
  <2>2. ProfileSlots \in Nat
    BY DEF Settings!Bounds
  <2> QED BY <1>1, <1>4, <1>5, <1>7, <2>1, <2>2, WholeStays
<1>8. Whole(g, p)
  BY <1>1, <1>2, <1>3, <1>6, <1>7 DEF Whole
<1> QED BY <1>2, <1>8 DEF p

LEMMA SchemaIs ==
    ASSUME NEW f \in Flashes
    PROVE  /\ Settings!Schema(f) \in Nat
           /\ f[SchemaKey] = Settings!CurrentSchema => Settles(f)
<1>1. f[SchemaKey] \in Nat \cup {Absent}
  BY KeysAre DEF Flashes
<1>2. Settings!NeedsRepair(f) <=> f[SchemaKey] \in {Absent, 0}
  BY DEF Settings!NeedsRepair, SchemaKey, Settings!Absent, Absent
<1>3. CASE Settings!NeedsRepair(f)
  <2>1. f[SchemaKey] # 3
    BY <1>2, <1>3 DEF Absent
  <2>2. Settings!Schema(f) \in {3, 2, 1, 0}
    BY <1>3 DEF Settings!Schema, Settings!CurrentSchema
  <2> QED BY <2>1, <2>2 DEF Settings!CurrentSchema
<1>4. CASE ~ Settings!NeedsRepair(f)
  <2>1. Settings!Schema(f) = f[SchemaKey]
    BY <1>4 DEF Settings!Schema, SchemaKey
  <2> QED BY <1>1, <1>2, <1>4, <2>1 DEF Settles
<1> QED BY <1>3, <1>4

\* One write is made for the same purpose
LEMMA WriteTracks ==
    ASSUME Settings!Bounds, NEW f, NEW q, Whole(f, q), q # <<>>, NEW c, NEW d, NEW what,
           what \in {"saving", "repairing", "migrating"}, Tracks(f, q, c, d, what),
           NEW g, g = [f EXCEPT ![Head(q).key] = Head(q).value]
    PROVE  Tracks(g, Tail(q), c, d, what)
<1> DEFINE x == Head(q)
           p == Tail(q)
<1>1. f \in Flashes /\ Settings!CountsWholeProfiles(f) /\ q \in Seq(Writes)
  BY DEF Whole
<1>2. /\ Settings!After(g, p) = Settings!After(f, q)
      /\ g \in Flashes /\ Settings!CountsWholeProfiles(g)
  BY WriteIsWhole DEF Whole
<1>3. x \in All(q) /\ All(p) \subseteq All(q) /\ x \in Writes
  BY <1>1, TailIs, AllAre
<1>4. g = [f EXCEPT ![x.key] = x.value]
  OBVIOUS
<1> SUFFICES Tracks(g, p, c, d, what)
  OBVIOUS
<1> HIDE DEF x, p
<1>5. CASE what = "migrating"
  BY <1>2, <1>5 DEF Tracks
<1>6. CASE what = "repairing"
  <2>1. Settles(f) /\ \A y \in All(q) : y = One(SchemaKey, Settings!CurrentSchema)
    BY <1>6 DEF Tracks
  <2>2. x.key = SchemaKey /\ x.value = Settings!CurrentSchema
    BY <1>3, <2>1 DEF One
  <2>3. Settles(g)
    BY <1>1, <1>3, <1>4, <2>1, <2>2, SettledStays
  <2> QED BY <1>3, <1>6, <2>1, <2>3 DEF Tracks
<1>7. CASE what = "saving"
  <2>1. /\ Settles(f) /\ (~ d => Settings!LoadedFrom(f) = c)
        /\ Settings!LoadedFrom(Settings!After(f, q)) = c
        /\ \E k : IsHeldConfig(c, k) /\ \A y \in All(q) : IsSaveWrite(y, c, k)
    BY <1>7 DEF Tracks
  <2>2. PICK k : IsHeldConfig(c, k) /\ \A y \in All(q) : IsSaveWrite(y, c, k)
    BY <2>1
  <2>3. IsSaveWrite(x, c, k)
    BY <1>3, <2>2
  <2>4. \/ x.key \in {TimeoutKey, RetriesKey, CountKey}
        \/ x.key = SchemaKey /\ x.value = Settings!CurrentSchema
        \/ \E w \in Words, i \in Places : x.key = SlotKey(w, i)
    <3>1. /\ x.key = SchemaKey => x.value = Settings!CurrentSchema
          /\ \/ x.key \in {TimeoutKey, RetriesKey, CountKey, SchemaKey}
             \/ \E w \in Words, i \in 1 .. k : x.key = SlotKey(w, i)
      BY <2>2, <2>3, SaveWriteIs
    <3>2. \A i \in 1 .. k : i \in Places
      BY <2>2 DEF Settings!Bounds, IsHeldConfig, Places
    <3> QED BY <3>1, <3>2
  <2>5. Settles(g)
    BY <1>1, <1>3, <1>4, <2>1, <2>4, SettledStays
  <2>6. ASSUME ~ d PROVE Settings!LoadedFrom(g) = c
    <3>1. Settings!LoadedFrom(f) = c
      BY <2>1, <2>6
    <3>2. /\ IsHeldConfig(c, k) /\ IsSaveWrite(x, c, k) /\ x \in Writes
          /\ f \in Flashes /\ Settings!CountsWholeProfiles(f)
          /\ g \in Flashes /\ Settings!CountsWholeProfiles(g)
      BY <1>1, <1>2, <1>3, <2>2, <2>3
    <3> QED BY <1>4, <3>1, <3>2, SaveWriteKeeps
  <2>7. \A y \in All(p) : IsSaveWrite(y, c, k)
    BY <1>3, <2>2
  <2> QED BY <1>2, <1>7, <2>1, <2>2, <2>5, <2>6, <2>7 DEF Tracks
<1> QED BY <1>5, <1>6, <1>7

\* The last write ends a save, or leaves a flash to load from
LEMMA LastWriteTracks ==
    ASSUME NEW f \in Flashes, NEW c, NEW d, NEW what, Tracks(f, <<>>, c, d, what)
    PROVE  /\ what = "saving" => Tracks(f, <<>>, c, FALSE, "idle")
           /\ what \in {"repairing", "migrating"} => Settles(f)
<1>1. Settings!After(f, <<>>) = f
  BY AfterNothing
<1>2. what = "saving" => Settles(f) /\ Settings!LoadedFrom(f) = c
  BY <1>1 DEF Tracks
<1>3. what = "repairing" => Settles(f)
  BY DEF Tracks
<1>4. what = "migrating" => Settles(f)
  BY <1>1, SchemaIs DEF Tracks
<1> QED BY <1>2, <1>3, <1>4 DEF Tracks

LEMMA SaveTracks ==
    ASSUME Settings!Bounds, NEW f \in Flashes, Settings!CountsWholeProfiles(f), Settles(f),
           NEW c, NEW k, IsHeldConfig(c, k), NEW d, ~ d => Settings!LoadedFrom(f) = c
    PROVE  /\ Whole(f, Settings!SaveWrites(c))
           /\ Tracks(f, Settings!SaveWrites(c), c, d, "saving")
<1> DEFINE q == Settings!SaveWrites(c)
<1>1. /\ q \in Seq(Writes) /\ Ordered(q) /\ \A x \in All(q) : IsSaveWrite(x, c, k)
  BY SaveWritesAre
<1>2. /\ Settings!LoadedFrom(Settings!After(f, q)) = c
      /\ Settings!CountsWholeProfiles(Settings!After(f, q)) /\ Named(q)
  BY AfterSave
<1> HIDE DEF q
<1>3. Whole(f, q)
  BY <1>1, <1>2 DEF Whole
<1>4. Tracks(f, q, c, d, "saving")
  BY <1>1, <1>2 DEF Tracks
<1> QED BY <1>3, <1>4 DEF q

LEMMA LoadTracks ==
    ASSUME Settings!Bounds, NEW f \in Flashes, Settings!CountsWholeProfiles(f),
           Settings!Schema(f) <= Settings!CurrentSchema, NEW c, NEW d
    PROVE  /\ Whole(f, Settings!LoadWrites(f))
           /\ Settings!Schema(f) \in {1, 2} =>
                 /\ Settings!LoadWrites(f) # <<>>
                 /\ Tracks(f, Settings!LoadWrites(f), c, d, "migrating")
           /\ Settings!Schema(f) \notin {1, 2} =>
                 Settles(f) /\ Tracks(f, Settings!LoadWrites(f), c, d, "repairing")
<1> DEFINE q == Settings!LoadWrites(f)
<1>1. CASE Settings!Schema(f) \in {1, 2}
  <2>1. IsMigration(q)
    BY <1>1, LoadMigrates
  <2> HIDE DEF q
  <2>2. /\ Settings!After(f, q)[SchemaKey] = Settings!CurrentSchema
        /\ Settings!CountsWholeProfiles(Settings!After(f, q))
    BY <2>1, AfterMigration
  <2>3. q \in Seq(Writes) /\ q # <<>> /\ Ordered(q) /\ Named(q)
    BY <2>1 DEF IsMigration
  <2>4. Whole(f, q) /\ Tracks(f, q, c, d, "migrating")
    BY <2>2, <2>3 DEF Whole, Tracks
  <2> QED BY <1>1, <2>3, <2>4 DEF q
<1>2. CASE Settings!Schema(f) \notin {1, 2}
  <2>1. Settles(f)
    BY <1>2, SchemaIs DEF Settles, Settings!CurrentSchema
  <2> DEFINE r == Settings!Put("schema", Settings!CurrentSchema)
  <2>2. q \in {<<>>, r} /\ Settings!CountsWholeProfiles(Settings!After(f, q))
    BY <2>1, RepairIs
  <2>3. /\ r \in Seq(Writes) /\ All(r) = {One(SchemaKey, Settings!CurrentSchema)}
        /\ Ordered(r)
    <3>1. Settings!Key("schema") \in Settings!Keys /\ Settings!CurrentSchema \in Nat
      BY KeysAre DEF SchemaKey, Settings!CurrentSchema
    <3> QED BY <3>1, PutIsOne DEF SchemaKey
  <2> HIDE DEF q, r
  <2>4. CASE q = <<>>
    <3>1. Whole(f, q) /\ All(q) = {}
      BY <2>4, NothingIsWhole DEF All
    <3>2. Tracks(f, q, c, d, "repairing")
      BY <2>1, <3>1 DEF Tracks
    <3> QED BY <1>2, <2>1, <3>1, <3>2 DEF q
  <2>5. CASE q = r
    <3>1. Named(q)
      <4>1. \A w \in 1 .. 2 : w \in Words
        BY DEF Words
      <4> QED BY <2>3, <2>5, <4>1, KeysAre DEF Named, One
    <3>2. Whole(f, q) /\ Tracks(f, q, c, d, "repairing")
      BY <2>1, <2>2, <2>3, <2>5, <3>1 DEF Whole, Tracks
    <3> QED BY <1>2, <2>1, <3>2 DEF q
  <2> QED BY <2>2, <2>4, <2>5
<1> QED BY <1>1, <1>2

\* A profile that is put in its place leaves no gap
LEMMA PutLeavesNoGap ==
    ASSUME ProfileSlots \in Nat, NEW t \in Tables, NEW k \in 0 .. ProfileSlots, IsUsedUpTo(t, k),
           NEW p \in ProfileSet, PlacesFor(t, p) # {},
           NEW u, u = [t EXCEPT ![LeastOf(PlacesFor(t, p))] = p]
    PROVE  u \in Tables /\ \E n \in 0 .. ProfileSlots : IsUsedUpTo(u, n)
<1> DEFINE S == PlacesFor(t, p)
           l == LeastOf(S)
<1>1. S \subseteq Places /\ S \in SUBSET Nat /\ S # {}
  BY DEF PlacesFor, PlacesIn, FreeIn, Places
<1>2. l \in S /\ \A j \in S : l <= j
  <2> HIDE DEF S
  <2> QED BY <1>1, LeastIs
<1>3. l \in Places /\ l \in Nat
  BY <1>1, <1>2
<1>4. DOMAIN t = Places /\ \A i \in Places : t[i] # <<>> <=> i <= k
  BY DEF Tables, IsUsedUpTo
<1>5. p # <<>>
  <2>1. DOMAIN p = 1 .. 4 /\ DOMAIN <<>> = {} /\ 1 \in 1 .. 4
    BY DEF ProfileSet
  <2> QED BY <2>1
<1>6. S = PlacesIn(t, Key(p)) \/ S = FreeIn(t)
  BY DEF PlacesFor
<1> HIDE DEF l, S
<1>7. u = [t EXCEPT ![l] = p]
  BY DEF l, S
<1>8. u \in Tables /\ DOMAIN u = Places
  BY <1>3, <1>7 DEF Tables
<1>9. \A i \in Places : u[i] = IF i = l THEN p ELSE t[i]
  BY <1>3, <1>4, <1>7
<1>10. CASE S = PlacesIn(t, Key(p))
  <2>1. t[l] # <<>> /\ l <= k
    BY <1>2, <1>3, <1>4, <1>10 DEF PlacesIn
  <2>2. IsUsedUpTo(u, k)
    BY <1>4, <1>5, <1>8, <1>9, <2>1 DEF IsUsedUpTo
  <2> QED BY <1>8, <2>2
<1>11. CASE S = FreeIn(t)
  <2>1. l > k
    <3>1. t[l] = <<>>
      BY <1>2, <1>11 DEF FreeIn
    <3> QED BY <1>3, <1>4, <3>1
  <2>2. k + 1 \in Places /\ k \in Nat
    BY <1>3, <2>1 DEF Places
  <2>3. k + 1 \in S
    <3>1. t[k + 1] = <<>>
      BY <1>4, <2>2
    <3> QED BY <1>11, <2>2, <3>1 DEF FreeIn, Places
  <2>4. l = k + 1
    BY <1>2, <1>3, <2>1, <2>2, <2>3
  <2>5. \A i \in Places : i <= k + 1 <=> i = l \/ i <= k
    BY <2>2, <2>4 DEF Places
  <2>6. IsUsedUpTo(u, k + 1)
    BY <1>4, <1>5, <1>8, <1>9, <2>5 DEF IsUsedUpTo
  <2>7. k + 1 \in 0 .. ProfileSlots
    BY <2>2 DEF Places
  <2> QED BY <1>8, <2>6, <2>7
<1> QED BY <1>6, <1>10, <1>11

LEMMA NoConfigIsHeld ==
    ASSUME Settings!Bounds
    PROVE  IsHeldConfig(Settings!NoConfig, 0)
<1> DEFINE c == Settings!NoConfig
<1>1. /\ c.timeout = DefaultTimeout /\ c.retries = DefaultRetries /\ Fields(c)
      /\ c.profiles = [i \in Places |-> <<>>]
  BY DEF Settings!NoConfig, Settings!NoProfiles, Settings!Unused, Fields, Places
<1> HIDE DEF c
<1>2. ProfileSlots \in Nat /\ 0 \in 0 .. ProfileSlots
  BY DEF Settings!Bounds
<1>3. c.profiles \in Tables /\ IsUsedUpTo(c.profiles, 0)
  BY <1>1 DEF Tables, IsUsedUpTo, Places
<1> QED BY <1>1, <1>2, <1>3 DEF IsHeldConfig, Settings!Bounds, c

\* What clients ask for does not touch what is kept
LEMMA KeptStays ==
    ASSUME KeptInv, UNCHANGED <<flash, config, unsaved, doing, todo>>
    PROVE  Held' /\ Stored'
<1>1. Held'
  BY DEF KeptInv, Held
<1>2. Stored'
  BY DEF KeptInv, Stored
<1> QED BY <1>1, <1>2

LEMMA KeptInitially ==
    ASSUME Settings!Bounds, Settings!Init
    PROVE  KeptInv
<1> USE DEF Settings!Init
<1>1. PICK old \in Olds : flash = old.flash /\ since = {old.config}
  OBVIOUS
<1>2. flash \in Flashes /\ Settings!CountsWholeProfiles(flash) /\ Settings!IsConfig(old.config)
  BY <1>1 DEF Settings!Bounds, Flashes, Settings!Absent, Absent
<1>3. config = Settings!NoConfig /\ todo = <<>> /\ doing = "off"
  OBVIOUS
<1>4. Held
  BY <1>3, NoConfigIsHeld DEF Held
<1>5. Stored
  <2>1. Whole(flash, <<>>)
    BY <1>2, NothingIsWhole
  <2>2. Tracks(flash, <<>>, config, unsaved, "off")
    BY DEF Tracks
  <2> QED BY <1>3, <2>1, <2>2 DEF Stored
<1>6. SettingsTypes
  <2>1. changes = <<>> /\ profiles = <<>> /\ requests = MaxRequests /\ faults = MaxFaults
    OBVIOUS
  <2>2. /\ QueueBound \in Nat /\ MaxRequests \in Nat /\ MaxFaults \in Nat
    BY DEF Settings!Bounds
  <2>3. Len(<<>>) = 0
    OBVIOUS
  <2>4. Len(changes) <= QueueBound /\ Len(profiles) <= QueueBound
    BY <2>1, <2>2, <2>3
  <2>5. requests \in 0 .. MaxRequests /\ faults \in 0 .. MaxFaults
    BY <2>1, <2>2
  <2> QED BY <1>1, <1>2, <2>4, <2>5 DEF SettingsTypes
<1> QED BY <1>4, <1>5, <1>6 DEF KeptInv

\* A load ends
LEMMA LoadedKeeps ==
    ASSUME Settings!Bounds, NEW f \in Flashes, Settings!CountsWholeProfiles(f), Settles(f),
           Settings!Loaded(f), flash' = f,
           SettingsTypes, UNCHANGED <<changes, profiles, requests>>, faults' \in 0 .. MaxFaults
    PROVE  KeptInv'
<1> DEFINE c == Settings!LoadedFrom(f)
<1>1. IsHeldConfig(c, CountedIn(f))
  BY LoadIs
<1>2. Settings!IsConfig(c)
  BY <1>1, HeldIsConfig
<1>3. /\ config' = c /\ since' = {c} /\ unsaved' = FALSE /\ failed' = FALSE
      /\ doing' = "idle" /\ todo' = <<>>
  BY DEF Settings!Loaded
<1>4. Whole(f, <<>>)
  BY NothingIsWhole
<1>5. Tracks(f, <<>>, c, FALSE, "idle")
  BY DEF Tracks
<1> HIDE DEF c
<1>6. Held'
  BY <1>1, <1>3 DEF Held
<1>7. Stored'
  BY <1>3, <1>4, <1>5 DEF Stored
<1>8. SettingsTypes'
  BY <1>2, <1>3 DEF SettingsTypes
<1> QED BY <1>6, <1>7, <1>8 DEF KeptInv

LEMMA LoadKeeps ==
    ASSUME Settings!Bounds, SettingsInv, KeptInv, Settings!Load
    PROVE  KeptInv'
<1>1. /\ flash \in Flashes /\ Settings!CountsWholeProfiles(flash) /\ SettingsTypes
      /\ doing = "off" /\ todo = <<>>
  BY DEF KeptInv, Stored, Whole, Settings!Load, SettingsInv, SettingsControl
<1>2. /\ UNCHANGED <<flash, changes, profiles, requests, faults>>
      /\ faults' \in 0 .. MaxFaults
  BY <1>1 DEF Settings!Load, Settings!queueVars, SettingsTypes
<1>3. CASE Settings!Schema(flash) > Settings!CurrentSchema
  <2>1. doing' = "halted" /\ UNCHANGED <<config, unsaved, todo, since, failed>>
    BY <1>3 DEF Settings!Load
  <2>2. Held'
    BY <2>1 DEF KeptInv, Held
  <2>3. Stored'
    <3>1. Whole(flash, todo)
      BY DEF KeptInv, Stored
    <3>2. Tracks(flash, todo, config, unsaved, "halted")
      BY DEF Tracks
    <3> QED BY <1>2, <2>1, <3>1, <3>2 DEF Stored
  <2>4. SettingsTypes'
    BY <1>1, <1>2, <2>1 DEF SettingsTypes
  <2> QED BY <2>2, <2>3, <2>4 DEF KeptInv
<1>4. CASE ~ (Settings!Schema(flash) > Settings!CurrentSchema)
  <2>1. Settings!Schema(flash) <= Settings!CurrentSchema
    BY <1>1, <1>4, SchemaIs DEF Settings!CurrentSchema
  <2> DEFINE q == Settings!LoadWrites(flash)
  <2>2. /\ Whole(flash, q)
        /\ Settings!Schema(flash) \in {1, 2} =>
              q # <<>> /\ Tracks(flash, q, config, unsaved, "migrating")
        /\ Settings!Schema(flash) \notin {1, 2} =>
              Settles(flash) /\ Tracks(flash, q, config, unsaved, "repairing")
    BY <1>1, <2>1, LoadTracks
  <2>3. IF q = <<>> THEN Settings!Loaded(flash)
        ELSE /\ todo' = q
             /\ doing' = IF Settings!Schema(flash) \in {1, 2} THEN "migrating" ELSE "repairing"
             /\ UNCHANGED <<config, unsaved, since, failed>>
    BY <1>4 DEF Settings!Load
  <2> HIDE DEF q
  <2>4. CASE q = <<>>
    <3>1. Settles(flash) /\ Settings!Loaded(flash)
      BY <2>2, <2>3, <2>4
    <3> QED BY <1>1, <1>2, <3>1, LoadedKeeps
  <2>5. CASE q # <<>>
    <3>1. todo' = q /\ UNCHANGED <<config, unsaved, since, failed>>
      BY <2>3, <2>5
    <3>2. doing' \in {"migrating", "repairing"} /\ Tracks(flash, q, config, unsaved, doing')
      BY <2>2, <2>3, <2>5
    <3>3. Held'
      BY <3>1 DEF KeptInv, Held
    <3>4. Stored'
      BY <1>2, <2>2, <3>1, <3>2 DEF Stored
    <3>5. SettingsTypes'
      BY <1>1, <1>2, <3>1, <3>2 DEF SettingsTypes
    <3> QED BY <3>3, <3>4, <3>5 DEF KeptInv
  <2> QED BY <2>4, <2>5
<1> QED BY <1>3, <1>4

LEMMA WriteKeeps ==
    ASSUME Settings!Bounds, SettingsInv, KeptInv, Settings!Write
    PROVE  KeptInv'
<1> DEFINE p == Tail(todo)
<1>1. /\ Whole(flash, todo) /\ Tracks(flash, todo, config, unsaved, doing) /\ SettingsTypes
      /\ todo # <<>> /\ doing \in {"migrating", "repairing", "saving"}
  BY DEF KeptInv, Stored, Settings!Write, SettingsInv, SettingsControl
<1>2. /\ flash' = [flash EXCEPT ![Head(todo).key] = Head(todo).value]
      /\ UNCHANGED <<changes, profiles, requests, faults>> /\ faults' \in 0 .. MaxFaults
  BY <1>1 DEF Settings!Write, Settings!queueVars, SettingsTypes
<1>3. Whole(flash', p)
  BY <1>1, <1>2, WriteIsWhole
<1>4. Tracks(flash', p, config, unsaved, doing)
  BY <1>1, <1>2, WriteTracks
<1>5. CASE Len(todo) > 1
  <2>1. todo' = p /\ UNCHANGED <<config, unsaved, doing, since, failed>>
    BY <1>5 DEF Settings!Write
  <2> HIDE DEF p
  <2>2. Held'
    BY <2>1 DEF KeptInv, Held
  <2>3. Stored'
    BY <1>3, <1>4, <2>1 DEF Stored
  <2>4. SettingsTypes'
    BY <1>1, <1>2, <2>1 DEF SettingsTypes
  <2> QED BY <2>2, <2>3, <2>4 DEF KeptInv
<1>6. CASE ~ (Len(todo) > 1)
  <2>1. p = <<>>
    <3>1. todo \in Seq(Writes)
      BY <1>1 DEF Whole
    <3> QED BY <1>1, <1>6, <3>1
  <2>2. /\ flash' \in Flashes /\ Settings!CountsWholeProfiles(flash')
        /\ Whole(flash', <<>>) /\ Tracks(flash', <<>>, config, unsaved, doing)
    BY <1>3, <1>4, <2>1 DEF Whole
  <2>3. /\ doing = "saving" => Tracks(flash', <<>>, config, FALSE, "idle")
        /\ doing \in {"repairing", "migrating"} => Settles(flash')
    BY <2>2, LastWriteTracks
  <2> HIDE DEF p
  <2>4. CASE doing = "saving"
    <3>1. /\ doing' = "idle" /\ todo' = <<>> /\ unsaved' = FALSE
          /\ since' = {config} /\ failed' = FALSE /\ config' = config
      BY <1>6, <2>4 DEF Settings!Write
    <3>2. Held'
      BY <3>1 DEF KeptInv, Held
    <3>3. Stored'
      BY <2>2, <2>3, <2>4, <3>1 DEF Stored
    <3>4. Settings!IsConfig(config)
      BY HeldIsConfig DEF KeptInv, Held
    <3>5. SettingsTypes'
      BY <1>1, <1>2, <3>1, <3>4 DEF SettingsTypes
    <3> QED BY <3>2, <3>3, <3>5 DEF KeptInv
  <2>5. CASE doing # "saving"
    <3>1. Settings!Loaded(flash')
      BY <1>6, <2>5 DEF Settings!Write
    <3>2. Settles(flash')
      BY <1>1, <2>3, <2>5
    <3> QED BY <1>1, <1>2, <2>2, <3>1, <3>2, LoadedKeeps
  <2> QED BY <2>4, <2>5
<1> QED BY <1>5, <1>6

LEMMA WriteFailsKeeps ==
    ASSUME Settings!Bounds, SettingsInv, KeptInv, Settings!WriteFails
    PROVE  KeptInv'
<1>1. /\ Whole(flash, todo) /\ Tracks(flash, todo, config, unsaved, doing) /\ SettingsTypes
      /\ doing \in {"migrating", "repairing", "saving"}
  BY DEF KeptInv, Stored, Settings!WriteFails, SettingsInv, SettingsControl
<1>2. UNCHANGED <<flash, changes, profiles, requests>> /\ faults' \in 0 .. MaxFaults
  <2>1. faults \in 0 .. MaxFaults /\ MaxFaults \in Nat
    BY <1>1 DEF SettingsTypes, Settings!Bounds
  <2> QED BY <2>1 DEF Settings!WriteFails, Settings!queueVars
<1>3. flash \in Flashes /\ Settings!CountsWholeProfiles(flash)
  BY <1>1 DEF Whole
<1>4. CASE doing = "repairing"
  <2>1. Settings!Loaded(flash) /\ Settles(flash)
    BY <1>1, <1>4 DEF Settings!WriteFails, Tracks
  <2> QED BY <1>1, <1>2, <1>3, <2>1, LoadedKeeps
<1>5. CASE doing # "repairing"
  <2>1. /\ todo' = <<>> /\ UNCHANGED <<config, unsaved, since>> /\ failed' \in BOOLEAN
        /\ doing' = IF doing = "migrating" THEN "halted" ELSE "idle"
    BY <1>1, <1>5 DEF Settings!WriteFails, SettingsTypes
  <2>2. Whole(flash, <<>>)
    BY <1>3, NothingIsWhole
  <2>3. Tracks(flash, <<>>, config, unsaved, doing')
    BY <1>1, <1>5, <2>1 DEF Tracks
  <2>4. Held'
    BY <2>1 DEF KeptInv, Held
  <2>5. Stored'
    BY <1>2, <2>1, <2>2, <2>3 DEF Stored
  <2>6. SettingsTypes'
    BY <1>1, <1>2, <2>1 DEF SettingsTypes
  <2> QED BY <2>4, <2>5, <2>6 DEF KeptInv
<1> QED BY <1>4, <1>5

LEMMA RestartKeeps ==
    ASSUME Settings!Bounds, KeptInv, Settings!Restart
    PROVE  KeptInv'
<1>1. flash \in Flashes /\ Settings!CountsWholeProfiles(flash) /\ SettingsTypes
  BY DEF KeptInv, Stored, Whole
<1>2. /\ doing' = "off" /\ todo' = <<>> /\ config' = Settings!NoConfig /\ unsaved' = FALSE
      /\ changes' = <<>> /\ profiles' = <<>> /\ UNCHANGED <<flash, requests, since, failed>>
      /\ faults > 0 /\ faults' = faults - 1
  BY DEF Settings!Restart
<1>3. Held'
  <2>1. IsHeldConfig(Settings!NoConfig, 0)
    BY NoConfigIsHeld
  <2> QED BY <1>2, <2>1 DEF Held
<1>4. Stored'
  <2>1. Whole(flash, <<>>)
    BY <1>1, NothingIsWhole
  <2>2. Tracks(flash, <<>>, Settings!NoConfig, FALSE, "off")
    BY DEF Tracks
  <2> QED BY <1>2, <2>1, <2>2 DEF Stored
<1>5. SettingsTypes'
  <2>1. QueueBound \in Nat /\ MaxFaults \in Nat /\ Len(<<>>) = 0
    BY DEF Settings!Bounds
  <2>2. Len(changes') <= QueueBound /\ Len(profiles') <= QueueBound
    BY <1>2, <2>1
  <2>3. faults' \in 0 .. MaxFaults
    BY <1>1, <1>2, <2>1 DEF SettingsTypes
  <2> QED BY <1>1, <1>2, <2>2, <2>3 DEF SettingsTypes
<1> QED BY <1>3, <1>4, <1>5 DEF KeptInv

\* Settings come to be saved
LEMMA SavesKeep ==
    ASSUME Settings!Bounds, KeptInv, doing = "idle", NEW c, NEW k, IsHeldConfig(c, k),
           NEW d \in BOOLEAN, ~ d => c = config /\ ~ unsaved, Settings!Saves(c, d),
           UNCHANGED <<flash, faults, failed>>, requests' \in 0 .. MaxRequests,
           Len(changes') <= QueueBound, Len(profiles') <= QueueBound
    PROVE  KeptInv'
<1>1. /\ flash \in Flashes /\ Settings!CountsWholeProfiles(flash) /\ SettingsTypes
      /\ Tracks(flash, todo, config, unsaved, doing)
  BY DEF KeptInv, Stored, Whole
<1>2. /\ config' = c /\ unsaved' = d /\ doing' = "saving" /\ todo' = Settings!SaveWrites(c)
      /\ since' = since \cup {c}
  BY DEF Settings!Saves
<1>3. Settles(flash) /\ (~ d => Settings!LoadedFrom(flash) = c)
  BY <1>1 DEF Tracks
<1>4. /\ Whole(flash, Settings!SaveWrites(c))
      /\ Tracks(flash, Settings!SaveWrites(c), c, d, "saving")
  BY <1>1, <1>3, SaveTracks
<1>5. Held'
  BY <1>2 DEF Held
<1>6. Stored'
  BY <1>2, <1>4 DEF Stored
<1>7. Settings!IsConfig(c)
  BY HeldIsConfig
<1>8. SettingsTypes'
  BY <1>1, <1>2, <1>7 DEF SettingsTypes
<1> QED BY <1>5, <1>6, <1>8 DEF KeptInv

LEMMA AskedIs ==
    ASSUME Settings!Bounds, SettingsTypes, Settings!Asks
    PROVE  requests' \in 0 .. MaxRequests
<1>1. requests \in 0 .. MaxRequests /\ MaxRequests \in Nat
  BY DEF SettingsTypes, Settings!Bounds
<1> QED BY <1>1 DEF Settings!Asks

LEMMA PostKeeps ==
    ASSUME Settings!Bounds, SettingsInv, KeptInv,
           \/ \E change \in Changes : Settings!PostConfigWrite(change)
           \/ \E profile \in Profiles : Settings!PostReportingProfileWrite(profile)
    PROVE  KeptInv'
<1>1. SettingsTypes /\ changes \in Seq(Changes) /\ profiles \in Seq(Profiles)
  BY DEF KeptInv, SettingsInv, SettingsShape
<1>2. /\ Settings!Asks /\ UNCHANGED <<flash, config, unsaved, doing, todo, faults, since, failed>>
      /\ \/ /\ \E change \in Changes : changes' = Append(changes, change)
            /\ profiles' = profiles /\ Settings!Room(changes)
         \/ /\ \E profile \in Profiles : profiles' = Append(profiles, profile)
            /\ changes' = changes /\ Settings!Room(profiles)
  BY DEF Settings!PostConfigWrite, Settings!PostReportingProfileWrite, Settings!memoryVars
<1>3. requests' \in 0 .. MaxRequests
  BY <1>1, <1>2, AskedIs
<1>4. Len(changes') <= QueueBound /\ Len(profiles') <= QueueBound
  <2>1. QueueBound \in Nat /\ Len(changes) <= QueueBound /\ Len(profiles) <= QueueBound
    BY <1>1 DEF Settings!Bounds, SettingsTypes
  <2>2. ASSUME NEW change \in Changes, changes' = Append(changes, change), Settings!Room(changes)
        PROVE  Len(changes') <= QueueBound
    BY <1>1, <2>1, <2>2 DEF Settings!Room
  <2>3. ASSUME NEW profile \in Profiles, profiles' = Append(profiles, profile),
               Settings!Room(profiles)
        PROVE  Len(profiles') <= QueueBound
    BY <1>1, <2>1, <2>3 DEF Settings!Room
  <2> QED BY <1>2, <2>1, <2>2, <2>3
<1>5. Held' /\ Stored'
  BY <1>2, KeptStays
<1>6. SettingsTypes'
  BY <1>1, <1>2, <1>3, <1>4 DEF SettingsTypes
<1> QED BY <1>5, <1>6 DEF KeptInv

\* What is left of a queue
LEMMA RestIs ==
    ASSUME NEW S, NEW q \in Seq(S), q # <<>>, QueueBound \in Nat, Len(q) <= QueueBound
    PROVE  Len(Tail(q)) <= QueueBound /\ Head(q) \in S
  OBVIOUS

LEMMA DrainConfigKeeps ==
    ASSUME Settings!Bounds, SettingsInv, KeptInv, Settings!DrainConfigWrite
    PROVE  KeptInv'
<1> DEFINE change == Head(changes)
           c == [config EXCEPT !.timeout = Settings!Newer(@, change.timeout),
                               !.retries = Settings!Newer(@, change.retries)]
           d == unsaved \/ c # config
<1>1. /\ SettingsTypes /\ changes \in Seq(Changes) /\ Fields(config)
      /\ unsaved \in BOOLEAN /\ requests \in 0 .. MaxRequests /\ QueueBound \in Nat
      /\ Len(changes) <= QueueBound /\ Len(profiles) <= QueueBound
  BY DEF KeptInv, SettingsInv, SettingsShape, SettingsTypes, Settings!Bounds
<1>2. /\ doing = "idle" /\ changes # <<>> /\ changes' = Tail(changes) /\ Settings!Saves(c, d)
      /\ UNCHANGED <<flash, profiles, requests, faults, failed>>
  BY DEF Settings!DrainConfigWrite, Settings!Idle
<1>3. Len(Tail(changes)) <= QueueBound /\ change \in Changes
  BY <1>1, <1>2, RestIs
<1>4. PICK k : IsHeldConfig(config, k)
  BY DEF KeptInv, Held
<1>5. /\ c.timeout = Settings!Newer(config.timeout, change.timeout)
      /\ c.retries = Settings!Newer(config.retries, change.retries)
      /\ c.profiles = config.profiles /\ Fields(c)
  <2> DEFINE a == Settings!Newer(config.timeout, change.timeout)
             b == Settings!Newer(config.retries, change.retries)
  <2>1. Fields(config)
    BY <1>1
  <2>2. c = [config EXCEPT !.timeout = a, !.retries = b]
    OBVIOUS
  <2> HIDE DEF a, b, c
  <2>3. /\ c.timeout = a /\ c.retries = b /\ c.profiles = config.profiles /\ Fields(c)
    BY <2>1, <2>2 DEF Fields
  <2> QED BY <2>3 DEF a, b
<1> HIDE DEF c, change
<1>6. Settings!ValidTimeout(c.timeout) /\ Settings!ValidRetries(c.retries)
  BY <1>3, <1>4, <1>5 DEF IsHeldConfig, Settings!Bounds, Settings!Newer
<1>7. IsHeldConfig(c, k)
  BY <1>4, <1>5, <1>6 DEF IsHeldConfig
<1>8. d \in BOOLEAN /\ (~ d => c = config /\ ~ unsaved)
  BY <1>1
<1>9. /\ Len(changes') <= QueueBound /\ Len(profiles') <= QueueBound
      /\ requests' \in 0 .. MaxRequests
  BY <1>1, <1>2, <1>3
<1> HIDE DEF d
<1> QED BY <1>2, <1>7, <1>8, <1>9, SavesKeep

LEMMA DrainProfileKeeps ==
    ASSUME Settings!Bounds, SettingsInv, KeptInv, Settings!DrainProfileWrite
    PROVE  KeptInv'
<1> DEFINE p == Head(profiles)
           t == config.profiles
           S == PlacesFor(t, p)
           c == [config EXCEPT !.profiles[LeastOf(S)] = p]
<1>1. /\ SettingsTypes /\ profiles \in Seq(Profiles) /\ Fields(config)
      /\ requests \in 0 .. MaxRequests /\ QueueBound \in Nat /\ ProfileSlots \in Nat
      /\ Len(changes) <= QueueBound /\ Len(profiles) <= QueueBound
  BY DEF KeptInv, SettingsInv, SettingsShape, SettingsTypes, Settings!Bounds
<1>2. /\ doing = "idle" /\ profiles # <<>> /\ profiles' = Tail(profiles)
      /\ UNCHANGED <<flash, changes, requests, faults, failed>>
  BY DEF Settings!DrainProfileWrite, Settings!Idle
<1>3. IF S = {} THEN UNCHANGED <<config, unsaved, doing, todo, since>>
      ELSE Settings!Saves(c, TRUE)
  BY TablesAre DEF Settings!DrainProfileWrite, Settings!memoryVars
<1>4. Len(Tail(profiles)) <= QueueBound /\ p \in Profiles
  BY <1>1, <1>2, RestIs
<1>5. /\ Len(changes') <= QueueBound /\ Len(profiles') <= QueueBound
      /\ requests' \in 0 .. MaxRequests
  BY <1>1, <1>2, <1>4
<1>6. p \in ProfileSet
  BY <1>4 DEF Settings!Bounds, ProfileSet
<1> HIDE DEF p, S
<1>7. CASE S = {}
  <2>1. UNCHANGED <<config, unsaved, doing, todo, since>>
    BY <1>3, <1>7
  <2>2. Held' /\ Stored'
    BY <1>2, <2>1, KeptStays
  <2>3. SettingsTypes'
    BY <1>1, <1>2, <1>5, <2>1 DEF SettingsTypes
  <2> QED BY <2>2, <2>3 DEF KeptInv
<1>8. CASE S # {}
  <2> DEFINE u == [t EXCEPT ![LeastOf(S)] = p]
  <2>1. PICK k : IsHeldConfig(config, k)
    BY DEF KeptInv, Held
  <2>2. t \in Tables /\ k \in 0 .. ProfileSlots /\ IsUsedUpTo(t, k)
    BY <2>1 DEF IsHeldConfig
  <2> HIDE DEF t
  <2>3. u \in Tables /\ \E n \in 0 .. ProfileSlots : IsUsedUpTo(u, n)
    BY <1>1, <1>6, <1>8, <2>2, PutLeavesNoGap DEF S
  <2>4. PICK n \in 0 .. ProfileSlots : IsUsedUpTo(u, n)
    BY <2>3
  <2>5. /\ c.timeout = config.timeout /\ c.retries = config.retries
        /\ c.profiles = u /\ Fields(c)
    BY <1>1 DEF Fields, t
  <2> HIDE DEF c, u
  <2>6. IsHeldConfig(c, n)
    BY <2>1, <2>3, <2>4, <2>5 DEF IsHeldConfig
  <2>7. Settings!Saves(c, TRUE)
    BY <1>3, <1>8
  <2> QED BY <1>2, <1>5, <2>6, <2>7, SavesKeep
<1> QED BY <1>7, <1>8

LEMMA PersistKeeps ==
    ASSUME Settings!Bounds, KeptInv, Settings!PersistState
    PROVE  KeptInv'
<1>1. SettingsTypes /\ unsaved \in BOOLEAN
  BY DEF KeptInv, SettingsTypes
<1>2. /\ doing = "idle" /\ Settings!Asks /\ Settings!Saves(config, unsaved)
      /\ UNCHANGED <<flash, changes, profiles, faults, failed>>
  BY DEF Settings!PersistState, Settings!Idle, Settings!queueVars
<1>3. /\ requests' \in 0 .. MaxRequests
      /\ Len(changes') <= QueueBound /\ Len(profiles') <= QueueBound
  BY <1>1, <1>2, AskedIs DEF SettingsTypes
<1>4. PICK k : IsHeldConfig(config, k)
  BY DEF KeptInv, Held
<1> QED BY <1>1, <1>2, <1>3, <1>4, SavesKeep

LEMMA StutteringKeeps ==
    ASSUME KeptInv, UNCHANGED Settings!vars
    PROVE  KeptInv'
<1>1. UNCHANGED <<flash, config, unsaved, doing, todo, changes, profiles, requests, faults,
                  since, failed>>
  BY DEF Settings!vars, Settings!memoryVars, Settings!queueVars, Settings!historyVars
<1>2. Held' /\ Stored'
  BY <1>1, KeptStays
<1>3. SettingsTypes'
  BY <1>1 DEF KeptInv, SettingsTypes
<1> QED BY <1>2, <1>3 DEF KeptInv

LEMMA KeptIs ==
    ASSUME Settings!Bounds, KeptInv
    PROVE  Settings!TypeOK /\ Settings!CleanIsStored
<1>1. /\ flash \in Flashes /\ Settings!CountsWholeProfiles(flash) /\ todo \in Seq(Writes)
      /\ SettingsTypes /\ Tracks(flash, todo, config, unsaved, doing)
  BY DEF KeptInv, Stored, Whole
<1>2. Settings!TypeOK
  <2>1. DOMAIN flash = Settings!Keys /\ \A key \in Settings!Keys : flash[key] \in Int
    BY <1>1 DEF Flashes, Absent
  <2>2. Settings!IsConfig(config)
    BY HeldIsConfig DEF KeptInv, Held
  <2>3. \A m \in DOMAIN todo : todo[m].key \in Settings!Keys /\ todo[m].value \in Nat
    <3>1. \A m \in DOMAIN todo : todo[m] \in Writes
      BY <1>1
    <3> QED BY <3>1 DEF Writes
  <2> QED BY <1>1, <2>1, <2>2, <2>3 DEF SettingsTypes, Settings!TypeOK
<1>3. ASSUME doing = "idle", ~ unsaved PROVE Settings!Recovered = config
  <2>1. Settles(flash) /\ Settings!LoadedFrom(flash) = config
    BY <1>1, <1>3 DEF Tracks
  <2> QED BY <1>1, <2>1, RepairIs DEF Settings!Recovered, Settings!RecoveredFrom
<1> QED BY <1>2, <1>3 DEF Settings!CleanIsStored

\* One step of the gateway
LEMMA SettingsStep ==
    ASSUME Settings!Bounds, SettingsInv, KeptInv, [Settings!Next]_Settings!vars
    PROVE  SettingsInv' /\ KeptInv'
<1>1. CASE Settings!Load
  BY <1>1, LoadKeepsSettings, LoadKeeps
<1>2. CASE Settings!Write
  BY <1>2, WriteKeepsSettings, WriteKeeps
<1>3. CASE Settings!WriteFails
  BY <1>3, WriteFailsKeepsSettings, WriteFailsKeeps
<1>4. CASE Settings!Restart
  BY <1>4, RestartKeepsSettings, RestartKeeps
<1>5. CASE \E change \in Changes : Settings!PostConfigWrite(change)
  BY <1>5, PostConfigKeepsSettings, PostKeeps
<1>6. CASE \E profile \in Profiles : Settings!PostReportingProfileWrite(profile)
  BY <1>6, PostProfileKeepsSettings, PostKeeps
<1>7. CASE Settings!DrainConfigWrite
  BY <1>7, DrainConfigKeepsSettings, DrainConfigKeeps
<1>8. CASE Settings!DrainProfileWrite
  BY <1>8, DrainProfileKeepsSettings, DrainProfileKeeps
<1>9. CASE Settings!PersistState
  BY <1>9, PersistKeepsSettings, PersistKeeps
<1>10. CASE UNCHANGED Settings!vars
  BY <1>10, StutteringKeepsSettings, StutteringKeeps
<1> QED
  BY <1>1, <1>2, <1>3, <1>4, <1>5, <1>6, <1>7, <1>8, <1>9, <1>10 DEF Settings!Next

\* What was accepted is held, and what is held is in flash unless a save has failed:
\* settings that are not dirty would come back as they are after a restart, settings are
\* dirty only after a save that failed, what clients were last promised is what holds
\* once nothing waits, and what is loaded, asked for and written is of its type, whatever
\* writes and power fail (ConfigManager: load, save, migrate_to_current,
\* set_reporting_profile; PersistenceManager: drain_config_writes,
\* drain_reporting_profile_writes).
THEOREM SettingsAreKept ==
    ASSUME Settings!Bounds
    PROVE  Settings!Spec => []Settings!AcceptedIsKept
<1>1. Settings!Init => SettingsInv /\ KeptInv
  BY SettingsInitially, KeptInitially
<1>2. SettingsInv /\ KeptInv /\ [Settings!Next]_Settings!vars => SettingsInv' /\ KeptInv'
  BY SettingsStep
<1>3. SettingsInv /\ KeptInv => Settings!AcceptedIsKept
  BY PromisesAreKept, KeptIs DEF SettingsInv, Settings!AcceptedIsKept
<1> QED BY <1>1, <1>2, <1>3, PTL DEF Settings!Spec

-----------------------------------------------------------------------------
(* What a migration means                                                  *)

\* The settings that a load which nothing interrupts gives, of a flash to migrate
TimeoutFrom(f) ==
    Settings!TimeoutOr(IF f[SchemaKey] = 1
                       THEN Settings!FirstOf(f, "legacy timeout", "timeout") ELSE f[TimeoutKey])
RetriesFrom(f) ==
    Settings!RetriesOr(IF f[SchemaKey] = 1
                       THEN Settings!FirstOf(f, "legacy retries", "retries") ELSE f[RetriesKey])

\* The schema is written when the values that the next one has are there, and the
\* current one when all is
InOrder(q) == \A m, n \in DOMAIN q :
    m < n /\ q[m].key = SchemaKey => q[m].value = 2 /\ q[n].key \notin {TimeoutKey, RetriesKey}

IsMigrationWrite(x, f) ==
    \/ /\ f[SchemaKey] = 1
       /\ x \in {One(TimeoutKey, TimeoutFrom(f)), One(RetriesKey, RetriesFrom(f)),
                 One(SchemaKey, 2)}
    \/ x = One(SchemaKey, Settings!CurrentSchema)
    \/ ~ (f[CountKey] > 0) /\ IsProfileWrite(x, Copied(f), Len(Copied(f)))

LEMMA InOrderIs ==
    ASSUME NEW p \in Seq(Writes), NEW q \in Seq(Writes), InOrder(q),
           \/ \A x \in All(p) : x.key # SchemaKey
           \/ /\ InOrder(p) /\ \A x \in All(p) : x.key = SchemaKey => x.value = 2
              /\ \A x \in All(q) : x.key \notin {TimeoutKey, RetriesKey}
    PROVE  InOrder(p \o q)
<1> DEFINE r == p \o q
           a == Len(p)
           b == Len(q)
<1>1. /\ a \in Nat /\ b \in Nat /\ DOMAIN p = 1 .. a /\ DOMAIN q = 1 .. b
      /\ DOMAIN r = 1 .. a + b
      /\ \A m \in 1 .. a : r[m] = p[m]
      /\ \A m \in 1 .. a + b : m > a => r[m] = q[m - a]
  OBVIOUS
<1> HIDE DEF r, a, b
<1> SUFFICES ASSUME NEW m \in DOMAIN r, NEW n \in DOMAIN r, m < n, r[m].key = SchemaKey
             PROVE  r[m].value = 2 /\ r[n].key \notin {TimeoutKey, RetriesKey}
  BY DEF InOrder, r
<1>2. CASE m <= a
  <2>1. m \in DOMAIN p /\ r[m] = p[m] /\ p[m] \in All(p)
    BY <1>1, <1>2 DEF All
  <2>2. InOrder(p) /\ p[m].value = 2 /\ \A x \in All(q) : x.key \notin {TimeoutKey, RetriesKey}
    BY <2>1
  <2>3. CASE n <= a
    <3>1. n \in DOMAIN p /\ r[n] = p[n]
      BY <1>1, <2>3
    <3> QED BY <2>1, <2>2, <3>1 DEF InOrder
  <2>4. CASE n > a
    <3>1. n - a \in DOMAIN q /\ r[n] = q[n - a]
      BY <1>1, <2>4
    <3> QED BY <2>1, <2>2, <3>1 DEF All
  <2> QED BY <1>1, <2>3, <2>4
<1>3. CASE m > a
  <2>1. /\ m - a \in DOMAIN q /\ r[m] = q[m - a]
        /\ n - a \in DOMAIN q /\ r[n] = q[n - a] /\ m - a < n - a
    BY <1>1, <1>3
  <2> QED BY <2>1 DEF InOrder
<1> QED BY <1>1, <1>2, <1>3

LEMMA PutIsInOrder ==
    ASSUME NEW name, Settings!Key(name) \in Settings!Keys, NEW value \in Nat
    PROVE  InOrder(Settings!Put(name, value))
<1> DEFINE p == Settings!Put(name, value)
<1>1. p \in Seq(Writes) /\ Len(p) = 1
  BY PutIsOne
<1> HIDE DEF p
<1>2. DOMAIN p = {1}
  BY <1>1
<1>3. InOrder(p)
  BY <1>2 DEF InOrder
<1> QED BY <1>3 DEF p

LEMMA SchemaTells ==
    ASSUME NEW f \in Flashes, f[SchemaKey] \in {1, 2}
    PROVE  Settings!Schema(f) = f[SchemaKey] /\ ~ Settles(f)
<1>1. ~ Settings!NeedsRepair(f)
  BY DEF Settings!NeedsRepair, SchemaKey, Settings!Absent
<1>2. Settings!Schema(f) = f[SchemaKey]
  BY <1>1 DEF Settings!Schema, SchemaKey
<1> QED BY <1>2 DEF Settles, Settings!CurrentSchema

LEMMA FromAreValid ==
    ASSUME Settings!Bounds, NEW f
    PROVE  /\ Settings!ValidTimeout(TimeoutFrom(f)) /\ TimeoutFrom(f) \in Nat
           /\ Settings!ValidRetries(RetriesFrom(f)) /\ RetriesFrom(f) \in Nat
<1>1. /\ Settings!ValidTimeout(DefaultTimeout) /\ Settings!ValidRetries(DefaultRetries)
      /\ MaxRetries \in Nat
  BY DEF Settings!Bounds
<1>2. \A v : Settings!ValidTimeout(Settings!TimeoutOr(v))
  BY <1>1 DEF Settings!TimeoutOr
<1>3. \A v : Settings!ValidRetries(Settings!RetriesOr(v))
  BY <1>1 DEF Settings!RetriesOr
<1>4. Settings!ValidTimeout(TimeoutFrom(f)) /\ Settings!ValidRetries(RetriesFrom(f))
  BY <1>2, <1>3 DEF TimeoutFrom, RetriesFrom
<1> QED BY <1>1, <1>4 DEF Settings!ValidTimeout, Settings!ValidRetries

\* The migration from the second schema
LEMMA MigrateV2Writes ==
    ASSUME Settings!Bounds, NEW f \in Flashes
    PROVE  /\ Settings!MigrateV2(f) \in Seq(Writes) /\ InOrder(Settings!MigrateV2(f))
           /\ \A x : x \in All(Settings!MigrateV2(f)) <=>
                 \/ x = One(SchemaKey, Settings!CurrentSchema)
                 \/ ~ (f[CountKey] > 0) /\ IsProfileWrite(x, Copied(f), Len(Copied(f)))
<1> DEFINE q == Settings!MigrateV2(f)
           p == Settings!WriteProfiles(Copied(f))
           r == Settings!Put("schema", Settings!CurrentSchema)
<1>1. q = IF f[CountKey] > 0 THEN r ELSE p \o r
  BY CopiedAre
<1>2. ProfileSlots \in Nat
  BY DEF Settings!Bounds
<1>3. /\ p \in Seq(Writes)
      /\ \A x : x \in All(p) <=> IsProfileWrite(x, Copied(f), Len(Copied(f)))
  BY <1>2, CopiedAre, ProfileWritesAre
<1>4. /\ r \in Seq(Writes) /\ All(r) = {One(SchemaKey, Settings!CurrentSchema)} /\ InOrder(r)
  <2>1. Settings!Key("schema") \in Settings!Keys /\ Settings!CurrentSchema \in Nat
    BY KeysAre DEF SchemaKey, Settings!CurrentSchema
  <2> QED BY <2>1, PutIsOne, PutIsInOrder DEF SchemaKey
<1> HIDE DEF p, r, q
<1>5. \A x \in All(p) : x.key # SchemaKey
  <2> SUFFICES ASSUME NEW x \in All(p) PROVE x.key # SchemaKey
    OBVIOUS
  <2>1. IsProfileWrite(x, Copied(f), Len(Copied(f)))
    BY <1>3
  <2>2. CASE IsSlotWrite(x, Copied(f), Len(Copied(f)))
    BY <1>2, <2>2, CopiedAre, SlotWriteIs
  <2>3. CASE x = One(CountKey, Len(Copied(f)))
    BY <2>3, KeysAre DEF One
  <2> QED BY <2>1, <2>2, <2>3 DEF IsProfileWrite
<1>6. /\ p \o r \in Seq(Writes) /\ All(p \o r) = All(p) \cup All(r) /\ InOrder(p \o r)
  BY <1>3, <1>4, <1>5, ConcatIs, InOrderIs
<1> SUFFICES /\ q \in Seq(Writes) /\ InOrder(q)
             /\ \A x : x \in All(q) <=>
                   \/ x = One(SchemaKey, Settings!CurrentSchema)
                   \/ ~ (f[CountKey] > 0) /\ IsProfileWrite(x, Copied(f), Len(Copied(f)))
  BY DEF q
<1>7. CASE f[CountKey] > 0
  BY <1>1, <1>4, <1>7
<1>8. CASE ~ (f[CountKey] > 0)
  <2>1. q = p \o r
    BY <1>1, <1>8
  <2> QED BY <1>3, <1>4, <1>6, <1>8, <2>1
<1> QED BY <1>7, <1>8

\* What a load writes to migrate, and in which order
LEMMA MigrationWrites ==
    ASSUME Settings!Bounds, NEW f \in Flashes, f[SchemaKey] \in {1, 2}
    PROVE  /\ Settings!LoadWrites(f) \in Seq(Writes) /\ InOrder(Settings!LoadWrites(f))
           /\ \A x : x \in All(Settings!LoadWrites(f)) <=> IsMigrationWrite(x, f)
<1> DEFINE q == Settings!MigrateV2(f)
           p1 == Settings!Put("timeout", TimeoutFrom(f))
           p2 == Settings!Put("retries", RetriesFrom(f))
           p3 == Settings!Put("schema", 2)
           p == (p1 \o p2) \o p3
<1>1. Settings!Schema(f) = f[SchemaKey]
  BY SchemaTells
<1>2. /\ q \in Seq(Writes) /\ InOrder(q)
      /\ \A x : x \in All(q) <=>
            \/ x = One(SchemaKey, Settings!CurrentSchema)
            \/ ~ (f[CountKey] > 0) /\ IsProfileWrite(x, Copied(f), Len(Copied(f)))
  BY MigrateV2Writes
<1>3. f[SchemaKey] = 2 => Settings!LoadWrites(f) = q
  BY <1>1 DEF Settings!LoadWrites
<1>4. f[SchemaKey] = 1 => Settings!LoadWrites(f) = p \o q
  <2>1. f[SchemaKey] = 1 => Settings!MigrateV1(f) = p
    BY DEF Settings!MigrateV1, TimeoutFrom, RetriesFrom
  <2>2. f[SchemaKey] = 1 => Settings!LoadWrites(f) = Settings!MigrateV1(f) \o q
    BY <1>1 DEF Settings!LoadWrites
  <2> HIDE DEF p, q
  <2> QED BY <2>1, <2>2
<1> HIDE DEF q
<1>5. /\ p1 \in Seq(Writes) /\ All(p1) = {One(TimeoutKey, TimeoutFrom(f))} /\ InOrder(p1)
      /\ p2 \in Seq(Writes) /\ All(p2) = {One(RetriesKey, RetriesFrom(f))} /\ InOrder(p2)
      /\ p3 \in Seq(Writes) /\ All(p3) = {One(SchemaKey, 2)} /\ InOrder(p3)
  <2>1. /\ Settings!Key("timeout") \in Settings!Keys /\ Settings!Key("retries") \in Settings!Keys
        /\ Settings!Key("schema") \in Settings!Keys
    BY KeysAre DEF TimeoutKey, RetriesKey, SchemaKey
  <2> QED BY <2>1, FromAreValid, PutIsOne, PutIsInOrder DEF TimeoutKey, RetriesKey, SchemaKey
<1> HIDE DEF p1, p2, p3
<1>6. /\ p1 \o p2 \in Seq(Writes) /\ All(p1 \o p2) = All(p1) \cup All(p2)
  BY <1>5, ConcatIs
<1>7. \A x \in All(p1 \o p2) : x.key # SchemaKey
  BY <1>5, <1>6, KeysAre DEF One
<1>8. p \in Seq(Writes) /\ All(p) = (All(p1) \cup All(p2)) \cup All(p3) /\ InOrder(p)
  BY <1>5, <1>6, <1>7, ConcatIs, InOrderIs
<1> HIDE DEF p
<1>9. \A x \in All(p) : x.key = SchemaKey => x.value = 2
  BY <1>5, <1>8, KeysAre DEF One
<1>10. \A x \in All(q) : x.key \notin {TimeoutKey, RetriesKey}
  <2> SUFFICES ASSUME NEW x \in All(q) PROVE x.key \notin {TimeoutKey, RetriesKey}
    OBVIOUS
  <2>1. CASE x \in {One(SchemaKey, Settings!CurrentSchema), One(CountKey, Len(Copied(f)))}
    BY <2>1, KeysAre DEF One
  <2>2. CASE IsSlotWrite(x, Copied(f), Len(Copied(f)))
    <3>1. ProfileSlots \in Nat
      BY DEF Settings!Bounds
    <3> QED BY <2>2, <3>1, CopiedAre, SlotWriteIs
  <2> QED BY <1>2, <2>1, <2>2 DEF IsProfileWrite
<1>11. p \o q \in Seq(Writes) /\ All(p \o q) = All(p) \cup All(q) /\ InOrder(p \o q)
  BY <1>2, <1>8, <1>9, <1>10, ConcatIs, InOrderIs
<1>12. CASE f[SchemaKey] = 2
  <2>1. Settings!LoadWrites(f) = q
    BY <1>3, <1>12
  <2> QED BY <1>2, <1>12, <2>1 DEF IsMigrationWrite
<1>13. CASE f[SchemaKey] = 1
  <2>1. Settings!LoadWrites(f) = p \o q
    BY <1>4, <1>13
  <2>2. \A x : x \in All(p) <=> x \in {One(TimeoutKey, TimeoutFrom(f)),
                                       One(RetriesKey, RetriesFrom(f)), One(SchemaKey, 2)}
    BY <1>5, <1>8
  <2> QED BY <1>2, <1>11, <1>13, <2>1, <2>2 DEF IsMigrationWrite
<1> QED BY <1>12, <1>13

-----------------------------------------------------------------------------
(* What a migration leaves                                                 *)

LEMMA MigrationWriteIs ==
    ASSUME Settings!Bounds, NEW f \in Flashes, NEW x, IsMigrationWrite(x, f)
    PROVE  /\ x.key = TimeoutKey => f[SchemaKey] = 1 /\ x.value = TimeoutFrom(f)
           /\ x.key = RetriesKey => f[SchemaKey] = 1 /\ x.value = RetriesFrom(f)
           /\ x.key = CountKey => ~ (f[CountKey] > 0) /\ x.value = Len(Copied(f))
           /\ x.key = SchemaKey => x.value \in {2, Settings!CurrentSchema}
           /\ \A w \in Words, i \in Places : x.key = SlotKey(w, i) =>
                 /\ ~ (f[CountKey] > 0)
                 /\ i \in 1 .. Len(Copied(f)) /\ x.value = Copied(f)[i][w]
           /\ \/ x.key \in {TimeoutKey, RetriesKey, CountKey, SchemaKey}
              \/ \E w \in Words, i \in Places : x.key = SlotKey(w, i)
<1> DEFINE used == Copied(f)
<1>1. ProfileSlots \in Nat /\ Len(used) \in Nat /\ Len(used) <= ProfileSlots
  BY CopiedAre DEF Settings!Bounds
<1> HIDE DEF used
<1>2. CASE ~ (f[CountKey] > 0) /\ IsSlotWrite(x, used, Len(used))
  <2>1. /\ x.key \notin {CountKey, SchemaKey, TimeoutKey, RetriesKey}
        /\ \A w \in Words, i \in Places : x.key = SlotKey(w, i) =>
              i \in 1 .. Len(used) /\ x.value = used[i][w]
    BY <1>1, <1>2, SlotWriteIs
  <2>2. \E w \in Words, i \in 1 .. Len(used) : x.key = SlotKey(w, i)
    BY <1>2 DEF IsSlotWrite, One
  <2>3. \A i \in 1 .. Len(used) : i \in Places
    BY <1>1 DEF Places
  <2> QED BY <1>2, <2>1, <2>2, <2>3 DEF used
<1>3. CASE ~ (f[CountKey] > 0) /\ x = One(CountKey, Len(used))
  BY <1>3, KeysAre DEF One, used
<1>4. CASE x = One(SchemaKey, Settings!CurrentSchema)
  BY <1>4, KeysAre DEF One
<1>5. CASE /\ f[SchemaKey] = 1
           /\ x \in {One(TimeoutKey, TimeoutFrom(f)), One(RetriesKey, RetriesFrom(f)),
                     One(SchemaKey, 2)}
  BY <1>5, KeysAre DEF One
<1> QED BY <1>2, <1>3, <1>4, <1>5 DEF IsMigrationWrite, IsProfileWrite, used

LEMMA MigrationLeaves ==
    ASSUME Settings!Bounds, NEW f \in Flashes, f[SchemaKey] \in {1, 2},
           Settings!CountsWholeProfiles(f),
           NEW g, g = Settings!After(f, Settings!LoadWrites(f))
    PROVE  /\ g \in Flashes /\ Settings!CountsWholeProfiles(g)
           /\ Settings!TimeoutOr(g[TimeoutKey]) = TimeoutFrom(f)
           /\ Settings!RetriesOr(g[RetriesKey]) = RetriesFrom(f)
           /\ f[CountKey] > 0 =>
                 /\ g[CountKey] = f[CountKey]
                 /\ \A w \in Words, i \in Places : g[SlotKey(w, i)] = f[SlotKey(w, i)]
           /\ ~ (f[CountKey] > 0) =>
                 /\ g[CountKey] = Len(Copied(f))
                 /\ \A i \in 1 .. Len(Copied(f)), w \in Words :
                       g[SlotKey(w, i)] = Copied(f)[i][w]
<1> DEFINE q == Settings!LoadWrites(f)
<1>1. q \in Seq(Writes) /\ \A x : x \in All(q) <=> IsMigrationWrite(x, f)
  BY MigrationWrites
<1>2. Settings!CountsWholeProfiles(g)
  <2>1. IsMigration(q)
    BY SchemaTells, LoadMigrates
  <2> HIDE DEF q
  <2> QED BY <2>1, AfterMigration DEF q
<1>3. g = Settings!After(f, q)
  OBVIOUS
<1> HIDE DEF q
<1>4. g \in Flashes
  BY <1>1, <1>3, AfterIs
<1>5. \A x \in All(q) : IsMigrationWrite(x, f)
  BY <1>1
<1>6. \A key \in Settings!Keys : (\A x \in All(q) : x.key # key) => g[key] = f[key]
  BY <1>3, AfterNone
<1>7. Settings!TimeoutOr(g[TimeoutKey]) = TimeoutFrom(f)
  <2>1. CASE f[SchemaKey] = 1
    <3> DEFINE x == One(TimeoutKey, TimeoutFrom(f))
    <3>1. x \in All(q) /\ x.key = TimeoutKey /\ x.value = TimeoutFrom(f)
      BY <1>1, <2>1 DEF IsMigrationWrite, One
    <3>2. \A y \in All(q) : y.key = x.key => y.value = x.value
      BY <1>5, <3>1, MigrationWriteIs
    <3> HIDE DEF x
    <3>3. g[TimeoutKey] = TimeoutFrom(f)
      BY <1>1, <1>3, <3>1, <3>2, AfterAll
    <3> QED BY <3>3, FromAreValid DEF Settings!TimeoutOr
  <2>2. CASE f[SchemaKey] = 2
    <3>1. \A x \in All(q) : x.key # TimeoutKey
      BY <1>5, <2>2, MigrationWriteIs
    <3>2. g[TimeoutKey] = f[TimeoutKey]
      BY <1>6, <3>1, KeysAre
    <3> QED BY <2>2, <3>2 DEF TimeoutFrom
  <2> QED BY <2>1, <2>2
<1>8. Settings!RetriesOr(g[RetriesKey]) = RetriesFrom(f)
  <2>1. CASE f[SchemaKey] = 1
    <3> DEFINE x == One(RetriesKey, RetriesFrom(f))
    <3>1. x \in All(q) /\ x.key = RetriesKey /\ x.value = RetriesFrom(f)
      BY <1>1, <2>1 DEF IsMigrationWrite, One
    <3>2. \A y \in All(q) : y.key = x.key => y.value = x.value
      BY <1>5, <3>1, MigrationWriteIs
    <3> HIDE DEF x
    <3>3. g[RetriesKey] = RetriesFrom(f)
      BY <1>1, <1>3, <3>1, <3>2, AfterAll
    <3> QED BY <3>3, FromAreValid DEF Settings!RetriesOr
  <2>2. CASE f[SchemaKey] = 2
    <3>1. \A x \in All(q) : x.key # RetriesKey
      BY <1>5, <2>2, MigrationWriteIs
    <3>2. g[RetriesKey] = f[RetriesKey]
      BY <1>6, <3>1, KeysAre
    <3> QED BY <2>2, <3>2 DEF RetriesFrom
  <2> QED BY <2>1, <2>2
<1>9. CASE f[CountKey] > 0
  <2>1. \A x \in All(q) : /\ x.key # CountKey
                          /\ \A w \in Words, i \in Places : x.key # SlotKey(w, i)
    BY <1>5, <1>9, MigrationWriteIs
  <2>2. g[CountKey] = f[CountKey]
    BY <1>6, <2>1, KeysAre
  <2>3. \A w \in Words, i \in Places : g[SlotKey(w, i)] = f[SlotKey(w, i)]
    BY <1>6, <2>1, KeysAre
  <2> QED BY <1>2, <1>4, <1>7, <1>8, <1>9, <2>2, <2>3
<1>10. CASE ~ (f[CountKey] > 0)
  <2> DEFINE used == Copied(f)
  <2>1. g[CountKey] = Len(used)
    <3> DEFINE x == One(CountKey, Len(used))
    <3>1. x \in All(q) /\ x.key = CountKey /\ x.value = Len(used)
      BY <1>1, <1>10 DEF IsMigrationWrite, IsProfileWrite, One
    <3>2. \A y \in All(q) : y.key = x.key => y.value = x.value
      BY <1>5, <3>1, MigrationWriteIs
    <3> HIDE DEF x
    <3> QED BY <1>1, <1>3, <3>1, <3>2, AfterAll
  <2>2. ASSUME NEW i \in 1 .. Len(used), NEW w \in Words
        PROVE  g[SlotKey(w, i)] = used[i][w]
    <3> DEFINE x == One(SlotKey(w, i), used[i][w])
    <3>1. i \in Places
      <4>1. Len(used) \in Nat /\ Len(used) <= ProfileSlots /\ ProfileSlots \in Nat
        BY CopiedAre DEF Settings!Bounds
      <4> HIDE DEF used
      <4> QED BY <4>1 DEF Places
    <3>2. IsProfileWrite(x, used, Len(used))
      BY DEF IsProfileWrite, IsSlotWrite
    <3>3. x \in All(q) /\ x.key = SlotKey(w, i) /\ x.value = used[i][w]
      BY <1>1, <1>10, <3>2 DEF IsMigrationWrite, One
    <3>4. \A y \in All(q) : y.key = x.key => y.value = x.value
      BY <1>5, <3>1, <3>3, MigrationWriteIs
    <3> HIDE DEF x
    <3> QED BY <1>1, <1>3, <3>3, <3>4, AfterAll
  <2> QED BY <1>2, <1>4, <1>7, <1>8, <1>10, <2>1, <2>2
<1> QED BY <1>9, <1>10

LEMMA ProfilesAlike ==
    ASSUME Settings!Bounds, NEW f \in Flashes, NEW g \in Flashes,
           Settings!CountsWholeProfiles(f), Settings!CountsWholeProfiles(g),
           g[CountKey] = f[CountKey],
           \A i \in 1 .. CountedIn(f), w \in Words : g[SlotKey(w, i)] = f[SlotKey(w, i)]
    PROVE  Settings!LoadedFrom(g).profiles = Settings!LoadedFrom(f).profiles
<1> DEFINE c == Settings!LoadedFrom(f)
           d == Settings!LoadedFrom(g)
           k == CountedIn(f)
<1>1. CountedIn(g) = k
  BY DEF CountedIn
<1>2. IsHeldConfig(c, k) /\ IsHeldConfig(d, k)
  BY <1>1, LoadIs
<1>3. \A i \in 1 .. k : /\ c.profiles[i] = Settings!ReadSlot(f, Settings!Word, i)
                        /\ d.profiles[i] = Settings!ReadSlot(g, Settings!Word, i)
  BY <1>1, LoadIs
<1> HIDE DEF c, d, k
<1>4. /\ c.profiles \in Tables /\ d.profiles \in Tables
      /\ k \in 0 .. ProfileSlots /\ ProfileSlots \in Nat
  BY <1>2 DEF IsHeldConfig, Settings!Bounds
<1>5. \A i \in 1 .. k : Settings!ReadSlot(g, Settings!Word, i) =
                        Settings!ReadSlot(f, Settings!Word, i)
  <2>1. 1 \in Words /\ 2 \in Words /\ 3 \in Words /\ 4 \in Words
    BY DEF Words
  <2>2. \A i \in 1 .. k : i \in Places
    BY <1>4 DEF Places
  <2> QED BY <2>1, <2>2, WordsAre DEF k
<1>6. \A i \in Places : c.profiles[i] = d.profiles[i]
  <2> SUFFICES ASSUME NEW i \in Places PROVE c.profiles[i] = d.profiles[i]
    OBVIOUS
  <2>1. CASE i <= k
    <3>1. i \in 1 .. k
      BY <1>4, <2>1 DEF Places
    <3> QED BY <1>3, <1>5, <3>1
  <2>2. CASE ~ (i <= k)
    <3>1. c.profiles[i] = <<>> /\ d.profiles[i] = <<>>
      BY <1>2, <1>4, <2>2 DEF IsHeldConfig, IsUsedUpTo, Tables
    <3> QED BY <3>1
  <2> QED BY <2>1, <2>2
<1>7. c.profiles = d.profiles
  BY <1>4, <1>6 DEF Tables
<1> QED BY <1>7 DEF c, d

\* What an uninterrupted load gives, of a flash to migrate
LEMMA RecoveredTells ==
    ASSUME Settings!Bounds, NEW f \in Flashes, f[SchemaKey] \in {1, 2},
           Settings!CountsWholeProfiles(f), NEW r, r = Settings!RecoveredFrom(f)
    PROVE  /\ \E k : IsHeldConfig(r, k)
           /\ r.timeout = TimeoutFrom(f) /\ r.retries = RetriesFrom(f)
           /\ f[CountKey] > 0 => r.profiles = Settings!LoadedFrom(f).profiles
<1> DEFINE g == Settings!After(f, Settings!LoadWrites(f))
<1>1. /\ g \in Flashes /\ Settings!CountsWholeProfiles(g)
      /\ Settings!TimeoutOr(g[TimeoutKey]) = TimeoutFrom(f)
      /\ Settings!RetriesOr(g[RetriesKey]) = RetriesFrom(f)
      /\ f[CountKey] > 0 =>
            /\ g[CountKey] = f[CountKey]
            /\ \A w \in Words, i \in Places : g[SlotKey(w, i)] = f[SlotKey(w, i)]
  BY MigrationLeaves
<1>2. r = Settings!LoadedFrom(g)
  BY DEF Settings!RecoveredFrom
<1> HIDE DEF g
<1>3. /\ IsHeldConfig(r, CountedIn(g))
      /\ r.timeout = TimeoutFrom(f) /\ r.retries = RetriesFrom(f)
  BY <1>1, <1>2, LoadIs
<1>4. ASSUME f[CountKey] > 0 PROVE r.profiles = Settings!LoadedFrom(f).profiles
  <2>1. \A i \in 1 .. CountedIn(f) : i \in Places
    BY LoadIs DEF IsHeldConfig, Places, Settings!Bounds
  <2> QED BY <1>1, <1>2, <1>4, <2>1, ProfilesAlike
<1> QED BY <1>3, <1>4

LEMMA RecoveredAlike ==
    ASSUME Settings!Bounds, NEW f \in Flashes, f[SchemaKey] \in {1, 2},
           Settings!CountsWholeProfiles(f), ~ (f[CountKey] > 0),
           NEW g \in Flashes, g[SchemaKey] \in {1, 2},
           Settings!CountsWholeProfiles(g), ~ (g[CountKey] > 0), Copied(f) = Copied(g)
    PROVE  Settings!RecoveredFrom(g).profiles = Settings!RecoveredFrom(f).profiles
<1> DEFINE a == Settings!After(f, Settings!LoadWrites(f))
           b == Settings!After(g, Settings!LoadWrites(g))
           n == Len(Copied(f))
<1>1. /\ a \in Flashes /\ Settings!CountsWholeProfiles(a) /\ a[CountKey] = n
      /\ \A i \in 1 .. n, w \in Words : a[SlotKey(w, i)] = Copied(f)[i][w]
  BY MigrationLeaves
<1>2. /\ b \in Flashes /\ Settings!CountsWholeProfiles(b) /\ b[CountKey] = n
      /\ \A i \in 1 .. n, w \in Words : b[SlotKey(w, i)] = Copied(f)[i][w]
  BY MigrationLeaves
<1>3. n \in Nat /\ n <= ProfileSlots
  BY CopiedAre
<1> HIDE DEF a, b, n
<1>4. CountedIn(a) = n
  BY <1>1, <1>3 DEF CountedIn, Absent
<1>5. Settings!LoadedFrom(b).profiles = Settings!LoadedFrom(a).profiles
  BY <1>1, <1>2, <1>4, ProfilesAlike
<1> QED BY <1>5 DEF Settings!RecoveredFrom, a, b

\* Keys of the current schema are none of those that older ones left
LEMMA CurrentKeysAre ==
    ASSUME NEW key, \/ key \in {TimeoutKey, RetriesKey, CountKey, SchemaKey}
                    \/ \E w \in Words, i \in Places : key = SlotKey(w, i)
    PROVE  /\ key \notin {Settings!Key("legacy count"), Settings!Key("legacy timeout"),
                          Settings!Key("legacy retries")}
           /\ \A w \in Words : \A i : key # <<Settings!Legacy[w], i>>
<1> DEFINE Olders == {"legacy count", "legacy timeout", "legacy retries",
                      "legacy k", "legacy c", "legacy i", "legacy r"}
<1>1. PICK name, i : key = <<name, i>> /\ name \notin Olders
  <2>1. CASE key \in {TimeoutKey, RetriesKey, CountKey, SchemaKey}
    <3>1. \E name \in {"timeout", "retries", "count", "schema"} : key = <<name, 0>>
      BY <2>1 DEF TimeoutKey, RetriesKey, CountKey, SchemaKey, Settings!Key
    <3>2. \A name \in {"timeout", "retries", "count", "schema"} : name \notin Olders
      OBVIOUS
    <3> QED BY <3>1, <3>2
  <2>2. CASE \E w \in Words, i \in Places : key = SlotKey(w, i)
    <3>1. PICK w \in Words, i \in Places : key = SlotKey(w, i)
      BY <2>2
    <3>2. Settings!Word[w] \in {"k", "c", "i", "r"}
      BY DEF Words, Settings!Word
    <3>3. \A name \in {"k", "c", "i", "r"} : name \notin Olders
      OBVIOUS
    <3> QED BY <3>1, <3>2, <3>3 DEF SlotKey
  <2> QED BY <2>1, <2>2
<1>2. \A w \in Words : Settings!Legacy[w] \in Olders
  <2>1. /\ Settings!Legacy[1] = "legacy k" /\ Settings!Legacy[2] = "legacy c"
        /\ Settings!Legacy[3] = "legacy i" /\ Settings!Legacy[4] = "legacy r"
    BY DEF Settings!Legacy
  <2>2. \A w \in Words : w \in {1, 2, 3, 4}
    BY DEF Words
  <2> QED BY <2>1, <2>2
<1>3. {"legacy count", "legacy timeout", "legacy retries"} \subseteq Olders
  OBVIOUS
<1> HIDE DEF Olders
<1> QED BY <1>1, <1>2, <1>3 DEF Settings!Key

LEMMA FourWords ==
    1 \in Words /\ 2 \in Words /\ 3 \in Words /\ 4 \in Words
  BY DEF Words

LEMMA CopiedAlike ==
    ASSUME NEW f, NEW g,
           g[Settings!Key("legacy count")] = f[Settings!Key("legacy count")],
           \A w \in Words : \A i : g[<<Settings!Legacy[w], i>>] = f[<<Settings!Legacy[w], i>>]
    PROVE  Copied(g) = Copied(f)
<1>1. 1 \in Words /\ 2 \in Words /\ 3 \in Words /\ 4 \in Words
  BY FourWords
<1>2. \A i : Settings!ReadSlot(g, Settings!Legacy, i) = Settings!ReadSlot(f, Settings!Legacy, i)
  BY <1>1 DEF Settings!ReadSlot
<1>3. LegacyOf(g) = LegacyOf(f)
  BY <1>2 DEF LegacyOf
<1> QED BY <1>3 DEF Copied

-----------------------------------------------------------------------------
(* A migration that is interrupted                                         *)

\* What is still to be written leads to what an uninterrupted load gives
Moves(f, q) ==
    /\ f[SchemaKey] \in {1, 2} /\ InOrder(q)
    /\ \A x \in All(q) :
          /\ \/ x.key \in {TimeoutKey, RetriesKey, CountKey, SchemaKey}
             \/ \E w \in Words, i \in Places : x.key = SlotKey(w, i)
          /\ x.key = TimeoutKey => f[SchemaKey] = 1 /\ x.value = TimeoutFrom(f)
          /\ x.key = RetriesKey => f[SchemaKey] = 1 /\ x.value = RetriesFrom(f)
          /\ x.key \notin {TimeoutKey, RetriesKey, SchemaKey} => ~ (f[CountKey] > 0)
    /\ Settings!LoadedFrom(Settings!After(f, q)) = Settings!RecoveredFrom(f)

LEMMA LoadMoves ==
    ASSUME Settings!Bounds, NEW f \in Flashes, f[SchemaKey] \in {1, 2}
    PROVE  Moves(f, Settings!LoadWrites(f))
<1> DEFINE q == Settings!LoadWrites(f)
<1>1. InOrder(q) /\ \A x \in All(q) : IsMigrationWrite(x, f)
  BY MigrationWrites
<1>2. Settings!LoadedFrom(Settings!After(f, q)) = Settings!RecoveredFrom(f)
  BY DEF Settings!RecoveredFrom
<1> HIDE DEF q
<1>3. \A x \in All(q) :
          /\ \/ x.key \in {TimeoutKey, RetriesKey, CountKey, SchemaKey}
             \/ \E w \in Words, i \in Places : x.key = SlotKey(w, i)
          /\ x.key = TimeoutKey => f[SchemaKey] = 1 /\ x.value = TimeoutFrom(f)
          /\ x.key = RetriesKey => f[SchemaKey] = 1 /\ x.value = RetriesFrom(f)
          /\ x.key \notin {TimeoutKey, RetriesKey, SchemaKey} => ~ (f[CountKey] > 0)
  <2> SUFFICES ASSUME NEW x \in All(q)
               PROVE  /\ \/ x.key \in {TimeoutKey, RetriesKey, CountKey, SchemaKey}
                         \/ \E w \in Words, i \in Places : x.key = SlotKey(w, i)
                      /\ x.key = TimeoutKey => f[SchemaKey] = 1 /\ x.value = TimeoutFrom(f)
                      /\ x.key = RetriesKey => f[SchemaKey] = 1 /\ x.value = RetriesFrom(f)
                      /\ x.key \notin {TimeoutKey, RetriesKey, SchemaKey} => ~ (f[CountKey] > 0)
    OBVIOUS
  <2>1. /\ x.key = TimeoutKey => f[SchemaKey] = 1 /\ x.value = TimeoutFrom(f)
        /\ x.key = RetriesKey => f[SchemaKey] = 1 /\ x.value = RetriesFrom(f)
        /\ x.key = CountKey => ~ (f[CountKey] > 0)
        /\ \A w \in Words, i \in Places : x.key = SlotKey(w, i) => ~ (f[CountKey] > 0)
        /\ \/ x.key \in {TimeoutKey, RetriesKey, CountKey, SchemaKey}
           \/ \E w \in Words, i \in Places : x.key = SlotKey(w, i)
    BY <1>1, MigrationWriteIs
  <2> QED BY <2>1
<1>4. Moves(f, q)
  BY <1>1, <1>2, <1>3 DEF Moves
<1> QED BY <1>4 DEF q

\* What follows the first of some writes
LEMMA FirstIsInOrder ==
    ASSUME NEW q \in Seq(Writes), q # <<>>, InOrder(q)
    PROVE  /\ InOrder(Tail(q))
           /\ Head(q).key = SchemaKey /\ Tail(q) # <<>> =>
                 /\ Head(q).value = 2
                 /\ \A x \in All(Tail(q)) : x.key \notin {TimeoutKey, RetriesKey}
<1> DEFINE p == Tail(q)
<1>1. /\ Len(q) \in Nat \ {0} /\ DOMAIN q = 1 .. Len(q) /\ Head(q) = q[1]
      /\ p \in Seq(Writes) /\ DOMAIN p = 1 .. Len(q) - 1
      /\ \A m \in DOMAIN p : p[m] = q[m + 1]
      /\ p # <<>> => Len(q) > 1
  OBVIOUS
<1> HIDE DEF p
<1>2. 1 \in DOMAIN q /\ \A m \in DOMAIN p : m + 1 \in DOMAIN q /\ 1 < m + 1 /\ p[m] = q[m + 1]
  BY <1>1
<1>3. \A m, n \in DOMAIN p : m < n => m + 1 < n + 1
  BY <1>1
<1>4. InOrder(p)
  BY <1>2, <1>3 DEF InOrder
<1>5. ASSUME q[1].key = SchemaKey, p # <<>>
      PROVE  q[1].value = 2 /\ \A x \in All(p) : x.key \notin {TimeoutKey, RetriesKey}
  <2>1. 2 \in DOMAIN q /\ 1 < 2
    BY <1>1, <1>5
  <2>2. q[1].value = 2
    BY <1>2, <1>5, <2>1 DEF InOrder
  <2>3. \A m \in DOMAIN p : p[m].key \notin {TimeoutKey, RetriesKey}
    BY <1>2, <1>5 DEF InOrder
  <2> QED BY <2>2, <2>3 DEF All
<1> QED BY <1>1, <1>4, <1>5 DEF p

LEMMA LaterFrom ==
    ASSUME NEW f, f[SchemaKey] # 1
    PROVE  /\ TimeoutFrom(f) = Settings!TimeoutOr(f[TimeoutKey])
           /\ RetriesFrom(f) = Settings!RetriesOr(f[RetriesKey])
  BY DEF TimeoutFrom, RetriesFrom

LEMMA NoneOfThem ==
    ASSUME NEW f, NEW q
    PROVE  \A key \in Settings!Keys :
              (\A x \in All(q) : x.key # key) => Settings!After(f, q)[key] = f[key]
  BY AfterNone

LEMMA CountedAre ==
    ASSUME Settings!Bounds, NEW f \in Flashes, Settings!CountsWholeProfiles(f)
    PROVE  \A i \in 1 .. CountedIn(f) : i \in Places
<1> DEFINE k == CountedIn(f)
<1>1. k \in 0 .. ProfileSlots /\ ProfileSlots \in Nat
  BY LoadIs DEF IsHeldConfig, Settings!Bounds
<1> HIDE DEF k
<1>2. \A i \in 1 .. k : i \in Places
  BY <1>1 DEF Places
<1> QED BY <1>2 DEF k

\* What a write of a migration leaves alone
LEMMA MoveLeaves ==
    ASSUME NEW f \in Flashes, NEW x \in Writes, NEW g, g = [f EXCEPT ![x.key] = x.value],
           \/ x.key \in {TimeoutKey, RetriesKey, CountKey, SchemaKey}
           \/ \E w \in Words, i \in Places : x.key = SlotKey(w, i)
    PROVE  /\ Copied(g) = Copied(f)
           /\ \A key : key # x.key => g[key] = f[key]
           /\ g[x.key] = x.value
           /\ g[Settings!Key("legacy timeout")] = f[Settings!Key("legacy timeout")]
           /\ g[Settings!Key("legacy retries")] = f[Settings!Key("legacy retries")]
<1>1. x.key \in Settings!Keys
  BY DEF Writes
<1>2. \A key : key # x.key => g[key] = f[key]
  BY DEF Flashes
<1>3. g[x.key] = x.value
  BY <1>1 DEF Flashes
<1>4. /\ x.key \notin {Settings!Key("legacy count"), Settings!Key("legacy timeout"),
                       Settings!Key("legacy retries")}
      /\ \A w \in Words : \A i : x.key # <<Settings!Legacy[w], i>>
  <2> DEFINE key == x.key
  <2>1. \/ key \in {TimeoutKey, RetriesKey, CountKey, SchemaKey}
        \/ \E w \in Words, i \in Places : key = SlotKey(w, i)
    OBVIOUS
  <2> HIDE DEF key
  <2>2. /\ key \notin {Settings!Key("legacy count"), Settings!Key("legacy timeout"),
                       Settings!Key("legacy retries")}
        /\ \A w \in Words : \A i : key # <<Settings!Legacy[w], i>>
    BY <2>1, CurrentKeysAre
  <2> QED BY <2>2 DEF key
<1>5. Copied(g) = Copied(f)
  <2>1. /\ g[Settings!Key("legacy count")] = f[Settings!Key("legacy count")]
        /\ \A w \in Words : \A i : g[<<Settings!Legacy[w], i>>] = f[<<Settings!Legacy[w], i>>]
    BY <1>2, <1>4
  <2> QED BY <2>1, CopiedAlike
<1> QED BY <1>2, <1>3, <1>4, <1>5

\* One write of a migration: were it interrupted now, the next load would give the same
LEMMA WriteMoves ==
    ASSUME Settings!Bounds, NEW f, NEW q, Whole(f, q), Moves(f, q), q # <<>>, Tail(q) # <<>>,
           NEW g, g = [f EXCEPT ![Head(q).key] = Head(q).value]
    PROVE  Moves(g, Tail(q)) /\ Settings!RecoveredFrom(g) = Settings!RecoveredFrom(f)
<1> DEFINE x == Head(q)
           p == Tail(q)
           r == Settings!RecoveredFrom(f)
           s == Settings!RecoveredFrom(g)
<1>1. /\ f \in Flashes /\ Settings!CountsWholeProfiles(f) /\ q \in Seq(Writes) /\ Ordered(q)
      /\ f[SchemaKey] \in {1, 2} /\ InOrder(q)
      /\ Settings!LoadedFrom(Settings!After(f, q)) = r
      /\ Settings!CountsWholeProfiles(Settings!After(f, q))
  BY DEF Whole, Moves
<1>2. /\ g \in Flashes /\ Settings!CountsWholeProfiles(g)
      /\ Settings!After(g, p) = Settings!After(f, q)
  BY WriteIsWhole DEF Whole
<1>3. /\ x \in All(q) /\ x \in Writes /\ p \in Seq(Writes) /\ All(p) \subseteq All(q)
      /\ x.key = CountKey => \A y \in All(p) : y.key = SchemaKey
  BY <1>1, TailIs, AllAre
<1>4. /\ InOrder(p)
      /\ x.key = SchemaKey =>
            x.value = 2 /\ \A y \in All(p) : y.key \notin {TimeoutKey, RetriesKey}
  BY <1>1, FirstIsInOrder
<1>5. \A y \in All(q) :
          /\ \/ y.key \in {TimeoutKey, RetriesKey, CountKey, SchemaKey}
             \/ \E w \in Words, i \in Places : y.key = SlotKey(w, i)
          /\ y.key = TimeoutKey => f[SchemaKey] = 1 /\ y.value = TimeoutFrom(f)
          /\ y.key = RetriesKey => f[SchemaKey] = 1 /\ y.value = RetriesFrom(f)
          /\ y.key \notin {TimeoutKey, RetriesKey, SchemaKey} => ~ (f[CountKey] > 0)
  BY DEF Moves
<1>6. g = [f EXCEPT ![x.key] = x.value]
  OBVIOUS
<1> SUFFICES Moves(g, p) /\ s = r
  OBVIOUS
<1> HIDE DEF x, p
<1>7. \/ x.key \in {TimeoutKey, RetriesKey, CountKey, SchemaKey}
      \/ \E w \in Words, i \in Places : x.key = SlotKey(w, i)
  BY <1>3, <1>5
<1>8. /\ Copied(g) = Copied(f)
      /\ \A key : key # x.key => g[key] = f[key]
      /\ g[x.key] = x.value
      /\ g[Settings!Key("legacy timeout")] = f[Settings!Key("legacy timeout")]
      /\ g[Settings!Key("legacy retries")] = f[Settings!Key("legacy retries")]
  BY <1>1, <1>3, <1>6, <1>7, MoveLeaves
<1>9. /\ g[SchemaKey] \in {1, 2} /\ (x.key # SchemaKey => g[SchemaKey] = f[SchemaKey])
      /\ x.key = SchemaKey => g[SchemaKey] = 2
  BY <1>1, <1>4, <1>8
<1>10. /\ \E k : IsHeldConfig(r, k)
       /\ r.timeout = TimeoutFrom(f) /\ r.retries = RetriesFrom(f)
       /\ f[CountKey] > 0 => r.profiles = Settings!LoadedFrom(f).profiles
  BY <1>1, RecoveredTells
<1>11. /\ \E k : IsHeldConfig(s, k)
       /\ s.timeout = TimeoutFrom(g) /\ s.retries = RetriesFrom(g)
       /\ g[CountKey] > 0 => s.profiles = Settings!LoadedFrom(g).profiles
  BY <1>2, <1>9, RecoveredTells
<1> DEFINE h == Settings!After(g, p)
<1>12. h \in Flashes /\ Settings!CountsWholeProfiles(h) /\ Settings!LoadedFrom(h) = r
  BY <1>1, <1>2, <1>3, AfterIs
<1>13. ASSUME NEW key \in Settings!Keys, \A y \in All(p) : y.key # key
       PROVE  h[key] = g[key]
  <2>1. h = Settings!After(g, p)
    OBVIOUS
  <2> HIDE DEF h, r, s
  <2>2. Settings!After(g, p)[key] = g[key]
    BY <1>13, NoneOfThem
  <2> QED BY <2>1, <2>2
<1>14. /\ r.timeout = Settings!TimeoutOr(h[TimeoutKey])
       /\ r.retries = Settings!RetriesOr(h[RetriesKey])
  BY <1>12, LoadIs
<1> HIDE DEF r, s, h
<1>15. TimeoutFrom(g) = TimeoutFrom(f)
  <2>1. CASE x.key = SchemaKey
    <3>1. h[TimeoutKey] = g[TimeoutKey]
      BY <1>4, <1>13, <2>1, KeysAre
    <3>2. TimeoutFrom(g) = Settings!TimeoutOr(g[TimeoutKey])
      <4>1. g[SchemaKey] = 2
        BY <1>9, <2>1
      <4>2. g[SchemaKey] # 1
        BY <4>1
      <4> QED BY <4>2, LaterFrom
    <3> QED BY <1>10, <1>14, <3>1, <3>2
  <2>2. CASE x.key = TimeoutKey
    <3>1. f[SchemaKey] = 1 /\ x.value = TimeoutFrom(f) /\ g[SchemaKey] = 1
      BY <1>3, <1>5, <1>9, <2>2, KeysAre
    <3>2. g[TimeoutKey] = TimeoutFrom(f)
      BY <1>8, <2>2, <3>1
    <3>3. CASE Settings!Has(f, Settings!Key("legacy timeout"))
      BY <1>8, <3>1, <3>3 DEF TimeoutFrom, Settings!FirstOf, Settings!Has
    <3>4. CASE ~ Settings!Has(f, Settings!Key("legacy timeout"))
      <4>1. TimeoutFrom(g) = Settings!TimeoutOr(g[TimeoutKey])
        BY <1>8, <3>1, <3>4 DEF TimeoutFrom, Settings!FirstOf, Settings!Has, TimeoutKey
      <4>2. Settings!ValidTimeout(TimeoutFrom(f))
        BY FromAreValid
      <4> QED BY <3>2, <4>1, <4>2 DEF Settings!TimeoutOr
    <3> QED BY <3>3, <3>4
  <2>3. CASE x.key \notin {SchemaKey, TimeoutKey}
    <3>1. g[SchemaKey] = f[SchemaKey] /\ g[TimeoutKey] = f[TimeoutKey]
      BY <1>8, <2>3
    <3> QED BY <1>8, <3>1 DEF TimeoutFrom, Settings!FirstOf, Settings!Has, TimeoutKey
  <2> QED BY <2>1, <2>2, <2>3
<1>16. RetriesFrom(g) = RetriesFrom(f)
  <2>1. CASE x.key = SchemaKey
    <3>1. h[RetriesKey] = g[RetriesKey]
      BY <1>4, <1>13, <2>1, KeysAre
    <3>2. RetriesFrom(g) = Settings!RetriesOr(g[RetriesKey])
      <4>1. g[SchemaKey] = 2
        BY <1>9, <2>1
      <4>2. g[SchemaKey] # 1
        BY <4>1
      <4> QED BY <4>2, LaterFrom
    <3> QED BY <1>10, <1>14, <3>1, <3>2
  <2>2. CASE x.key = RetriesKey
    <3>1. f[SchemaKey] = 1 /\ x.value = RetriesFrom(f) /\ g[SchemaKey] = 1
      BY <1>3, <1>5, <1>9, <2>2, KeysAre
    <3>2. g[RetriesKey] = RetriesFrom(f)
      BY <1>8, <2>2, <3>1
    <3>3. CASE Settings!Has(f, Settings!Key("legacy retries"))
      BY <1>8, <3>1, <3>3 DEF RetriesFrom, Settings!FirstOf, Settings!Has
    <3>4. CASE ~ Settings!Has(f, Settings!Key("legacy retries"))
      <4>1. RetriesFrom(g) = Settings!RetriesOr(g[RetriesKey])
        BY <1>8, <3>1, <3>4 DEF RetriesFrom, Settings!FirstOf, Settings!Has, RetriesKey
      <4>2. Settings!ValidRetries(RetriesFrom(f))
        BY FromAreValid
      <4> QED BY <3>2, <4>1, <4>2 DEF Settings!RetriesOr
    <3> QED BY <3>3, <3>4
  <2>3. CASE x.key \notin {SchemaKey, RetriesKey}
    <3>1. g[SchemaKey] = f[SchemaKey] /\ g[RetriesKey] = f[RetriesKey]
      BY <1>8, <2>3
    <3> QED BY <1>8, <3>1 DEF RetriesFrom, Settings!FirstOf, Settings!Has, RetriesKey
  <2> QED BY <2>1, <2>2, <2>3
<1>17. s.profiles = r.profiles
  <2>1. CASE x.key = CountKey /\ g[CountKey] > 0
    <3>1. h[CountKey] = g[CountKey] /\ \A w \in Words, i \in Places : h[SlotKey(w, i)] = g[SlotKey(w, i)]
      BY <1>3, <1>13, <2>1, KeysAre
    <3>2. \A i \in 1 .. CountedIn(g) : i \in Places
      BY <1>2, CountedAre
    <3>3. Settings!LoadedFrom(h).profiles = Settings!LoadedFrom(g).profiles
      BY <1>2, <1>12, <3>1, <3>2, ProfilesAlike
    <3> QED BY <1>11, <1>12, <2>1, <3>3
  <2>2. CASE ~ (f[CountKey] > 0) /\ ~ (g[CountKey] > 0)
    BY <1>1, <1>2, <1>8, <1>9, <2>2, RecoveredAlike DEF r, s
  <2>3. CASE f[CountKey] > 0
    <3>1. x.key \in {TimeoutKey, RetriesKey, SchemaKey}
      BY <1>3, <1>5, <2>3
    <3>2. /\ g[CountKey] = f[CountKey]
          /\ \A w \in Words, i \in Places : g[SlotKey(w, i)] = f[SlotKey(w, i)]
      BY <1>8, <3>1, KeysAre
    <3>3. \A i \in 1 .. CountedIn(f) : i \in Places
      BY <1>1, CountedAre
    <3>4. Settings!LoadedFrom(g).profiles = Settings!LoadedFrom(f).profiles
      BY <1>1, <1>2, <3>2, <3>3, ProfilesAlike
    <3> QED BY <1>10, <1>11, <2>3, <3>2, <3>4
  <2>4. g[CountKey] > 0 => x.key = CountKey \/ f[CountKey] > 0
    BY <1>8
  <2> QED BY <2>1, <2>2, <2>3, <2>4
<1>18. s = r
  <2>1. Fields(r) /\ Fields(s)
    BY <1>10, <1>11 DEF IsHeldConfig
  <2> QED BY <1>10, <1>11, <1>15, <1>16, <1>17, <2>1 DEF Fields
<1>19. ASSUME NEW y \in All(p)
       PROVE  /\ \/ y.key \in {TimeoutKey, RetriesKey, CountKey, SchemaKey}
                 \/ \E w \in Words, i \in Places : y.key = SlotKey(w, i)
              /\ y.key = TimeoutKey => g[SchemaKey] = 1 /\ y.value = TimeoutFrom(g)
              /\ y.key = RetriesKey => g[SchemaKey] = 1 /\ y.value = RetriesFrom(g)
              /\ y.key \notin {TimeoutKey, RetriesKey, SchemaKey} => ~ (g[CountKey] > 0)
  <2>1. /\ \/ y.key \in {TimeoutKey, RetriesKey, CountKey, SchemaKey}
           \/ \E w \in Words, i \in Places : y.key = SlotKey(w, i)
        /\ y.key = TimeoutKey => f[SchemaKey] = 1 /\ y.value = TimeoutFrom(f)
        /\ y.key = RetriesKey => f[SchemaKey] = 1 /\ y.value = RetriesFrom(f)
        /\ y.key \notin {TimeoutKey, RetriesKey, SchemaKey} => ~ (f[CountKey] > 0)
    BY <1>3, <1>5
  <2>2. y.key \in {TimeoutKey, RetriesKey} => g[SchemaKey] = f[SchemaKey]
    BY <1>4, <1>9
  <2>3. y.key \notin {TimeoutKey, RetriesKey, SchemaKey} => g[CountKey] = f[CountKey]
    BY <1>3, <1>8
  <2> QED BY <1>15, <1>16, <2>1, <2>2, <2>3
<1>20. Moves(g, p)
  BY <1>4, <1>9, <1>12, <1>18, <1>19 DEF Moves, h, s
<1> QED BY <1>18, <1>20

-----------------------------------------------------------------------------
(* Settings that come back                                                 *)

UsedAt(c, i) == c.profiles[i] # <<>>

\* Settings of one time have the same identities in the same places
Agree(S) == \A c, d \in S, i \in Places :
    UsedAt(c, i) /\ UsedAt(d, i) => Key(c.profiles[i]) = Key(d.profiles[i])

\* Each value is one of these settings', each profile's identity and words too, and what
\* all of them have is there
TiedTo(l, S) ==
    /\ \E c \in S : c.timeout = l.timeout
    /\ \E c \in S : c.retries = l.retries
    /\ \A i \in Places, w \in 3 .. 4 : UsedAt(l, i) =>
          \E c \in S : /\ UsedAt(c, i) /\ Key(c.profiles[i]) = Key(l.profiles[i])
                       /\ c.profiles[i][w] = l.profiles[i][w]
    /\ \E c \in S : \A i \in Places : UsedAt(c, i) => UsedAt(l, i)

Recoverable(f, S) ==
    Settings!Schema(f) <= Settings!CurrentSchema =>
        /\ \A c \in S : \E k : IsHeldConfig(c, k)
        /\ Agree(S) /\ TiedTo(Settings!RecoveredFrom(f), S)
        /\ ~ Settles(f) => f[SchemaKey] \in {1, 2}

\* The settings held now, which have all profiles that any since the last save had
Newest(c, S) == c \in S /\ \A d \in S, i \in Places : UsedAt(d, i) => UsedAt(c, i)

BackInv ==
    /\ Recoverable(flash, since)
    /\ Settings!Running => Newest(config, since)
    /\ doing = "migrating" => Moves(flash, todo)

LEMMA RecoveredSettled ==
    ASSUME Settings!Bounds, NEW f \in Flashes, Settles(f), Settings!CountsWholeProfiles(f)
    PROVE  /\ Settings!RecoveredFrom(f) = Settings!LoadedFrom(f)
           /\ \E k : IsHeldConfig(Settings!LoadedFrom(f), k)
           /\ Settings!Schema(f) <= Settings!CurrentSchema
<1>1. Settings!RecoveredFrom(f) = Settings!LoadedFrom(f)
  BY RepairIs DEF Settings!RecoveredFrom
<1>2. IsHeldConfig(Settings!LoadedFrom(f), CountedIn(f))
  BY LoadIs
<1>3. Settings!Schema(f) <= Settings!CurrentSchema
  BY DEF Settles, Settings!CurrentSchema
<1> QED BY <1>1, <1>2, <1>3

LEMMA TiedToOwn ==
    ASSUME NEW c, NEW S, c \in S
    PROVE  TiedTo(c, S)
  BY DEF TiedTo

LEMMA RecoverableAlone ==
    ASSUME NEW f, NEW k, IsHeldConfig(Settings!RecoveredFrom(f), k),
           ~ Settles(f) => f[SchemaKey] \in {1, 2}
    PROVE  Recoverable(f, {Settings!RecoveredFrom(f)})
<1> DEFINE c == Settings!RecoveredFrom(f)
<1>1. \A d \in {c} : \E n : IsHeldConfig(d, n)
  OBVIOUS
<1> HIDE DEF c
<1>2. TiedTo(c, {c})
  BY TiedToOwn
<1>3. Agree({c})
  BY DEF Agree
<1> QED BY <1>1, <1>2, <1>3 DEF Recoverable, c

\* What comes back is no surprise
LEMMA RecoverableIsNoSurprise ==
    ASSUME Settings!Bounds, Recoverable(flash, since), Whole(flash, todo)
    PROVE  Settings!RestartIsNoSurprise
<1> SUFFICES ASSUME Settings!Schema(flash) <= Settings!CurrentSchema
             PROVE  /\ \E c \in since : c.timeout = Settings!Recovered.timeout
                    /\ \E c \in since : c.retries = Settings!Recovered.retries
                    /\ \A p \in Settings!Set(Settings!Recovered) : \A w \in 3 .. 4 :
                          \E c \in since : \E q \in Settings!Set(c) :
                              Settings!Id(q) = Settings!Id(p) /\ q[w] = p[w]
                    /\ \A id \in {Settings!Id(p) :
                                     p \in UNION {Settings!Set(c) : c \in since}} :
                          (\A c \in since : \E q \in Settings!Set(c) : Settings!Id(q) = id)
                              => \E p \in Settings!Set(Settings!Recovered) : Settings!Id(p) = id
  BY DEF Settings!RestartIsNoSurprise
<1> DEFINE l == Settings!Recovered
<1>1. Agree(since) /\ TiedTo(l, since)
  BY DEF Recoverable, Settings!Recovered
<1> HIDE DEF l
<1>2. /\ \A c : Settings!Set(c) = {c.profiles[i] : i \in Places} \ {<<>>}
      /\ \A p : Settings!Id(p) = Key(p)
  BY DEF Settings!Set, Places, Settings!Unused, Settings!Id, Key
<1>3. \A c, i : i \in Places /\ UsedAt(c, i) => c.profiles[i] \in Settings!Set(c)
  BY <1>2 DEF UsedAt
<1>4. ASSUME NEW c, NEW p \in Settings!Set(c)
      PROVE  \E i \in Places : UsedAt(c, i) /\ p = c.profiles[i]
  BY <1>2 DEF UsedAt
<1>5. ASSUME NEW p \in Settings!Set(l), NEW w \in 3 .. 4
      PROVE  \E c \in since : \E q \in Settings!Set(c) :
                 Settings!Id(q) = Settings!Id(p) /\ q[w] = p[w]
  <2>1. PICK i \in Places : UsedAt(l, i) /\ p = l.profiles[i]
    BY <1>4
  <2>2. PICK c \in since : /\ UsedAt(c, i) /\ Key(c.profiles[i]) = Key(l.profiles[i])
                           /\ c.profiles[i][w] = l.profiles[i][w]
    BY <1>1, <2>1 DEF TiedTo
  <2>3. c.profiles[i] \in Settings!Set(c)
    BY <1>3, <2>2
  <2> QED BY <1>2, <2>1, <2>2, <2>3
<1>6. ASSUME NEW id, \A c \in since : \E q \in Settings!Set(c) : Settings!Id(q) = id
      PROVE  \E p \in Settings!Set(l) : Settings!Id(p) = id
  <2>1. PICK c \in since : \A i \in Places : UsedAt(c, i) => UsedAt(l, i)
    BY <1>1 DEF TiedTo
  <2>2. PICK q \in Settings!Set(c) : Settings!Id(q) = id
    BY <1>6
  <2>3. PICK i \in Places : UsedAt(c, i) /\ q = c.profiles[i]
    BY <1>4
  <2>4. UsedAt(l, i)
    BY <2>1, <2>3
  <2>5. PICK d \in since : UsedAt(d, i) /\ Key(d.profiles[i]) = Key(l.profiles[i])
    <3>1. 3 \in 3 .. 4
      OBVIOUS
    <3> QED BY <1>1, <2>4, <3>1 DEF TiedTo
  <2>6. Key(d.profiles[i]) = Key(c.profiles[i])
    BY <1>1, <2>3, <2>5 DEF Agree
  <2>7. l.profiles[i] \in Settings!Set(l)
    BY <1>3, <2>4
  <2> QED BY <1>2, <2>2, <2>3, <2>5, <2>6, <2>7
<1> QED BY <1>1, <1>5, <1>6 DEF TiedTo, l

\* A write of a save, but for the number of profiles
LEMMA SaveWriteTies ==
    ASSUME Settings!Bounds, NEW f \in Flashes, Settings!CountsWholeProfiles(f),
           NEW c, NEW k, IsHeldConfig(c, k), NEW S, c \in S, Agree(S),
           TiedTo(Settings!LoadedFrom(f), S),
           NEW x \in Writes, IsSaveWrite(x, c, k), x.key # CountKey,
           NEW g \in Flashes, g = [f EXCEPT ![x.key] = x.value],
           Settings!CountsWholeProfiles(g)
    PROVE  TiedTo(Settings!LoadedFrom(g), S)
<1> DEFINE l == Settings!LoadedFrom(f)
           m == Settings!LoadedFrom(g)
           n == CountedIn(f)
<1>1. \A key \in Settings!Keys : g[key] = IF key = x.key THEN x.value ELSE f[key]
  <2>1. x.key \in Settings!Keys
    BY DEF Writes
  <2> QED BY <2>1 DEF Flashes
<1>2. CountedIn(g) = n
  <2>1. g[CountKey] = f[CountKey]
    BY <1>1, KeysAre
  <2> QED BY <2>1 DEF CountedIn
<1>3. /\ IsHeldConfig(l, n) /\ IsHeldConfig(m, n)
      /\ l.timeout = Settings!TimeoutOr(f[TimeoutKey])
      /\ m.timeout = Settings!TimeoutOr(g[TimeoutKey])
      /\ l.retries = Settings!RetriesOr(f[RetriesKey])
      /\ m.retries = Settings!RetriesOr(g[RetriesKey])
      /\ \A i \in 1 .. n : /\ l.profiles[i] = Settings!ReadSlot(f, Settings!Word, i)
                           /\ m.profiles[i] = Settings!ReadSlot(g, Settings!Word, i)
  BY <1>2, LoadIs
<1>4. /\ x.key = TimeoutKey => x.value = c.timeout
      /\ x.key = RetriesKey => x.value = c.retries
      /\ \A w \in Words, i \in Places : x.key = SlotKey(w, i) =>
            i \in 1 .. k /\ x.value = c.profiles[i][w]
  BY SaveWriteIs
<1>5. TiedTo(l, S)
  OBVIOUS
<1> HIDE DEF l, m, n
<1>6. /\ Settings!ValidTimeout(c.timeout) /\ Settings!ValidRetries(c.retries)
      /\ n \in 0 .. ProfileSlots /\ k \in 0 .. ProfileSlots /\ ProfileSlots \in Nat
  BY <1>3 DEF IsHeldConfig, Settings!Bounds
<1>7. \E d \in S : d.timeout = m.timeout
  <2>1. CASE x.key = TimeoutKey
    <3>1. g[TimeoutKey] = c.timeout
      BY <1>1, <1>4, <2>1, KeysAre
    <3>2. m.timeout = c.timeout
      BY <1>3, <1>6, <3>1 DEF Settings!TimeoutOr
    <3> QED BY <3>2
  <2>2. CASE x.key # TimeoutKey
    <3>1. g[TimeoutKey] = f[TimeoutKey]
      BY <1>1, <2>2, KeysAre
    <3> QED BY <1>3, <1>5, <3>1 DEF TiedTo
  <2> QED BY <2>1, <2>2
<1>8. \E d \in S : d.retries = m.retries
  <2>1. CASE x.key = RetriesKey
    <3>1. g[RetriesKey] = c.retries
      BY <1>1, <1>4, <2>1, KeysAre
    <3>2. m.retries = c.retries
      BY <1>3, <1>6, <3>1 DEF Settings!RetriesOr
    <3> QED BY <3>2
  <2>2. CASE x.key # RetriesKey
    <3>1. g[RetriesKey] = f[RetriesKey]
      BY <1>1, <2>2, KeysAre
    <3> QED BY <1>3, <1>5, <3>1 DEF TiedTo
  <2> QED BY <2>1, <2>2
<1>9. \A i \in Places : /\ UsedAt(m, i) <=> i \in 1 .. n
                        /\ UsedAt(l, i) <=> i \in 1 .. n
                        /\ UsedAt(c, i) <=> i \in 1 .. k
  <2>1. /\ DOMAIN m.profiles = Places /\ DOMAIN l.profiles = Places
        /\ DOMAIN c.profiles = Places
    BY <1>3 DEF IsHeldConfig, Tables
  <2>2. \A i \in Places : /\ m.profiles[i] # <<>> <=> i <= n
                          /\ l.profiles[i] # <<>> <=> i <= n
                          /\ c.profiles[i] # <<>> <=> i <= k
    BY <1>3, <2>1 DEF IsHeldConfig, IsUsedUpTo
  <2>3. \A i \in Places : (i <= n <=> i \in 1 .. n) /\ (i <= k <=> i \in 1 .. k)
    BY <1>6 DEF Places
  <2> QED BY <2>2, <2>3 DEF UsedAt
<1>10. \E d \in S : \A i \in Places : UsedAt(d, i) => UsedAt(m, i)
  BY <1>5, <1>9 DEF TiedTo
<1>11. ASSUME NEW i \in Places, NEW w \in 3 .. 4, UsedAt(m, i)
       PROVE  \E d \in S : /\ UsedAt(d, i) /\ Key(d.profiles[i]) = Key(m.profiles[i])
                           /\ d.profiles[i][w] = m.profiles[i][w]
  <2> DEFINE a == l.profiles[i]
             b == m.profiles[i]
  <2>1. i \in 1 .. n /\ UsedAt(l, i)
    BY <1>9, <1>11
  <2>2. a # <<>> /\ b # <<>> /\ a \in ProfileSet /\ b \in ProfileSet
    <3>1. l.profiles \in Tables /\ m.profiles \in Tables
      BY <1>3 DEF IsHeldConfig
    <3> QED BY <1>11, <2>1, <3>1 DEF UsedAt, Tables
  <2>3. /\ a = <<f[SlotKey(1, i)], f[SlotKey(2, i)],
                 OrZero(f[SlotKey(3, i)]), OrZero(f[SlotKey(4, i)])>>
        /\ b = <<g[SlotKey(1, i)], g[SlotKey(2, i)],
                 OrZero(g[SlotKey(3, i)]), OrZero(g[SlotKey(4, i)])>>
    BY <1>3, <2>1, <2>2, WordsAre
  <2>4. \A v \in Words : SlotKey(v, i) \in Settings!Keys
    BY KeysAre
  <2> HIDE DEF a, b
  <2>5. ASSUME UsedAt(c, i)
        PROVE  Key(c.profiles[i]) = Key(a)
    <3>1. PICK d \in S : UsedAt(d, i) /\ Key(d.profiles[i]) = Key(a)
      BY <1>5, <2>1 DEF TiedTo, a
    <3> QED BY <2>5, <3>1 DEF Agree
  <2>6. ASSUME NEW v \in 1 .. 2, x.key = SlotKey(v, i)
        PROVE  x.value = f[SlotKey(v, i)]
    <3>1. v \in Words /\ v \in {1, 2}
      BY DEF Words
    <3>2. i \in 1 .. k /\ x.value = c.profiles[i][v]
      BY <1>4, <2>6, <3>1
    <3>3. Key(c.profiles[i]) = Key(a)
      BY <1>9, <2>5, <3>2
    <3>4. c.profiles[i][1] = a[1] /\ c.profiles[i][2] = a[2]
      BY <3>3 DEF Key
    <3>5. a[1] = f[SlotKey(1, i)] /\ a[2] = f[SlotKey(2, i)]
      BY <2>3
    <3> QED BY <3>1, <3>2, <3>4, <3>5
  <2>7. g[SlotKey(1, i)] = f[SlotKey(1, i)] /\ g[SlotKey(2, i)] = f[SlotKey(2, i)]
    BY <1>1, <2>4, <2>6, FourWords
  <2>8. Key(b) = Key(a)
    BY <2>3, <2>7 DEF Key
  <2>9. CASE x.key # SlotKey(w, i)
    <3>1. w \in {3, 4} /\ w \in Words
      BY DEF Words
    <3>2. g[SlotKey(w, i)] = f[SlotKey(w, i)]
      BY <1>1, <2>4, <2>9, <3>1
    <3>3. /\ a[3] = OrZero(f[SlotKey(3, i)]) /\ a[4] = OrZero(f[SlotKey(4, i)])
          /\ b[3] = OrZero(g[SlotKey(3, i)]) /\ b[4] = OrZero(g[SlotKey(4, i)])
      BY <2>3
    <3>4. b[w] = a[w]
      BY <3>1, <3>2, <3>3
    <3> QED BY <1>5, <2>1, <2>8, <3>4 DEF TiedTo, a, b
  <2>10. CASE x.key = SlotKey(w, i)
    <3>1. w \in {3, 4} /\ w \in Words
      BY DEF Words
    <3>2. i \in 1 .. k /\ x.value = c.profiles[i][w]
      BY <1>4, <2>10, <3>1
    <3>3. g[SlotKey(w, i)] = x.value /\ x.value \in Nat
      BY <1>1, <2>4, <2>10, <3>1 DEF Writes
    <3>4. OrZero(g[SlotKey(w, i)]) = x.value
      BY <3>3 DEF OrZero, Absent
    <3>5. b[3] = OrZero(g[SlotKey(3, i)]) /\ b[4] = OrZero(g[SlotKey(4, i)])
      BY <2>3
    <3>6. b[w] = c.profiles[i][w]
      BY <3>1, <3>2, <3>4, <3>5
    <3>7. UsedAt(c, i) /\ Key(c.profiles[i]) = Key(b)
      BY <1>9, <2>5, <2>8, <3>2
    <3> QED BY <3>6, <3>7 DEF b
  <2> QED BY <2>9, <2>10
<1> QED BY <1>7, <1>8, <1>10, <1>11 DEF TiedTo, m

\* Flashes that differ in the schema only give the same settings
LEMMA SchemaAlike ==
    ASSUME Settings!Bounds, NEW f \in Flashes, NEW g \in Flashes,
           Settings!CountsWholeProfiles(f), Settings!CountsWholeProfiles(g),
           \A key \in Settings!Keys : key # SchemaKey => g[key] = f[key]
    PROVE  Settings!LoadedFrom(g) = Settings!LoadedFrom(f)
<1> DEFINE c == Settings!LoadedFrom(f)
           d == Settings!LoadedFrom(g)
<1>1. /\ g[TimeoutKey] = f[TimeoutKey] /\ g[RetriesKey] = f[RetriesKey]
      /\ g[CountKey] = f[CountKey]
      /\ \A w \in Words, i \in Places : g[SlotKey(w, i)] = f[SlotKey(w, i)]
  BY KeysAre
<1>2. d.profiles = c.profiles
  BY <1>1, CountedAre, ProfilesAlike
<1>3. /\ \E k : IsHeldConfig(c, k)
      /\ \E n : IsHeldConfig(d, n)
      /\ d.timeout = c.timeout /\ d.retries = c.retries
  <2>1. /\ IsHeldConfig(c, CountedIn(f)) /\ c.timeout = Settings!TimeoutOr(f[TimeoutKey])
        /\ c.retries = Settings!RetriesOr(f[RetriesKey])
    BY LoadIs
  <2>2. /\ IsHeldConfig(d, CountedIn(g)) /\ d.timeout = Settings!TimeoutOr(g[TimeoutKey])
        /\ d.retries = Settings!RetriesOr(g[RetriesKey])
    BY LoadIs
  <2> HIDE DEF c, d
  <2> QED BY <1>1, <2>1, <2>2
<1> HIDE DEF c, d
<1>4. Fields(c) /\ Fields(d)
  BY <1>3 DEF IsHeldConfig
<1>5. c = d
  BY <1>2, <1>3, <1>4 DEF Fields
<1> QED BY <1>5 DEF c, d

LEMMA BackInitially ==
    ASSUME Settings!Bounds, Settings!Init
    PROVE  BackInv
<1>1. PICK old \in Olds : flash = old.flash /\ since = {old.config}
  BY DEF Settings!Init
<1>2. /\ flash \in Flashes /\ Settings!CountsWholeProfiles(flash)
      /\ Settings!Schema(flash) <= Settings!CurrentSchema =>
            old.config = Settings!RecoveredFrom(flash)
      /\ Settings!Schema(flash) \in {1, 2} => ~ Settings!NeedsRepair(flash)
  BY <1>1 DEF Settings!Bounds, Flashes, Settings!Absent, Absent
<1>3. doing = "off"
  BY DEF Settings!Init
<1>4. ASSUME Settings!Schema(flash) <= Settings!CurrentSchema
      PROVE  Recoverable(flash, since)
  <2>1. ~ Settles(flash) => flash[SchemaKey] \in {1, 2}
    <3> SUFFICES ASSUME ~ Settles(flash) PROVE flash[SchemaKey] \in {1, 2}
      OBVIOUS
    <3>1. Settings!Schema(flash) \in {1, 2}
      BY <1>2, <1>4, SchemaIs DEF Settles, Settings!CurrentSchema
    <3>2. Settings!Schema(flash) = flash[SchemaKey]
      BY <1>2, <3>1 DEF Settings!Schema, SchemaKey
    <3> QED BY <3>1, <3>2
  <2>2. \E k : IsHeldConfig(Settings!RecoveredFrom(flash), k)
    <3>1. CASE Settles(flash)
      BY <1>2, <3>1, RecoveredSettled
    <3>2. CASE ~ Settles(flash)
      BY <1>2, <2>1, <3>2, RecoveredTells
    <3> QED BY <3>1, <3>2
  <2>3. Recoverable(flash, {Settings!RecoveredFrom(flash)})
    BY <2>1, <2>2, RecoverableAlone
  <2> QED BY <1>1, <1>2, <1>4, <2>3
<1>5. Recoverable(flash, since)
  BY <1>4 DEF Recoverable
<1> QED BY <1>3, <1>5 DEF BackInv, Settings!Running

\* A load ends
LEMMA LoadedBack ==
    ASSUME Settings!Bounds, NEW f \in Flashes, Settings!CountsWholeProfiles(f), Settles(f),
           Settings!Loaded(f), flash' = f
    PROVE  BackInv'
<1> DEFINE c == Settings!LoadedFrom(f)
<1>1. doing' = "idle" /\ config' = c /\ since' = {c}
  BY DEF Settings!Loaded
<1>2. Settings!RecoveredFrom(f) = c /\ \E k : IsHeldConfig(c, k)
  BY RecoveredSettled
<1> HIDE DEF c
<1>3. Recoverable(f, {c})
  BY <1>2, RecoverableAlone
<1>4. Newest(c, {c})
  BY DEF Newest
<1>5. Recoverable(flash', since') /\ Newest(config', since')
  BY <1>1, <1>3, <1>4
<1> QED BY <1>1, <1>5 DEF BackInv

LEMMA BackStays ==
    ASSUME BackInv, UNCHANGED <<flash, since>>,
           \/ UNCHANGED <<config, doing, todo>>
           \/ doing' \in {"off", "halted", "repairing"}
           \/ doing' = "idle" /\ Settings!Running /\ UNCHANGED config
    PROVE  BackInv'
<1>1. Recoverable(flash', since')
  BY DEF BackInv
<1>2. Settings!Running' => Newest(config', since')
  BY DEF BackInv, Settings!Running
<1>3. doing' = "migrating" => Moves(flash', todo')
  BY DEF BackInv
<1> QED BY <1>1, <1>2, <1>3 DEF BackInv

LEMMA LoadBack ==
    ASSUME Settings!Bounds, SettingsInv, KeptInv, BackInv, Settings!Load
    PROVE  BackInv'
<1>1. flash \in Flashes /\ Settings!CountsWholeProfiles(flash) /\ UNCHANGED flash
  BY DEF KeptInv, Stored, Whole, Settings!Load
<1>2. CASE Settings!Schema(flash) > Settings!CurrentSchema
  <2>1. doing' = "halted" /\ UNCHANGED since
    BY <1>2 DEF Settings!Load
  <2> QED BY <1>1, <2>1, BackStays
<1>3. CASE ~ (Settings!Schema(flash) > Settings!CurrentSchema)
  <2>1. Settings!Schema(flash) <= Settings!CurrentSchema
    BY <1>1, <1>3, SchemaIs DEF Settings!CurrentSchema
  <2> DEFINE q == Settings!LoadWrites(flash)
  <2>2. /\ Settings!Schema(flash) \in {1, 2} => q # <<>>
        /\ Settings!Schema(flash) \notin {1, 2} => Settles(flash)
    BY <1>1, <2>1, LoadTracks
  <2>3. IF q = <<>> THEN Settings!Loaded(flash)
        ELSE /\ todo' = q
             /\ doing' = IF Settings!Schema(flash) \in {1, 2} THEN "migrating" ELSE "repairing"
             /\ UNCHANGED <<config, unsaved, since, failed>>
    BY <1>3 DEF Settings!Load
  <2>4. CASE q = <<>>
    <3>1. Settles(flash) /\ Settings!Loaded(flash)
      BY <2>2, <2>3, <2>4
    <3> QED BY <1>1, <3>1, LoadedBack
  <2>5. CASE q # <<>> /\ Settings!Schema(flash) \notin {1, 2}
    <3>1. doing' = "repairing" /\ UNCHANGED since
      BY <2>3, <2>5
    <3> QED BY <1>1, <3>1, BackStays
  <2>6. CASE q # <<>> /\ Settings!Schema(flash) \in {1, 2}
    <3>1. doing' = "migrating" /\ todo' = q /\ UNCHANGED since
      BY <2>3, <2>6
    <3>2. Recoverable(flash, since)
      BY DEF BackInv
    <3>3. ~ Settles(flash)
      BY <2>6 DEF Settles, Settings!CurrentSchema
    <3>4. flash[SchemaKey] \in {1, 2}
      BY <2>1, <3>2, <3>3 DEF Recoverable
    <3>5. Moves(flash, q)
      BY <1>1, <3>4, LoadMoves
    <3> HIDE DEF q
    <3>6. Recoverable(flash', since') /\ Moves(flash', todo')
      BY <1>1, <3>1, <3>2, <3>5
    <3> QED BY <3>1, <3>6 DEF BackInv, Settings!Running
  <2> QED BY <2>4, <2>5, <2>6
<1> QED BY <1>2, <1>3

\* One write of a save
LEMMA SavedWordBack ==
    ASSUME Settings!Bounds, NEW f, NEW q, Whole(f, q), q # <<>>, NEW c, NEW d,
           Tracks(f, q, c, d, "saving"), NEW S, Recoverable(f, S), c \in S,
           NEW g, g = [f EXCEPT ![Head(q).key] = Head(q).value]
    PROVE  Recoverable(g, S)
<1> DEFINE x == Head(q)
           p == Tail(q)
           h == Settings!After(g, p)
<1>1. /\ f \in Flashes /\ Settings!CountsWholeProfiles(f) /\ q \in Seq(Writes) /\ Ordered(q)
      /\ Settings!CountsWholeProfiles(Settings!After(f, q))
  BY DEF Whole
<1>2. /\ g \in Flashes /\ Settings!CountsWholeProfiles(g) /\ p \in Seq(Writes)
      /\ h = Settings!After(f, q)
  BY WriteIsWhole DEF Whole
<1>3. /\ x \in All(q) /\ x \in Writes
      /\ x.key = CountKey => \A y \in All(p) : y.key = SchemaKey
  BY <1>1, TailIs, AllAre
<1>4. /\ Settles(f) /\ Settings!LoadedFrom(Settings!After(f, q)) = c
      /\ \E k : IsHeldConfig(c, k) /\ \A y \in All(q) : IsSaveWrite(y, c, k)
  BY DEF Tracks
<1>5. PICK k : IsHeldConfig(c, k) /\ IsSaveWrite(x, c, k)
  BY <1>3, <1>4
<1>6. Settles(g)
  <2>1. Tracks(g, p, c, d, "saving")
    BY WriteTracks
  <2> QED BY <2>1 DEF Tracks
<1>7. g = [f EXCEPT ![x.key] = x.value]
  OBVIOUS
<1>8. /\ Settings!RecoveredFrom(f) = Settings!LoadedFrom(f)
      /\ Settings!Schema(f) <= Settings!CurrentSchema
      /\ Settings!RecoveredFrom(g) = Settings!LoadedFrom(g)
  BY <1>1, <1>2, <1>4, <1>6, RecoveredSettled
<1> HIDE DEF x, p, h
<1>9. /\ \A e \in S : \E n : IsHeldConfig(e, n)
      /\ Agree(S) /\ TiedTo(Settings!LoadedFrom(f), S)
  BY <1>8 DEF Recoverable
<1>10. TiedTo(Settings!LoadedFrom(g), S)
  <2>1. CASE x.key = CountKey
    <3>1. \A key \in Settings!Keys : key # SchemaKey => h[key] = g[key]
      <4>1. \A y \in All(p) : y.key = SchemaKey
        BY <1>3, <2>1
      <4> SUFFICES ASSUME NEW key \in Settings!Keys, key # SchemaKey
                   PROVE  h[key] = g[key]
        OBVIOUS
      <4>2. \A y \in All(p) : y.key # key
        BY <4>1
      <4>3. Settings!After(g, p)[key] = g[key]
        BY <4>2, NoneOfThem
      <4> QED BY <4>3 DEF h
    <3>2. h \in Flashes /\ Settings!CountsWholeProfiles(h) /\ Settings!LoadedFrom(h) = c
      BY <1>1, <1>2, <1>4, AfterIs
    <3>3. Settings!LoadedFrom(g) = c
      BY <1>2, <3>1, <3>2, SchemaAlike
    <3> QED BY <3>3, TiedToOwn
  <2>2. CASE x.key # CountKey
    BY <1>1, <1>2, <1>3, <1>5, <1>7, <1>9, <2>2, SaveWriteTies
  <2> QED BY <2>1, <2>2
<1> QED BY <1>6, <1>8, <1>9, <1>10 DEF Recoverable

LEMMA WriteBack ==
    ASSUME Settings!Bounds, SettingsInv, KeptInv, BackInv, Settings!Write, KeptInv'
    PROVE  BackInv'
<1> DEFINE p == Tail(todo)
<1>1. /\ Whole(flash, todo) /\ Tracks(flash, todo, config, unsaved, doing)
      /\ todo # <<>> /\ doing \in {"migrating", "repairing", "saving"}
      /\ todo \in Seq(Writes)
  BY DEF KeptInv, Stored, Whole, Settings!Write, SettingsInv, SettingsControl
<1>2. flash' = [flash EXCEPT ![Head(todo).key] = Head(todo).value]
  BY DEF Settings!Write
<1>3. /\ flash \in Flashes /\ Settings!CountsWholeProfiles(flash)
      /\ flash' \in Flashes /\ Settings!CountsWholeProfiles(flash')
      /\ Tracks(flash', todo', config', unsaved', doing')
  BY DEF KeptInv, Stored, Whole
<1>4. Recoverable(flash, since)
  BY DEF BackInv
<1>5. CASE Len(todo) > 1
  <2>1. todo' = p /\ UNCHANGED <<config, doing, since>> /\ p # <<>>
    <3>1. todo' = p /\ UNCHANGED <<config, doing, since>>
      BY <1>5 DEF Settings!Write
    <3>2. Len(p) = Len(todo) - 1 /\ Len(todo) \in Nat
      BY <1>1
    <3> HIDE DEF p
    <3>3. p # <<>>
      BY <1>5, <3>2
    <3> QED BY <3>1, <3>3
  <2> HIDE DEF p
  <2>2. CASE doing = "saving"
    <3>1. Newest(config, since) /\ config \in since
      BY <2>2 DEF BackInv, Settings!Running, Newest
    <3>2. Tracks(flash, todo, config, unsaved, "saving")
      BY <1>1, <2>2
    <3>3. Recoverable(flash', since)
      BY <1>1, <1>2, <1>4, <3>1, <3>2, SavedWordBack
    <3>4. Recoverable(flash', since') /\ Newest(config', since') /\ doing' = "saving"
      BY <2>1, <2>2, <3>1, <3>3
    <3> QED BY <3>4 DEF BackInv
  <2>3. CASE doing = "repairing"
    <3>1. Settles(flash) /\ \A x \in All(todo) : x = One(SchemaKey, Settings!CurrentSchema)
      BY <1>1, <2>3 DEF Tracks
    <3>2. Head(todo).key = SchemaKey
      BY <1>1, <3>1, TailIs DEF One
    <3>3. Settles(flash')
      BY <1>3, <2>1, <2>3 DEF Tracks
    <3>4. \A key \in Settings!Keys : key # SchemaKey => flash'[key] = flash[key]
      BY <1>2, <1>3, <3>2 DEF Flashes
    <3>5. Settings!LoadedFrom(flash') = Settings!LoadedFrom(flash)
      BY <1>3, <3>4, SchemaAlike
    <3>6. /\ Settings!RecoveredFrom(flash) = Settings!LoadedFrom(flash)
          /\ Settings!Schema(flash) <= Settings!CurrentSchema
          /\ Settings!RecoveredFrom(flash') = Settings!LoadedFrom(flash')
      BY <1>3, <3>1, <3>3, RecoveredSettled
    <3>7. Recoverable(flash', since)
      BY <1>4, <3>3, <3>5, <3>6 DEF Recoverable
    <3>8. Recoverable(flash', since') /\ doing' = "repairing"
      BY <2>1, <2>3, <3>7
    <3> QED BY <3>8 DEF BackInv, Settings!Running
  <2>4. CASE doing = "migrating"
    <3>1. Moves(flash, todo)
      BY <2>4 DEF BackInv
    <3>2. Moves(flash', p) /\ Settings!RecoveredFrom(flash') = Settings!RecoveredFrom(flash)
      BY <1>1, <1>2, <2>1, <3>1, WriteMoves DEF p
    <3>3. flash[SchemaKey] \in {1, 2} /\ flash'[SchemaKey] \in {1, 2}
      BY <3>1, <3>2 DEF Moves
    <3>4. Settings!Schema(flash) <= Settings!CurrentSchema
      BY <1>3, <3>3, SchemaTells DEF Settings!CurrentSchema
    <3>5. Recoverable(flash', since)
      BY <1>4, <3>2, <3>3, <3>4 DEF Recoverable
    <3>6. Recoverable(flash', since') /\ Moves(flash', todo') /\ doing' = "migrating"
      BY <2>1, <2>4, <3>2, <3>5
    <3> QED BY <3>6 DEF BackInv, Settings!Running
  <2> QED BY <1>1, <2>2, <2>3, <2>4
<1>6. CASE ~ (Len(todo) > 1)
  <2>1. CASE doing = "saving"
    <3>1. /\ doing' = "idle" /\ unsaved' = FALSE /\ since' = {config} /\ config' = config
      BY <1>6, <2>1 DEF Settings!Write
    <3>2. Settles(flash') /\ Settings!LoadedFrom(flash') = config
      BY <1>3, <3>1 DEF Tracks
    <3>3. Settings!RecoveredFrom(flash') = config
      BY <1>3, <3>2, RecoveredSettled
    <3>4. PICK k : IsHeldConfig(config, k)
      BY DEF KeptInv, Held
    <3>5. Recoverable(flash', {config})
      BY <3>2, <3>3, <3>4, RecoverableAlone
    <3>6. Newest(config, {config})
      BY DEF Newest
    <3>7. Recoverable(flash', since') /\ Newest(config', since')
      BY <3>1, <3>5, <3>6
    <3> QED BY <3>1, <3>7 DEF BackInv
  <2>2. CASE doing # "saving"
    <3>1. Settings!Loaded(flash')
      BY <1>6, <2>2 DEF Settings!Write
    <3>2. doing' = "idle"
      BY <3>1 DEF Settings!Loaded
    <3>3. Settles(flash')
      BY <1>3, <3>2 DEF Tracks
    <3> QED BY <1>3, <3>1, <3>3, LoadedBack
  <2> QED BY <2>1, <2>2
<1> QED BY <1>5, <1>6

LEMMA WriteFailsBack ==
    ASSUME Settings!Bounds, SettingsInv, KeptInv, BackInv, Settings!WriteFails
    PROVE  BackInv'
<1>1. /\ flash \in Flashes /\ Settings!CountsWholeProfiles(flash)
      /\ Tracks(flash, todo, config, unsaved, doing)
      /\ doing \in {"migrating", "repairing", "saving"} /\ UNCHANGED flash
  BY DEF KeptInv, Stored, Whole, Settings!WriteFails, SettingsInv, SettingsControl
<1>2. CASE doing = "repairing"
  <2>1. Settings!Loaded(flash) /\ Settles(flash)
    BY <1>1, <1>2 DEF Settings!WriteFails, Tracks
  <2> QED BY <1>1, <2>1, LoadedBack
<1>3. CASE doing # "repairing"
  <2>1. /\ UNCHANGED <<config, since>>
        /\ doing' = IF doing = "migrating" THEN "halted" ELSE "idle"
    BY <1>1, <1>3 DEF Settings!WriteFails
  <2>2. doing # "migrating" => Settings!Running
    BY <1>1, <1>3 DEF Settings!Running
  <2> QED BY <1>1, <2>1, <2>2, BackStays
<1> QED BY <1>2, <1>3

\* Settings come to be saved, with what was held where it was
LEMMA SavesBack ==
    ASSUME KeptInv, BackInv, doing = "idle", NEW c, NEW d,
           Settings!Saves(c, d), UNCHANGED flash, KeptInv',
           \A i \in Places : UsedAt(config, i) =>
              UsedAt(c, i) /\ Key(c.profiles[i]) = Key(config.profiles[i])
    PROVE  BackInv'
<1>1. config' = c /\ doing' = "saving" /\ since' = since \cup {c}
  BY DEF Settings!Saves
<1>2. Recoverable(flash, since) /\ Newest(config, since)
  BY DEF BackInv, Settings!Running
<1>3. PICK k : IsHeldConfig(c, k)
  BY <1>1 DEF KeptInv, Held
<1> DEFINE S == since \cup {c}
<1>4. ASSUME NEW e \in S, NEW i \in Places, UsedAt(e, i)
      PROVE  UsedAt(c, i) /\ (Agree(since) => Key(e.profiles[i]) = Key(c.profiles[i]))
  <2>1. CASE e = c
    BY <1>4, <2>1
  <2>2. CASE e \in since
    <3>1. UsedAt(config, i) /\ config \in since
      BY <1>2, <1>4, <2>2 DEF Newest
    <3>2. Agree(since) => Key(e.profiles[i]) = Key(config.profiles[i])
      BY <1>4, <2>2, <3>1 DEF Agree
    <3> QED BY <3>1, <3>2
  <2> QED BY <2>1, <2>2
<1>5. Newest(c, S)
  BY <1>4 DEF Newest
<1>6. Recoverable(flash, S)
  <2> SUFFICES ASSUME Settings!Schema(flash) <= Settings!CurrentSchema
               PROVE  /\ \A e \in S : \E n : IsHeldConfig(e, n)
                      /\ Agree(S) /\ TiedTo(Settings!RecoveredFrom(flash), S)
                      /\ ~ Settles(flash) => flash[SchemaKey] \in {1, 2}
    BY DEF Recoverable
  <2>1. /\ \A e \in since : \E n : IsHeldConfig(e, n)
        /\ Agree(since) /\ TiedTo(Settings!RecoveredFrom(flash), since)
        /\ ~ Settles(flash) => flash[SchemaKey] \in {1, 2}
    BY <1>2 DEF Recoverable
  <2>2. \A e \in S : \E n : IsHeldConfig(e, n)
    BY <1>3, <2>1
  <2>3. Agree(S)
    <3> SUFFICES ASSUME NEW a \in S, NEW b \in S, NEW i \in Places, UsedAt(a, i), UsedAt(b, i)
                 PROVE  Key(a.profiles[i]) = Key(b.profiles[i])
      BY DEF Agree
    <3>1. Key(a.profiles[i]) = Key(c.profiles[i]) /\ Key(b.profiles[i]) = Key(c.profiles[i])
      BY <1>4, <2>1
    <3> QED BY <3>1
  <2>4. TiedTo(Settings!RecoveredFrom(flash), S)
    <3>1. since \subseteq S
      OBVIOUS
    <3> HIDE DEF S
    <3> QED BY <2>1, <3>1 DEF TiedTo
  <2> QED BY <2>1, <2>2, <2>3, <2>4
<1>7. Recoverable(flash', since') /\ Newest(config', since')
  BY <1>1, <1>5, <1>6
<1> QED BY <1>1, <1>7 DEF BackInv

LEMMA DrainConfigBack ==
    ASSUME SettingsInv, KeptInv, BackInv, Settings!DrainConfigWrite, KeptInv'
    PROVE  BackInv'
<1> DEFINE a == Settings!Newer(config.timeout, Head(changes).timeout)
           b == Settings!Newer(config.retries, Head(changes).retries)
           c == [config EXCEPT !.timeout = a, !.retries = b]
           d == unsaved \/ c # config
<1>1. doing = "idle" /\ Settings!Saves(c, d) /\ UNCHANGED flash
  BY DEF Settings!DrainConfigWrite, Settings!Idle
<1>2. Fields(config)
  BY DEF SettingsInv, SettingsShape
<1> HIDE DEF a, b, d
<1>3. c.profiles = config.profiles
  BY <1>2 DEF Fields
<1> HIDE DEF c
<1> QED BY <1>1, <1>3, SavesBack DEF UsedAt

LEMMA DrainProfileBack ==
    ASSUME Settings!Bounds, SettingsInv, KeptInv, BackInv, Settings!DrainProfileWrite, KeptInv'
    PROVE  BackInv'
<1> DEFINE p == Head(profiles)
           t == config.profiles
           S == PlacesFor(t, p)
           l == LeastOf(S)
           c == [config EXCEPT !.profiles[l] = p]
<1>1. doing = "idle" /\ UNCHANGED flash /\ profiles # <<>> /\ profiles \in Seq(Profiles)
  BY DEF Settings!DrainProfileWrite, Settings!Idle, SettingsInv, SettingsShape
<1>2. IF S = {} THEN UNCHANGED <<config, unsaved, doing, todo, since>>
      ELSE Settings!Saves(c, TRUE)
  BY TablesAre DEF Settings!DrainProfileWrite, Settings!memoryVars
<1>3. p # <<>>
  <2>1. p \in Profiles
    BY <1>1
  <2>2. p \in ProfileSet
    BY <2>1 DEF Settings!Bounds, ProfileSet
  <2> HIDE DEF p
  <2>3. DOMAIN p = 1 .. 4 /\ DOMAIN <<>> = {} /\ 1 \in 1 .. 4
    BY <2>2 DEF ProfileSet
  <2> QED BY <2>3
<1> HIDE DEF p
<1>4. CASE S = {}
  <2>1. UNCHANGED <<config, doing, todo, since>>
    BY <1>2, <1>4
  <2> QED BY <1>1, <2>1, BackStays
<1>5. CASE S # {}
  <2>1. l \in S
    <3>1. S \in SUBSET Nat
      BY DEF PlacesFor, PlacesIn, FreeIn
    <3> HIDE DEF S
    <3> QED BY <1>5, <3>1, LeastIs
  <2>2. l \in Places /\ (t[l] # <<>> => Key(t[l]) = Key(p))
    <3> HIDE DEF l, t
    <3> QED BY <2>1 DEF PlacesFor, PlacesIn, FreeIn, Places
  <2> HIDE DEF S, l
  <2>3. Fields(config) /\ DOMAIN config.profiles = Places
    BY DEF SettingsInv, SettingsShape, Places
  <2>4. c.profiles = [t EXCEPT ![l] = p]
    BY <2>3 DEF Fields
  <2> HIDE DEF c
  <2>5. \A i \in Places : c.profiles[i] = IF i = l THEN p ELSE t[i]
    BY <2>3, <2>4
  <2>6. \A i \in Places : UsedAt(config, i) =>
            UsedAt(c, i) /\ Key(c.profiles[i]) = Key(config.profiles[i])
    BY <1>3, <2>2, <2>5 DEF UsedAt
  <2>7. Settings!Saves(c, TRUE)
    BY <1>2, <1>5
  <2> QED BY <1>1, <2>6, <2>7, SavesBack
<1> QED BY <1>4, <1>5

LEMMA RestBack ==
    ASSUME SettingsInv, KeptInv, BackInv, KeptInv',
           \/ Settings!Restart \/ Settings!PersistState \/ UNCHANGED Settings!vars
           \/ \E change \in Changes : Settings!PostConfigWrite(change)
           \/ \E profile \in Profiles : Settings!PostReportingProfileWrite(profile)
    PROVE  BackInv'
<1>1. CASE Settings!Restart
  <2>1. doing' = "off" /\ UNCHANGED <<flash, since>>
    BY <1>1 DEF Settings!Restart
  <2> QED BY <2>1, BackStays
<1>2. CASE Settings!PersistState
  <2>1. doing = "idle" /\ Settings!Saves(config, unsaved) /\ UNCHANGED flash
    BY <1>2 DEF Settings!PersistState, Settings!Idle
  <2> QED BY <2>1, SavesBack
<1>3. CASE UNCHANGED Settings!vars
  <2>1. UNCHANGED <<flash, since, config, doing, todo>>
    BY <1>3 DEF Settings!vars, Settings!memoryVars, Settings!historyVars
  <2> QED BY <2>1, BackStays
<1>4. CASE \/ \E change \in Changes : Settings!PostConfigWrite(change)
           \/ \E profile \in Profiles : Settings!PostReportingProfileWrite(profile)
  <2>1. UNCHANGED <<flash, since, config, doing, todo>>
    BY <1>4 DEF Settings!PostConfigWrite, Settings!PostReportingProfileWrite, Settings!memoryVars
  <2> QED BY <2>1, BackStays
<1> QED BY <1>1, <1>2, <1>3, <1>4

\* Whenever power fails, in a save or in a migration, once or again, the settings that
\* come back are ones held since the last complete save: each value is one that was
\* held, each profile's identity and each of its words too, and no profile is lost that
\* was there all the time (ConfigManager: load, save, migrate_to_current).
THEOREM NoRestartSurprises ==
    ASSUME Settings!Bounds
    PROVE  Settings!Spec => []Settings!RestartIsNoSurprise
<1>1. Settings!Init => SettingsInv /\ KeptInv /\ BackInv
  BY SettingsInitially, KeptInitially, BackInitially
<1>2. SettingsInv /\ KeptInv /\ BackInv /\ [Settings!Next]_Settings!vars
          => SettingsInv' /\ KeptInv' /\ BackInv'
  <2> SUFFICES ASSUME SettingsInv, KeptInv, BackInv, [Settings!Next]_Settings!vars
               PROVE  SettingsInv' /\ KeptInv' /\ BackInv'
    OBVIOUS
  <2>1. SettingsInv' /\ KeptInv'
    BY SettingsStep
  <2>2. CASE Settings!Load
    BY <2>1, <2>2, LoadBack
  <2>3. CASE Settings!Write
    BY <2>1, <2>3, WriteBack
  <2>4. CASE Settings!WriteFails
    BY <2>1, <2>4, WriteFailsBack
  <2>5. CASE Settings!DrainConfigWrite
    BY <2>1, <2>5, DrainConfigBack
  <2>6. CASE Settings!DrainProfileWrite
    BY <2>1, <2>6, DrainProfileBack
  <2>7. CASE \/ Settings!Restart \/ Settings!PersistState \/ UNCHANGED Settings!vars
             \/ \E change \in Changes : Settings!PostConfigWrite(change)
             \/ \E profile \in Profiles : Settings!PostReportingProfileWrite(profile)
    BY <2>1, <2>7, RestBack
  <2> QED BY <2>1, <2>2, <2>3, <2>4, <2>5, <2>6, <2>7 DEF Settings!Next
<1>3. KeptInv /\ BackInv => Settings!RestartIsNoSurprise
  BY RecoverableIsNoSurprise DEF KeptInv, Stored, BackInv
<1> QED BY <1>1, <1>2, <1>3, PTL DEF Settings!Spec

=============================================================================
