---------------------------- MODULE DevicesProofs ----------------------------
(***************************************************************************)
(* Theorems about Devices, for any numbers of devices and addresses, any   *)
(* capacities and any clock: the history of join candidates is in step     *)
(* with the core state, and the managers and the core state agree on what  *)
(* each device reports.                                                    *)
(***************************************************************************)
EXTENDS Devices, FiniteSetTheorems, WellFoundedInduction, TLAPS

-----------------------------------------------------------------------------
(* What core_reduce does to the records of devices that have no identity.  *)

\* No record has an identity, and no address has two.
Tidy(s) ==
    /\ \A i \in Slots : s.devices[i].id = NoId
    /\ \A i, j \in Slots :
          s.devices[i].addr = s.devices[j].addr /\ s.devices[i].addr # NoAddr => i = j

\* Only a raw report of occupancy says on.
Queued == {e \in Events : e.type # "occupancy" => e.on = FALSE}

\* How an event changes the record of its own device, unless that leaves.
Advances(d, new, e) ==
    /\ new.id = d.id /\ new.addr = d.addr /\ (d.online => new.online)
    /\ e.type = "joined" =>
         /\ new.online /\ new.reporting = d.reporting /\ new.stale = d.stale
         /\ new.readings = d.readings
    /\ e.type = "telemetry" =>
         /\ new.reporting = "active" /\ ~ new.stale
         /\ new.readings = [d.readings EXCEPT ![e.kind] = e.reading]
    /\ e.type \in LifecycleEvents =>
         /\ new.reporting = e.type /\ (new.stale <=> e.type = "stale")
         /\ new.readings = d.readings

\* An event is about the record with its address, or enters one.
RecordStep(s, n, e, i) ==
    LET d == s.devices[i]
        new == n.devices[i]
    IN \/ d.addr # e.addr /\ new = d
       \/ d.addr = e.addr /\ e.type = "left" /\ new.id = NoId /\ new.addr = NoAddr
       \/ d.addr = e.addr /\ e.type # "left" /\ Advances(d, new, e)
       \/ /\ d.addr = NoAddr /\ e.type = "joined"
          /\ new.id = NoId /\ new.addr = e.addr /\ new.online
          /\ \A j \in Slots : s.devices[j].addr # e.addr
          /\ \A j \in Slots : j # i => n.devices[j] = s.devices[j]

Follows(s, n, e) == n \in State /\ \A i \in Slots : RecordStep(s, n, e, i)

\* A set of slots that is not empty has a first one.
LEMMA FirstIsIn ==
    ASSUME NEW S \in SUBSET Slots, S # {}
    PROVE  First(S) \in S
<1> DEFINE less == OpToRel(<, Nat)
<1>1. IsWellFoundedOn(less, Nat)
  BY NatLessThanWellFounded
<1>2. S \subseteq Nat
  BY DEF Slots
<1>3. \A x, y \in Nat : <<y, x>> \in less <=> y < x
  BY DEF OpToRel
<1> HIDE DEF less
<1>4. PICK x \in S : \A y \in S : ~ (<<y, x>> \in less)
  BY <1>1, <1>2, WFMin
<1>5. ASSUME NEW y \in S PROVE x <= y
  <2>1. x \in Nat /\ y \in Nat
    BY <1>2
  <2>2. ~ (y < x)
    BY <1>3, <1>4, <2>1
  <2> QED BY <2>1, <2>2
<1> QED BY <1>5 DEF First

\* The handlers put a record into a slot, and count.
LEMMA PutIs ==
    ASSUME NEW s \in State, NEW i \in Slots, NEW d \in DeviceRecord
    PROVE  /\ WithDevice(s, i, d) \in State
           /\ WithDevice(s, i, d).devices[i] = d
           /\ \A j \in Slots : j # i => WithDevice(s, i, d).devices[j] = s.devices[j]
           /\ WithDevice(s, i, d).count = s.count
  BY DEF WithDevice, State

LEMMA CountIs ==
    ASSUME NEW s \in State, NEW k \in {-1, 0, 1}, s.count + k >= 0
    PROVE  Counted(s, k) \in State /\ Counted(s, k).devices = s.devices
  BY DEF Counted, State

\* What an event of the queue is.
LEMMA EventIs ==
    ASSUME NEW e \in Queued
    PROVE  /\ e.id = NoId /\ e.addr \in Addrs /\ e.addr # NoAddr /\ e.at \in Times
           /\ e.reading \in Readings \cup {NoReading}
           /\ e.type \in {"joined", "left", "telemetry", "occupancy"} \cup LifecycleEvents
  BY NamesAssumption, DevicesReadings DEF Queued, Events

\* The record that is found is the one with the address.
LEMMA FoundIs ==
    ASSUME NEW s \in State, Tidy(s), NEW e \in Queued
    PROVE  /\ \A i \in Slots : i \in Found(s, e) <=> s.devices[i].addr = e.addr
           /\ \A i \in Slots : s.devices[i].addr = e.addr =>
                 /\ First(Found(s, e)) = i
                 /\ \A j \in Slots : j # i => s.devices[j].addr # e.addr
<1>1. e.id = NoId /\ e.addr # NoAddr
  BY EventIs
<1>2. \A i \in Slots : i \in Found(s, e) <=> s.devices[i].addr = e.addr
  BY <1>1 DEF Found, Matches, Tidy
<1>3. ASSUME NEW i \in Slots, s.devices[i].addr = e.addr
      PROVE  /\ First(Found(s, e)) = i
             /\ \A j \in Slots : j # i => s.devices[j].addr # e.addr
  <2>1. \A j \in Slots : s.devices[j].addr = e.addr => j = i
    BY <1>1, <1>3 DEF Tidy
  <2>2. Found(s, e) \in SUBSET Slots
    BY DEF Found
  <2>3. First(Found(s, e)) \in Found(s, e)
    BY <1>2, <1>3, <2>2, FirstIsIn
  <2> QED BY <1>2, <2>1, <2>2, <2>3
<1> QED BY <1>2, <1>3

LEMMA Untouched ==
    ASSUME NEW s \in State, Tidy(s), NEW e \in Queued, Found(s, e) = {}
    PROVE  Follows(s, s, e)
<1>1. \A i \in Slots : s.devices[i].addr # e.addr
  BY FoundIs
<1> QED BY <1>1 DEF Follows, RecordStep

\* A handler that replaces the record it has found.
LEMMA Replaced ==
    ASSUME NEW s \in State, Tidy(s), NEW e \in Queued, e.type # "left",
           Found(s, e) # {}, NEW n \in State, NEW d,
           LET i == First(Found(s, e))
           IN /\ n.devices[i] = d /\ Advances(s.devices[i], d, e)
              /\ \A j \in Slots : j # i => n.devices[j] = s.devices[j]
    PROVE  Follows(s, n, e)
<1>1. PICK i \in Slots : i \in Found(s, e)
  BY DEF Found
<1>2. /\ First(Found(s, e)) = i /\ s.devices[i].addr = e.addr
      /\ \A j \in Slots : j # i => s.devices[j].addr # e.addr
  BY <1>1, FoundIs
<1> QED BY <1>2 DEF Follows, RecordStep

LEMMA JoinFollows ==
    ASSUME NEW s \in State, Tidy(s), NEW e \in Queued, e.type = "joined"
    PROVE  Follows(s, Join(s, e).next, e)
<1>1. ~ Nameless(e) /\ e.addr \in Addrs /\ e.addr # NoAddr /\ e.id = NoId
  BY EventIs DEF Nameless
<1>2. CASE Found(s, e) # {}
  <2> DEFINE i == First(Found(s, e))
             d == [s.devices[i] EXCEPT !.addr = e.addr, !.online = TRUE]
             m == WithDevice(s, i, d)
  <2>1. i \in Slots /\ s.devices[i].addr = e.addr
    BY <1>2, FoundIs DEF Found
  <2>2. s.devices[i] \in DeviceRecord
    BY <2>1 DEF State
  <2>3. d \in DeviceRecord /\ Advances(s.devices[i], d, e)
    BY <1>1, <2>1, <2>2 DEF DeviceRecord, Advances, LifecycleEvents
  <2>4. Advances(s.devices[i], s.devices[i], e) \/ ~ s.devices[i].online
    BY <2>2 DEF DeviceRecord, Advances, LifecycleEvents
  <2>5. Join(s, e) = Rejoin(s, i, e)
    BY <1>1, <1>2 DEF Join
  <2> HIDE DEF i, d
  <2>6. /\ m \in State /\ m.devices[i] = d
        /\ \A j \in Slots : j # i => m.devices[j] = s.devices[j]
    BY <2>1, <2>3, PutIs
  <2>7. CASE ~ s.devices[i].online
    <3>1. Join(s, e).next = Counted(m, 1)
      BY <2>5, <2>7 DEF Rejoin, Noted, Result, d
    <3>2. m.count + 1 >= 0
      BY <2>6 DEF State
    <3> HIDE DEF m
    <3>3. Counted(m, 1) \in State /\ Counted(m, 1).devices = m.devices
      BY <2>6, <3>2, CountIs
    <3> QED BY <1>2, <2>3, <2>6, <3>1, <3>3, Replaced DEF i
  <2>8. CASE s.devices[i].online
    <3>1. Join(s, e).next = s
      BY <2>1, <2>5, <2>8 DEF Rejoin, Keep, Result
    <3> QED BY <1>2, <2>4, <2>8, <3>1, Replaced DEF i
  <2> QED BY <2>7, <2>8
<1>3. CASE Found(s, e) = {} /\ FreeSlots(s) # {}
  <2> DEFINE i == First(FreeSlots(s))
             d == [s.devices[i] EXCEPT !.id = e.id, !.addr = e.addr,
                                       !.online = TRUE, !.power = FALSE]
             m == WithDevice(s, i, d)
  <2>1. i \in Slots /\ s.devices[i].addr = NoAddr
    BY <1>3, FirstIsIn DEF FreeSlots, Unused
  <2>2. s.devices[i] \in DeviceRecord
    BY <2>1 DEF State
  <2>3. d \in DeviceRecord /\ d.id = NoId /\ d.addr = e.addr /\ d.online
    BY <1>1, <2>2 DEF DeviceRecord
  <2>4. Join(s, e).next = Counted(m, 1)
    BY <1>1, <1>3 DEF Join, Enter, Noted, Result
  <2> HIDE DEF i, d
  <2>5. /\ m \in State /\ m.devices[i] = d
        /\ \A j \in Slots : j # i => m.devices[j] = s.devices[j]
    BY <2>1, <2>3, PutIs
  <2>6. m.count + 1 >= 0
    BY <2>5 DEF State
  <2> HIDE DEF m
  <2>7. Counted(m, 1) \in State /\ Counted(m, 1).devices = m.devices
    BY <2>5, <2>6, CountIs
  <2>8. \A j \in Slots : s.devices[j].addr # e.addr
    BY <1>3, FoundIs
  <2> QED BY <2>1, <2>3, <2>4, <2>5, <2>7, <2>8 DEF Follows, RecordStep
<1>4. CASE Found(s, e) = {} /\ FreeSlots(s) = {}
  <2>1. Join(s, e).next = s
    BY <1>4 DEF Join, Keep, Result
  <2> QED BY <1>4, <2>1, Untouched
<1> QED BY <1>2, <1>3, <1>4

LEMMA LeaveFollows ==
    ASSUME NEW s \in State, Tidy(s), NEW e \in Queued, e.type = "left"
    PROVE  Follows(s, Leave(s, e).next, e)
<1>1. CASE Found(s, e) = {}
  <2>1. Leave(s, e).next = s
    BY <1>1 DEF Leave, Keep, Result
  <2> QED BY <1>1, <2>1, Untouched
<1>2. CASE Found(s, e) # {}
  <2>0. PICK i \in Slots : i \in Found(s, e)
    BY <1>2 DEF Found
  <2>1. /\ i = First(Found(s, e)) /\ s.devices[i].addr = e.addr
        /\ \A j \in Slots : j # i => s.devices[j].addr # e.addr
    BY <2>0, FoundIs
  <2> DEFINE m == WithDevice(s, i, FreeRecord)
             k == IF s.devices[i].online /\ s.count > 0 THEN -1 ELSE 0
  <2>2. FreeRecord \in DeviceRecord
    BY NumbersAssumption DEF FreeRecord, DeviceRecord, ReportingStates
  <2>3. /\ m \in State /\ m.devices[i] = FreeRecord /\ m.count = s.count
        /\ \A j \in Slots : j # i => m.devices[j] = s.devices[j]
    BY <2>2, PutIs
  <2>4. Leave(s, e).next = Counted(m, k)
    BY <1>2, <2>1 DEF Leave, Noted, Result
  <2>5. k \in {-1, 0, 1} /\ m.count + k >= 0
    BY <2>3 DEF State
  <2> HIDE DEF m, k
  <2>6. Counted(m, k) \in State /\ Counted(m, k).devices = m.devices
    BY <2>3, <2>5, CountIs
  <2>7. FreeRecord.id = NoId /\ FreeRecord.addr = NoAddr
    BY DEF FreeRecord
  <2> QED BY <2>1, <2>3, <2>4, <2>6, <2>7 DEF Follows, RecordStep
<1> QED BY <1>1, <1>2

LEMMA LifecycleFollows ==
    ASSUME NEW s \in State, Tidy(s), NEW e \in Queued, e.type \in LifecycleEvents
    PROVE  Follows(s, Lifecycle(s, e).next, e)
<1>1. CASE Found(s, e) = {}
  <2>1. Lifecycle(s, e).next = s
    BY <1>1 DEF Lifecycle, Keep, Result
  <2> QED BY <1>1, <2>1, Untouched
<1>2. CASE Found(s, e) # {}
  <2> DEFINE i == First(Found(s, e))
             d == [s.devices[i] EXCEPT !.reporting = e.type, !.stale = (e.type = "stale")]
             m == WithDevice(s, i, d)
  <2>1. i \in Slots /\ s.devices[i].addr = e.addr
    BY <1>2, FoundIs DEF Found
  <2>2. s.devices[i] \in DeviceRecord
    BY <2>1 DEF State
  <2>3. d \in DeviceRecord /\ Advances(s.devices[i], d, e)
    BY <2>2 DEF DeviceRecord, ReportingStates, Advances, LifecycleEvents
  <2>4. Lifecycle(s, e).next = m
    BY <1>2 DEF Lifecycle, Update, Keep, Noted, Result
  <2> HIDE DEF i, d
  <2>5. /\ m \in State /\ m.devices[i] = d
        /\ \A j \in Slots : j # i => m.devices[j] = s.devices[j]
    BY <2>1, <2>3, PutIs
  <2>6. e.type # "left"
    BY DEF LifecycleEvents
  <2> HIDE DEF m
  <2> QED BY <1>2, <2>3, <2>4, <2>5, <2>6, Replaced DEF i
<1> QED BY <1>1, <1>2

LEMMA TelemetryFollows ==
    ASSUME NEW s \in State, Tidy(s), NEW e \in Queued, e.type = "telemetry"
    PROVE  Follows(s, Telemetry(s, e).next, e)
<1>1. CASE Found(s, e) = {}
  <2>1. Telemetry(s, e).next = s
    BY <1>1 DEF Telemetry, Keep, Result
  <2> QED BY <1>1, <2>1, Untouched
<1>2. CASE Found(s, e) # {}
  <2> DEFINE i == First(Found(s, e))
             d == [s.devices[i] EXCEPT !.reporting = "active", !.stale = FALSE,
                                       !.seen = e.at, !.readings[e.kind] = e.reading]
             m == WithDevice(s, i, d)
  <2>1. i \in Slots /\ s.devices[i].addr = e.addr
    BY <1>2, FoundIs DEF Found
  <2>2. s.devices[i] \in DeviceRecord
    BY <2>1 DEF State
  <2>3. e.reading \in Readings \cup {NoReading} /\ e.at \in Times
    BY EventIs
  <2>4. d \in DeviceRecord /\ Advances(s.devices[i], d, e)
    <3>1. s.devices[i].readings \in [Kinds -> Readings \cup {NoReading}]
      BY <2>2 DEF DeviceRecord
    <3>2. [s.devices[i].readings EXCEPT ![e.kind] = e.reading]
             \in [Kinds -> Readings \cup {NoReading}]
      BY <2>3, <3>1
    <3> QED BY <2>2, <2>3, <3>2 DEF DeviceRecord, ReportingStates, Advances, LifecycleEvents
  <2>5. Telemetry(s, e).next = m
    BY <1>2 DEF Telemetry, Update, Keep, Noted, Result
  <2> HIDE DEF i, d
  <2>6. /\ m \in State /\ m.devices[i] = d
        /\ \A j \in Slots : j # i => m.devices[j] = s.devices[j]
    BY <2>1, <2>4, PutIs
  <2> HIDE DEF m
  <2> QED BY <1>2, <2>4, <2>5, <2>6, Replaced DEF i
<1> QED BY <1>1, <1>2

\* core_reduce makes a step of the record of the event's device, and leaves the others alone.
LEMMA ReduceFollows ==
    ASSUME NEW s \in State, Tidy(s), NEW e \in Queued, e.type # "occupancy"
    PROVE  Follows(s, Reduce(s, e).next, e) /\ Tidy(Reduce(s, e).next)
<1> DEFINE h == Handle(s, e)
           n == Reduce(s, e).next
<1>1. Follows(s, h.next, e)
  <2>1. CASE e.type = "joined"
    <3>1. h = Join(s, e)
      BY <2>1 DEF Handle, LifecycleEvents
    <3> QED BY <2>1, <3>1, JoinFollows
  <2>2. CASE e.type = "left"
    <3>1. h = Leave(s, e)
      BY <2>2 DEF Handle, LifecycleEvents
    <3> QED BY <2>2, <3>1, LeaveFollows
  <2>3. CASE e.type = "telemetry"
    <3>1. h = Telemetry(s, e)
      BY <2>3 DEF Handle, LifecycleEvents
    <3> QED BY <2>3, <3>1, TelemetryFollows
  <2>4. CASE e.type \in LifecycleEvents
    <3>1. h = Lifecycle(s, e)
      BY <2>4 DEF Handle, LifecycleEvents
    <3> QED BY <2>4, <3>1, LifecycleFollows
  <2> QED BY <2>1, <2>2, <2>3, <2>4, EventIs
<1> HIDE DEF h
<1>2. n \in State /\ n.devices = h.next.devices
  <2>1. h.next \in State
    BY <1>1 DEF Follows
  <2>2. (s.revision + 1) % RevisionRange \in 0 .. (RevisionRange - 1)
    <3>1. s.revision + 1 \in Int /\ RevisionRange \in Nat /\ RevisionRange > 0
      BY NumbersAssumption DEF State
    <3> QED BY <3>1
  <2>3. n = IF h.changed THEN [h.next EXCEPT !.revision = (s.revision + 1) % RevisionRange]
            ELSE h.next
    BY DEF Reduce, h
  <2> QED BY <2>1, <2>2, <2>3 DEF State
<1> HIDE DEF n
<1>3. Follows(s, n, e)
  BY <1>1, <1>2 DEF Follows, RecordStep
<1>4. Tidy(n)
  <2>1. \A i \in Slots : n.devices[i].id = NoId
    BY <1>3 DEF Follows, RecordStep, Advances, Tidy
  <2>2. ASSUME NEW i \in Slots, NEW j \in Slots, i # j,
               n.devices[i].addr = n.devices[j].addr, n.devices[i].addr # NoAddr
        PROVE  FALSE
    <3>1. RecordStep(s, n, e, i) /\ RecordStep(s, n, e, j)
      BY <1>3 DEF Follows
    <3>2. s.devices[i].addr = s.devices[j].addr => s.devices[i].addr = NoAddr
      BY <2>2 DEF Tidy
    <3> QED BY <2>2, <3>1, <3>2 DEF RecordStep, Advances
  <2> QED BY <2>1, <2>2 DEF Tidy
<1> QED BY <1>3, <1>4 DEF n


-----------------------------------------------------------------------------
(* What the steps of the queue keep of what waits in it.                   *)

Waits(q, e) == \E i \in DOMAIN q : q[i] = e

\* A settled occupancy of an address: none waits, or the last that does says v.
IsSettled(e, a) == e.type = "telemetry" /\ e.kind = "occupancy" /\ e.addr = a
NoneWaits(q, a) == \A j \in DOMAIN q : ~ IsSettled(q[j], a)
LastWaits(q, a, v) ==
    \E j \in DOMAIN q :
        /\ IsSettled(q[j], a) /\ q[j].reading = v
        /\ \A k \in DOMAIN q : k > j => ~ IsSettled(q[k], a)

LEMMA SeqIs ==
    ASSUME NEW S, NEW q \in Seq(S)
    PROVE  /\ Len(q) \in Nat /\ DOMAIN q = 1 .. Len(q)
           /\ \A i \in DOMAIN q : q[i] \in S
  OBVIOUS

LEMMA AppendIs ==
    ASSUME NEW S, NEW q \in Seq(S), NEW e \in S
    PROVE  /\ Append(q, e) \in Seq(S) /\ Len(Append(q, e)) = Len(q) + 1
           /\ DOMAIN Append(q, e) = 1 .. Len(q) + 1
           /\ \A i \in 1 .. Len(q) : Append(q, e)[i] = q[i]
           /\ Append(q, e)[Len(q) + 1] = e
  OBVIOUS

LEMMA TailIs ==
    ASSUME NEW S, NEW q \in Seq(S), q # <<>>
    PROVE  /\ Tail(q) \in Seq(S) /\ Len(Tail(q)) = Len(q) - 1 /\ Len(q) > 0
           /\ DOMAIN Tail(q) = 1 .. Len(q) - 1
           /\ \A i \in 1 .. Len(q) - 1 : Tail(q)[i] = q[i + 1]
           /\ Head(q) = q[1] /\ Head(q) \in S
  OBVIOUS

LEMMA AppendWaits ==
    ASSUME NEW S, NEW q \in Seq(S), NEW e \in S
    PROVE  /\ Waits(Append(q, e), e)
           /\ \A f : Waits(q, f) => Waits(Append(q, e), f)
           /\ \A a : IsSettled(e, a) => LastWaits(Append(q, e), a, e.reading)
           /\ \A a : ~ IsSettled(e, a) /\ NoneWaits(q, a) => NoneWaits(Append(q, e), a)
           /\ \A a, v : ~ IsSettled(e, a) /\ LastWaits(q, a, v) => LastWaits(Append(q, e), a, v)
<1> DEFINE r == Append(q, e)
           n == Len(q)
<1>1. n \in Nat /\ DOMAIN q = 1 .. n
  BY SeqIs
<1>2. /\ DOMAIN r = 1 .. n + 1 /\ \A i \in 1 .. n : r[i] = q[i]
      /\ r[n + 1] = e
  BY AppendIs
<1> HIDE DEF r, n
<1>3. n + 1 \in DOMAIN r /\ \A i \in DOMAIN q : i \in DOMAIN r /\ r[i] = q[i]
  BY <1>1, <1>2
<1>4. \A i \in DOMAIN r : i = n + 1 \/ i \in DOMAIN q
  BY <1>1, <1>2
<1>5. Waits(r, e) /\ \A f : Waits(q, f) => Waits(r, f)
  BY <1>2, <1>3 DEF Waits
<1>6. ASSUME NEW a, IsSettled(e, a) PROVE LastWaits(r, a, e.reading)
  <2>1. \A k \in DOMAIN r : ~ (k > n + 1)
    BY <1>1, <1>2
  <2> QED BY <1>2, <1>3, <1>6, <2>1 DEF LastWaits
<1>7. ASSUME NEW a, ~ IsSettled(e, a), NoneWaits(q, a) PROVE NoneWaits(r, a)
  BY <1>2, <1>3, <1>4, <1>7 DEF NoneWaits
<1>8. ASSUME NEW a, NEW v, ~ IsSettled(e, a), LastWaits(q, a, v) PROVE LastWaits(r, a, v)
  <2>1. PICK j \in DOMAIN q :
          /\ IsSettled(q[j], a) /\ q[j].reading = v
          /\ \A k \in DOMAIN q : k > j => ~ IsSettled(q[k], a)
    BY <1>8 DEF LastWaits
  <2>2. j \in DOMAIN r /\ r[j] = q[j]
    BY <1>3
  <2>3. \A k \in DOMAIN r : k > j => ~ IsSettled(r[k], a)
    BY <1>2, <1>3, <1>4, <1>8, <2>1
  <2> QED BY <2>1, <2>2, <2>3 DEF LastWaits
<1> QED BY <1>5, <1>6, <1>7, <1>8 DEF r

LEMMA TailWaits ==
    ASSUME NEW S, NEW q \in Seq(S), q # <<>>
    PROVE  /\ \A f : Waits(q, f) => Head(q) = f \/ Waits(Tail(q), f)
           /\ \A a : NoneWaits(q, a) => NoneWaits(Tail(q), a) /\ ~ IsSettled(Head(q), a)
           /\ \A a, v : LastWaits(q, a, v) =>
                 \/ LastWaits(Tail(q), a, v)
                 \/ /\ NoneWaits(Tail(q), a)
                    /\ IsSettled(Head(q), a) /\ Head(q).reading = v
<1> DEFINE r == Tail(q)
           h == Head(q)
           n == Len(q)
<1>1. n \in Nat /\ n > 0 /\ DOMAIN q = 1 .. n
  BY SeqIs, TailIs
<1>2. /\ DOMAIN r = 1 .. n - 1 /\ \A i \in 1 .. n - 1 : r[i] = q[i + 1]
      /\ h = q[1]
  BY TailIs
<1> HIDE DEF r, h, n
<1>3. \A i \in DOMAIN r : i \in Int /\ i + 1 \in DOMAIN q /\ r[i] = q[i + 1]
  BY <1>1, <1>2
<1>4. \A i \in DOMAIN q :
        i \in Int /\ (i # 1 => (i - 1 \in DOMAIN r /\ r[i - 1] = q[i]))
  <2>1. \A i \in DOMAIN q : i \in Int
    BY <1>1
  <2>2. ASSUME NEW i \in DOMAIN q, i # 1
        PROVE  i - 1 \in DOMAIN r /\ r[i - 1] = q[i]
    <3>1. i \in Int /\ i - 1 \in 1 .. n - 1 /\ (i - 1) + 1 = i
      BY <1>1, <2>2
    <3> QED BY <1>2, <3>1
  <2> QED BY <2>1, <2>2
<1>5. 1 \in DOMAIN q
  BY <1>1
<1>6. \A f : Waits(q, f) => h = f \/ Waits(r, f)
  BY <1>2, <1>4 DEF Waits
<1>7. ASSUME NEW a, NoneWaits(q, a) PROVE NoneWaits(r, a) /\ ~ IsSettled(h, a)
  BY <1>2, <1>3, <1>5, <1>7 DEF NoneWaits
<1>8. ASSUME NEW a, NEW v, LastWaits(q, a, v)
      PROVE  LastWaits(r, a, v) \/ (NoneWaits(r, a) /\ IsSettled(h, a) /\ h.reading = v)
  <2>1. PICK j \in DOMAIN q :
          /\ IsSettled(q[j], a) /\ q[j].reading = v
          /\ \A k \in DOMAIN q : k > j => ~ IsSettled(q[k], a)
    BY <1>8 DEF LastWaits
  <2>2. CASE j = 1
    <3>1. \A k \in DOMAIN r : k + 1 \in DOMAIN q /\ k + 1 > 1
      BY <1>1, <1>2
    <3>2. NoneWaits(r, a)
      BY <1>3, <2>1, <2>2, <3>1 DEF NoneWaits
    <3> QED BY <1>2, <2>1, <2>2, <3>2
  <2>3. CASE j # 1
    <3>1. j \in Int /\ j - 1 \in DOMAIN r /\ r[j - 1] = q[j]
      BY <1>4, <2>3
    <3>2. ASSUME NEW k \in DOMAIN r, k > j - 1 PROVE ~ IsSettled(r[k], a)
      <4>1. k \in Int /\ k + 1 \in DOMAIN q /\ r[k] = q[k + 1]
        BY <1>3
      <4>2. k + 1 > j
        BY <3>1, <3>2, <4>1
      <4> QED BY <2>1, <4>1, <4>2
    <3> QED BY <2>1, <3>1, <3>2 DEF LastWaits
  <2> QED BY <2>2, <2>3
<1> QED BY <1>6, <1>7, <1>8 DEF r, h

-----------------------------------------------------------------------------
(* The types, with what TypeOK leaves to the model's small sets: what the  *)
(* events are, that what is counted is finite, that the state is tidy.     *)

Loop ==
    /\ queue \in Seq(Queued) /\ Len(queue) <= QueueCapacity
    /\ now \in Times
    /\ pc \in {"pending", "apply", "stale", "removals"}
    /\ current \in Queued \cup {NoEvent}
    /\ (current = NoEvent) = (pc # "apply")
    /\ processed \in 0 .. EventsPerCycle
    /\ todo \subseteq Addrs
    /\ announcing \in Addrs \cup {NoAddr}
    /\ inputs \in 0 .. MaxInputs
    /\ lost \in [Addrs -> SUBSET {"join", "leave", "occupancy"}]

EntryStates == {"none", "unknown", "pendingInterview", "pendingBind",
                "pendingConfigure", "active", "degraded"}
EntryRecord == [state : EntryStates, last : Times, stalePending : BOOLEAN]
OccupancyRecord == [valid : BOOLEAN, stable : BOOLEAN, pending : BOOLEAN,
                    target : BOOLEAN, since : Times, hold : Times]

\* The addresses that have an entry, and those with a deadline.
Entered == {a \in Addrs : Known(a)}
Expected == {a \in Addrs : removal[a] # NoDeadline}

Managers ==
    /\ entries \in [Addrs -> EntryRecord]
    /\ IsFiniteSet(Entered) /\ Cardinality(Entered) <= MaxDevices
    /\ occupancy \in [Addrs -> OccupancyRecord]
    /\ removal \in [Addrs -> Times \cup {NoDeadline}]
    /\ IsFiniteSet(Expected) /\ Cardinality(Expected) <= Removals
    /\ seen \in [1 .. History -> [addr : Addrs \cup {NoAddr}, at : Times]]

Core == core \in State /\ Tidy(core)

Types == Loop /\ Managers /\ Core

LEMMA TypesImply == Types => TypeOK
<1> SUFFICES ASSUME Types PROVE TypeOK
  OBVIOUS
<1>1. Queued \subseteq Events
  BY DEF Queued
<1>2. queue \in Seq(Events)
  BY <1>1 DEF Types, Loop
<1>3. current \in Events \cup {NoEvent}
  BY <1>1 DEF Types, Loop
<1>4. /\ core \in State /\ Len(queue) <= QueueCapacity /\ now \in Times
      /\ pc \in {"pending", "apply", "stale", "removals"}
      /\ (current = NoEvent) = (pc # "apply")
      /\ processed \in 0 .. EventsPerCycle /\ todo \subseteq Addrs
      /\ announcing \in Addrs \cup {NoAddr} /\ inputs \in 0 .. MaxInputs
      /\ lost \in [Addrs -> SUBSET {"join", "leave", "occupancy"}]
  BY DEF Types, Loop, Core
<1>5. /\ entries \in [Addrs -> EntryRecord]
      /\ Cardinality({a \in Addrs : Known(a)}) <= MaxDevices
      /\ occupancy \in [Addrs -> OccupancyRecord]
      /\ removal \in [Addrs -> Times \cup {NoDeadline}]
      /\ Cardinality({a \in Addrs : removal[a] # NoDeadline}) <= Removals
      /\ seen \in [1 .. History -> [addr : Addrs \cup {NoAddr}, at : Times]]
  BY DEF Types, Managers, Entered, Expected
<1> QED
  BY <1>2, <1>3, <1>4, <1>5 DEF TypeOK, EntryRecord, EntryStates, OccupancyRecord

LEMMA TimesAre ==
    /\ Times \subseteq Nat /\ 0 \in Times /\ NoDeadline \notin Times
    /\ \A t \in Times, d \in Nat : (t + d) % ClockRange \in Times
<1>1. ClockRange \in Nat /\ ClockRange > 0 /\ Times = 0 .. (ClockRange - 1)
  BY DevicesClock
<1>2. \A t \in Times, d \in Nat : t + d \in Int
  BY <1>1
<1>3. \A x \in Int : x % ClockRange \in 0 .. (ClockRange - 1)
  BY <1>1
<1> QED BY <1>1, <1>2, <1>3 DEF NoDeadline

LEMMA AboutIs ==
    ASSUME NEW a \in Addrs,
           NEW type \in {"joined", "left"} \cup LifecycleEvents
    PROVE  /\ About(type, a) \in Queued /\ About(type, a).addr = a
           /\ About(type, a).type = type
           /\ \A b : ~ IsSettled(About(type, a), b)
  BY TimesAre DEF About, Queued, Events, IsSettled, LifecycleEvents

LEMMA ReportsAre ==
    ASSUME NEW a \in Addrs, now \in Times, NEW on \in BOOLEAN
    PROVE  /\ Reported(a) \in Queued /\ Raw(a, on) \in Queued /\ Settled(a, on) \in Queued
           /\ \A b : ~ IsSettled(Reported(a), b) /\ ~ IsSettled(Raw(a, on), b)
           /\ \A b : IsSettled(Settled(a, on), b) <=> b = a
           /\ Settled(a, on).reading = on
           /\ Settled(a, on).addr = a
  BY TimesAre DEF About, Reported, Raw, Settled, Queued, Events, IsSettled

\* What waits is an event: whatever else NoEvent is, it is none.
LEMMA NoEventIs ==
    /\ NoEvent \notin Queued
    /\ \A a : ~ IsSettled(NoEvent, a)
    /\ \A a \in Addrs : NoEvent # About("joined", a)
<1>1. NoEvent.type = "none"
  BY DEF NoEvent
<1>2. \A e \in Queued : e.type # "none"
  BY DEF Queued, Events, LifecycleEvents
<1>3. \A a \in Addrs : About("joined", a).type = "joined"
  BY DEF About
<1> QED BY <1>1, <1>2, <1>3 DEF IsSettled

\* normalize_occupancy_report passes a value on, or leaves the settled one.
LEMMA NormalizeIs ==
    ASSUME now \in Times, NEW o \in OccupancyRecord, NEW on \in BOOLEAN
    PROVE  LET n == Normalize(o, on)
           IN /\ n.now \in OccupancyRecord /\ n.emit \in BOOLEAN
              /\ ~ n.emit => n.now.valid = o.valid /\ n.now.stable = o.stable
<1>1. After(Hold) \in Times
  BY TimesAre, DevicesClock DEF After
<1>2. Settle(o, on).now \in OccupancyRecord /\ Settle(o, on).emit = TRUE
  BY <1>1, TimesAre DEF Settle, NoOccupancy, OccupancyRecord
<1>3. LET w == Unsettled(Waiting(o))
      IN /\ w.now \in OccupancyRecord /\ w.emit = FALSE
         /\ w.now.valid = o.valid /\ w.now.stable = o.stable
  BY TimesAre DEF Unsettled, Waiting, OccupancyRecord
<1>4. LET w == Unsettled([o EXCEPT !.pending = TRUE, !.target = on, !.since = now])
      IN /\ w.now \in OccupancyRecord /\ w.emit = FALSE
         /\ w.now.valid = o.valid /\ w.now.stable = o.stable
  BY DEF Unsettled, OccupancyRecord
<1>5. Unsettled(o).now = o /\ Unsettled(o).emit = FALSE
  BY DEF Unsettled
<1>6. \/ Normalize(o, on) = Settle(o, on)
      \/ Normalize(o, on) = Unsettled(Waiting(o))
      \/ Normalize(o, on) = Unsettled([o EXCEPT !.pending = TRUE, !.target = on, !.since = now])
      \/ Normalize(o, on) = Unsettled(o)
  BY DevicesClock DEF Normalize, OccupancyRecord
<1> DEFINE n == Normalize(o, on)
<1> HIDE DEF n
<1>7. CASE n = Settle(o, on)
  BY <1>2, <1>7 DEF n
<1>8. CASE n # Settle(o, on)
  BY <1>3, <1>4, <1>5, <1>6, <1>8 DEF n
<1> QED BY <1>7, <1>8

\* An event is queued if there is room for it.
Queues(e) == queue' = IF Full THEN queue ELSE Append(queue, e)

LEMMA QueuesIs ==
    ASSUME queue \in Seq(Queued), Len(queue) <= QueueCapacity, NEW e \in Queued, Queues(e)
    PROVE  /\ queue' \in Seq(Queued) /\ Len(queue') <= QueueCapacity
           /\ \A f : Waits(queue, f) => Waits(queue', f)
           /\ ~ Full => Waits(queue', e)
           /\ \A a : ~ Full /\ IsSettled(e, a) => LastWaits(queue', a, e.reading)
           /\ \A a : ~ IsSettled(e, a) /\ NoneWaits(queue, a) => NoneWaits(queue', a)
           /\ \A a, v : ~ IsSettled(e, a) /\ LastWaits(queue, a, v) => LastWaits(queue', a, v)
<1> DEFINE S == Queued
<1>1. queue \in Seq(S) /\ e \in S
  OBVIOUS
<1>2. CASE Full
  BY <1>2 DEF Queues
<1>3. CASE ~ Full
  <2>1. queue' = Append(queue, e)
    BY <1>3 DEF Queues
  <2> HIDE DEF S
  <2>2. queue' \in Seq(S) /\ Len(queue') = Len(queue) + 1
    BY <1>1, <2>1
  <2>3. Len(queue) \in Nat
    BY <1>1
  <2>4. Len(queue') <= QueueCapacity
    BY <1>3, <2>2, <2>3, DevicesSizes DEF Full
  <2>5. queue' \in Seq(Queued)
    BY <2>2 DEF S
  <2> QED BY <1>1, <1>3, <2>1, <2>4, <2>5, AppendWaits
<1> QED BY <1>2, <1>3

LEMMA PushIs ==
    ASSUME Loop, NEW e \in Queued, NEW what \in {"join", "leave", "occupancy"}, Push(e, what)
    PROVE  /\ Queues(e)
           /\ lost' \in [Addrs -> SUBSET {"join", "leave", "occupancy"}]
           /\ Full <=> what \in lost'[e.addr]
           /\ \A a \in Addrs : \A w : a # e.addr \/ w # what => (w \in lost'[a] <=> w \in lost[a])
<1>1. e.addr \in Addrs /\ lost \in [Addrs -> SUBSET {"join", "leave", "occupancy"}]
  BY EventIs DEF Loop
<1> DEFINE set == IF Full THEN lost[e.addr] \cup {what} ELSE lost[e.addr] \ {what}
<1>2. Queues(e) /\ lost' = [lost EXCEPT ![e.addr] = set]
  BY DEF Push, Queues
<1>3. set \in SUBSET {"join", "leave", "occupancy"}
  BY <1>1
<1>4. (Full <=> what \in set) /\ \A w : w # what => (w \in set <=> w \in lost[e.addr])
  OBVIOUS
<1> HIDE DEF set
<1>5. lost' \in [Addrs -> SUBSET {"join", "leave", "occupancy"}]
  BY <1>1, <1>2, <1>3
<1>6. lost'[e.addr] = set /\ \A a \in Addrs : a # e.addr => lost'[a] = lost[a]
  BY <1>1, <1>2
<1> QED BY <1>2, <1>4, <1>5, <1>6

LEMMA BeginIs ==
    ASSUME Loop, Begin
    PROVE  /\ queue' \in Seq(Queued) /\ Len(queue') <= QueueCapacity
           /\ current' \in Queued
           /\ \A f : Waits(queue, f) => current' = f \/ Waits(queue', f)
           /\ \A a : NoneWaits(queue, a) => NoneWaits(queue', a) /\ ~ IsSettled(current', a)
           /\ \A a, v : LastWaits(queue, a, v) =>
                 \/ LastWaits(queue', a, v)
                 \/ /\ NoneWaits(queue', a)
                    /\ IsSettled(current', a) /\ current'.reading = v
<1> DEFINE S == Queued
<1>1. queue \in Seq(S) /\ Len(queue) <= QueueCapacity
  BY DEF Loop
<1>2. queue # <<>> /\ queue' = Tail(queue) /\ current' = Head(queue)
  BY DEF Begin
<1> HIDE DEF S
<1>3. queue' \in Seq(S) /\ Len(queue') = Len(queue) - 1 /\ current' \in S
  BY <1>1, <1>2, TailIs
<1>4. Len(queue) \in Nat
  BY <1>1
<1>5. Len(queue') <= QueueCapacity
  BY <1>1, <1>3, <1>4, DevicesSizes
<1>6. queue' \in Seq(Queued) /\ current' \in Queued
  BY <1>3 DEF S
<1> QED BY <1>1, <1>2, <1>5, <1>6, TailWaits

-----------------------------------------------------------------------------
(* Every step keeps the types.                                             *)

LEMMA LoopInit == Init => Loop
<1> SUFFICES ASSUME Init PROVE Loop
  OBVIOUS
<1>1. now \in Times
  BY TimesAre, DevicesClock DEF Init
<1>2. queue \in Seq(Queued) /\ Len(queue) <= QueueCapacity
  BY DevicesSizes DEF Init
<1> QED BY <1>1, <1>2, DevicesSizes DEF Init, Loop

\* What is heard is queued, and nothing else happens to the loop.
LEMMA HearIs ==
    ASSUME Loop, NEW a \in Addrs, Hear(a)
    PROVE  /\ UNCHANGED <<core, runtimeVars, managerVars, seen, announcing, lost>>
           /\ inputs' \in 0 .. MaxInputs
           /\ announcing = NoAddr
           /\ \E e \in Queued : Queues(e) /\ ~ Full /\ \A b : ~ IsSettled(e, b)
<1>1. /\ UNCHANGED <<core, runtimeVars, managerVars, seen, announcing>>
      /\ inputs' \in 0 .. MaxInputs /\ announcing = NoAddr
  BY DevicesSizes DEF Hear, Input, Hush, Loop
<1>2. now \in Times
  BY DEF Loop
<1>3. \E e \in Queued : Post(e) /\ \A b : ~ IsSettled(e, b)
  <2>1. CASE HearLeave(a)
    BY <2>1, AboutIs DEF HearLeave
  <2>2. CASE HearStep(a)
    <3>1. PICK type \in LifecycleEvents : Post(About(type, a))
      BY <2>2 DEF HearStep
    <3> QED BY <3>1, AboutIs
  <2>3. CASE HearReport(a)
    <3>1. TRUE \in BOOLEAN
      OBVIOUS
    <3> QED BY <1>2, <2>3, <3>1, ReportsAre DEF HearReport
  <2>4. CASE HearOccupancy(a)
    <3>1. PICK on \in BOOLEAN : Post(Raw(a, on))
      BY <2>4 DEF HearOccupancy
    <3> QED BY <1>2, <3>1, ReportsAre
  <2> QED BY <2>1, <2>2, <2>3, <2>4 DEF Hear
<1>4. PICK e \in Queued : Post(e) /\ \A b : ~ IsSettled(e, b)
  BY <1>3
<1>5. Queues(e) /\ ~ Full /\ UNCHANGED lost
  BY <1>4 DEF Post, Queues
<1> QED BY <1>1, <1>4, <1>5

\* What becomes of a raw report, of an address that has room.
LEMMA NormalizedIs ==
    ASSUME Types, ApplyOccupancy
    PROVE  LET a == current.addr
               n == Normalize(occupancy[a], current.on)
           IN /\ a \in Addrs /\ n.now \in OccupancyRecord /\ n.emit \in BOOLEAN
              /\ ~ n.emit => /\ n.now.valid = occupancy[a].valid
                             /\ n.now.stable = occupancy[a].stable
              /\ Settled(a, n.now.stable) \in Queued
<1>1. current \in Queued
  BY NoEventIs DEF ApplyOccupancy, Types, Loop
<1>2. current.addr \in Addrs /\ current.on \in BOOLEAN
  BY <1>1 DEF Queued, Events
<1>3. occupancy[current.addr] \in OccupancyRecord /\ now \in Times
  BY <1>2 DEF Types, Managers, Loop
<1> DEFINE n == Normalize(occupancy[current.addr], current.on)
<1>4. /\ n.now \in OccupancyRecord /\ n.emit \in BOOLEAN
      /\ ~ n.emit => /\ n.now.valid = occupancy[current.addr].valid
                     /\ n.now.stable = occupancy[current.addr].stable
  BY <1>2, <1>3, NormalizeIs
<1> HIDE DEF n
<1>5. n.now.stable \in BOOLEAN
  BY <1>4 DEF OccupancyRecord
<1>6. Settled(current.addr, n.now.stable) \in Queued
  BY <1>2, <1>3, <1>5, ReportsAre
<1> QED BY <1>2, <1>4, <1>6 DEF n

LEMMA AppliedIs ==
    ASSUME Types, pc = "apply"
    PROVE  current \in Queued /\ current.addr \in Addrs /\ current.addr # NoAddr
  BY EventIs DEF Types, Loop

LEMMA LoopKept == Types /\ [Next]_vars => Loop'
<1> SUFFICES ASSUME Types, [Next]_vars PROVE Loop'
  OBVIOUS
<1>0. Loop
  BY DEF Types
<1>1. CASE Begin
  <2>1. queue' \in Seq(Queued) /\ Len(queue') <= QueueCapacity /\ current' \in Queued
    BY <1>0, <1>1, BeginIs
  <2>2. current' # NoEvent
    BY <2>1, NoEventIs
  <2>3. processed' \in 0 .. EventsPerCycle /\ pc' = "apply"
    BY <1>0, <1>1, DevicesSizes DEF Begin, Loop
  <2> QED BY <1>0, <1>1, <2>1, <2>2, <2>3 DEF Begin, Loop
<1>2. CASE ApplyOccupancy
  <2> DEFINE a == current.addr
             n == Normalize(occupancy[a], current.on)
             e == Settled(a, n.now.stable)
  <2>1. UNCHANGED <<queue, lost>> \/ Push(e, "occupancy")
    BY <1>2 DEF ApplyOccupancy
  <2>2. /\ pc' = "pending" /\ current' = NoEvent
        /\ UNCHANGED <<now, processed, todo, announcing, inputs>>
    BY <1>2 DEF ApplyOccupancy
  <2>3. CASE UNCHANGED <<queue, lost>>
    BY <1>0, <2>2, <2>3 DEF Loop
  <2>4. CASE Push(e, "occupancy")
    <3>1. e \in Queued
      BY <1>2, NormalizedIs
    <3> HIDE DEF e
    <3>2. Queues(e) /\ lost' \in [Addrs -> SUBSET {"join", "leave", "occupancy"}]
      BY <1>0, <2>4, <3>1, PushIs
    <3>3. queue' \in Seq(Queued) /\ Len(queue') <= QueueCapacity
      BY <1>0, <3>1, <3>2, QueuesIs DEF Loop
    <3> QED BY <1>0, <2>2, <3>2, <3>3 DEF Loop
  <2> QED BY <2>1, <2>3, <2>4
<1>3. CASE Apply
  <2>1. current.addr \in Addrs
    BY <1>3, AppliedIs DEF Apply
  <2>2. \/ lost' = lost
        \/ lost' = [lost EXCEPT ![current.addr] = @ \cup {"join"}]
        \/ lost' = [lost EXCEPT ![current.addr] = @ \cup {"occupancy"}]
        \/ lost' = [lost EXCEPT ![current.addr] = @ \ {"leave", "occupancy"}]
    BY <1>3 DEF Apply
  <2>3. lost' \in [Addrs -> SUBSET {"join", "leave", "occupancy"}]
    BY <1>0, <2>1, <2>2 DEF Loop
  <2>4. /\ pc' = "pending" /\ current' = NoEvent
        /\ UNCHANGED <<queue, now, processed, todo, announcing, inputs>>
    BY <1>3 DEF Apply
  <2> QED BY <1>0, <2>3, <2>4 DEF Loop
<1>4. CASE Tick
  <2>1. now' \in Times
    BY <1>0, <1>4, TimesAre DEF Tick, After, Loop
  <2>2. /\ pc = "pending" /\ pc' = "stale" /\ processed' = 0 /\ todo' \subseteq Addrs
        /\ UNCHANGED <<queue, current, announcing, inputs, lost>>
    BY <1>4 DEF Tick
  <2> QED BY <1>0, <2>1, <2>2, DevicesSizes DEF Loop
<1>5. CASE Expire
  <2>1. /\ pc = "stale" /\ pc' = "removals" /\ todo' \subseteq Addrs
        /\ UNCHANGED <<queue, now, current, processed, announcing, inputs, lost>>
    BY <1>5 DEF Expire
  <2> QED BY <1>0, <2>1 DEF Loop
<1>6. CASE EndTick
  BY <1>0, <1>6 DEF EndTick, Loop
<1>7. ASSUME NEW a \in Addrs, QueueStale(a) PROVE Loop'
  <2>1. About("stale", a) \in Queued
    BY AboutIs DEF LifecycleEvents
  <2>2. Queues(About("stale", a))
    BY <1>7 DEF QueueStale, Queues
  <2>3. queue' \in Seq(Queued) /\ Len(queue') <= QueueCapacity
    BY <1>0, <2>1, <2>2, QueuesIs DEF Loop
  <2>4. /\ todo' \subseteq todo
        /\ UNCHANGED <<now, pc, current, processed, announcing, inputs, lost>>
    BY <1>7 DEF QueueStale
  <2> QED BY <1>0, <2>3, <2>4 DEF Loop
<1>8. ASSUME NEW a \in Addrs, QueueLeave(a) PROVE Loop'
  <2>1. About("left", a) \in Queued
    BY AboutIs
  <2>2. Push(About("left", a), "leave")
    BY <1>8 DEF QueueLeave
  <2>3. /\ Queues(About("left", a))
        /\ lost' \in [Addrs -> SUBSET {"join", "leave", "occupancy"}]
    BY <1>0, <2>1, <2>2, PushIs
  <2>4. queue' \in Seq(Queued) /\ Len(queue') <= QueueCapacity
    BY <1>0, <2>1, <2>3, QueuesIs DEF Loop
  <2>5. /\ todo' \subseteq todo
        /\ UNCHANGED <<now, pc, current, processed, announcing, inputs>>
    BY <1>8 DEF QueueLeave
  <2> QED BY <1>0, <2>3, <2>4, <2>5 DEF Loop
<1>9. CASE QueueJoin
  <2>1. announcing \in Addrs
    BY <1>0, <1>9 DEF QueueJoin, Loop
  <2>2. About("joined", announcing) \in Queued
    BY <2>1, AboutIs
  <2>3. Push(About("joined", announcing), "join")
    BY <1>9 DEF QueueJoin
  <2>4. /\ Queues(About("joined", announcing))
        /\ lost' \in [Addrs -> SUBSET {"join", "leave", "occupancy"}]
    BY <1>0, <2>2, <2>3, PushIs
  <2>5. queue' \in Seq(Queued) /\ Len(queue') <= QueueCapacity
    BY <1>0, <2>2, <2>4, QueuesIs DEF Loop
  <2>6. /\ announcing' = NoAddr
        /\ UNCHANGED <<now, pc, current, processed, todo, inputs>>
    BY <1>9 DEF QueueJoin, runtimeVars
  <2> QED BY <1>0, <2>4, <2>5, <2>6 DEF Loop
<1>10. ASSUME NEW a \in Addrs, Announce(a) PROVE Loop'
  <2>1. inputs' \in 0 .. MaxInputs
    BY <1>0, <1>10, DevicesSizes DEF Announce, Input, Hush, Loop
  <2>2. /\ announcing' = a
        /\ UNCHANGED <<queue, now, pc, current, processed, todo, lost>>
    BY <1>10 DEF Announce, runtimeVars
  <2> QED BY <1>0, <2>1, <2>2 DEF Loop
<1>11. ASSUME NEW a \in Addrs, Hear(a) PROVE Loop'
  <2>1. /\ UNCHANGED <<now, pc, current, processed, todo, announcing, lost>>
        /\ inputs' \in 0 .. MaxInputs
    BY <1>0, <1>11, HearIs DEF runtimeVars
  <2>2. queue' \in Seq(Queued) /\ Len(queue') <= QueueCapacity
    BY <1>0, <1>11, HearIs, QueuesIs DEF Loop
  <2> QED BY <1>0, <2>1, <2>2 DEF Loop
<1>12. ASSUME NEW a \in Addrs, ForceRemove(a) PROVE Loop'
  <2>1. inputs' \in 0 .. MaxInputs
    BY <1>0, <1>12, DevicesSizes DEF ForceRemove, Input, Hush, Loop
  <2>2. UNCHANGED <<queue, now, pc, current, processed, todo, announcing, lost>>
    BY <1>12 DEF ForceRemove, runtimeVars
  <2> QED BY <1>0, <2>1, <2>2 DEF Loop
<1>13. CASE UNCHANGED vars
  BY <1>0, <1>13 DEF Loop, vars, runtimeVars
<1>14. ASSUME NEW a \in Addrs, Suppress(a) PROVE Loop'
  BY <1>13, <1>14 DEF Suppress
<1> QED
  BY <1>1, <1>2, <1>3, <1>4, <1>5, <1>6, <1>7, <1>8, <1>9, <1>10, <1>11, <1>12, <1>13, <1>14
  DEF Next, Runtime, Environment

LEMMA ManagersInit == Init => Managers
<1> SUFFICES ASSUME Init PROVE Managers
  OBVIOUS
<1>1. entries \in [Addrs -> EntryRecord] /\ occupancy \in [Addrs -> OccupancyRecord]
  BY TimesAre DEF Init, NoEntry, NoOccupancy, EntryRecord, EntryStates, OccupancyRecord
<1>2. /\ removal \in [Addrs -> Times \cup {NoDeadline}]
      /\ seen \in [1 .. History -> [addr : Addrs \cup {NoAddr}, at : Times]]
  BY TimesAre DEF Init, NotSeen
<1>3. Entered = {} /\ Expected = {}
  BY DEF Init, NoEntry, Entered, Expected, Known
<1>4. IsFiniteSet({}) /\ Cardinality({}) = 0
  BY FS_EmptySet
<1> QED BY <1>1, <1>2, <1>3, <1>4, DevicesSizes, DevicesAssumption DEF Managers

LEMMA CoreInit == Init => Core
<1>1. FreeRecord \in DeviceRecord
  BY NumbersAssumption DEF FreeRecord, DeviceRecord, ReportingStates
<1>2. InitialState \in State
  BY <1>1, NumbersAssumption DEF InitialState, State
<1>3. Tidy(InitialState)
  BY DEF Tidy, InitialState, FreeRecord
<1> QED BY <1>2, <1>3 DEF Init, Core

LEMMA CoreKept == Types /\ [Next]_vars => Core'
<1> SUFFICES ASSUME Types, [Next]_vars PROVE Core'
  OBVIOUS
<1>1. CASE Apply
  <2>1. current \in Queued /\ current.type # "occupancy" /\ core' = Reduce(core, current).next
    BY <1>1, AppliedIs DEF Apply
  <2>2. core \in State /\ Tidy(core)
    BY DEF Types, Core
  <2>3. core' \in State /\ Tidy(core')
    BY <2>1, <2>2, ReduceFollows DEF Follows
  <2> QED BY <2>3 DEF Core, Tidy
<1>2. CASE UNCHANGED core
  BY <1>2 DEF Types, Core, Tidy
<1>3. Apply \/ UNCHANGED core
  BY DEF Next, Runtime, Environment, Begin, ApplyOccupancy, Tick, Expire, EndTick,
         QueueStale, QueueLeave, QueueJoin, Suppress, Announce, Hear, ForceRemove, vars
<1> QED BY <1>1, <1>2, <1>3

\* A set that grows by one at most, where there is room, stays within its bound.
LEMMA StaysWithin ==
    ASSUME NEW S, IsFiniteSet(S), NEW n \in Nat, Cardinality(S) <= n, NEW T, NEW x,
           T \subseteq S \/ (T \subseteq S \cup {x} /\ Cardinality(S) < n)
    PROVE  IsFiniteSet(T) /\ Cardinality(T) <= n
<1>1. Cardinality(S) \in Nat
  BY FS_CardinalityType
<1>2. CASE T \subseteq S
  <2>1. IsFiniteSet(T) /\ Cardinality(T) <= Cardinality(S)
    BY <1>2, FS_Subset
  <2>2. Cardinality(T) \in Nat
    BY <2>1, FS_CardinalityType
  <2> QED BY <1>1, <2>1, <2>2
<1>3. CASE T \subseteq S \cup {x} /\ Cardinality(S) < n
  <2>1. /\ IsFiniteSet(S \cup {x})
        /\ Cardinality(S \cup {x}) = Cardinality(S) \/ Cardinality(S \cup {x}) = Cardinality(S) + 1
    BY FS_AddElement
  <2>2. IsFiniteSet(T) /\ Cardinality(T) <= Cardinality(S \cup {x})
    BY <1>3, <2>1, FS_Subset
  <2>3. Cardinality(T) \in Nat
    BY <2>2, FS_CardinalityType
  <2> QED BY <1>1, <1>3, <2>1, <2>2, <2>3
<1> QED BY <1>2, <1>3

\* What an event makes of an entry.
LEMMA EntryIs ==
    ASSUME NEW en \in EntryRecord, NEW e \in Queued
    PROVE  /\ EntryAfter(en, e) \in EntryRecord
           /\ en.state # "none" /\ e.type # "left" => EntryAfter(en, e).state # "none"
           /\ e.type \in {"joined", "left"} =>
                 EntryAfter(en, e).state \in {"none", "pendingInterview"}
           /\ e.type = "interviewed" => EntryAfter(en, e).state = "pendingBind"
           /\ e.type = "bound" => EntryAfter(en, e).state = "pendingConfigure"
           /\ e.type \in {"configured", "telemetry"} => EntryAfter(en, e).state = "active"
           /\ e.type = "stale" => EntryAfter(en, e).state = "degraded"
<1>1. e.at \in Times /\ e.type \in {"joined", "left", "telemetry", "occupancy"} \cup LifecycleEvents
  BY EventIs
<1>2. NoEntry \in EntryRecord /\ NoEntry.state = "none"
  BY TimesAre DEF NoEntry, EntryRecord, EntryStates
<1>3. CASE e.type = "joined"
  BY <1>3 DEF EntryAfter, EntryRecord, EntryStates
<1>4. CASE e.type = "left"
  BY <1>2, <1>4 DEF EntryAfter
<1>5. CASE e.type = "telemetry"
  BY <1>1, <1>5 DEF EntryAfter, EntryRecord, EntryStates
<1>6. CASE e.type = "interviewed"
  BY <1>6 DEF EntryAfter, EntryRecord, EntryStates
<1>7. CASE e.type = "bound"
  BY <1>7 DEF EntryAfter, EntryRecord, EntryStates
<1>8. CASE e.type = "configured"
  BY <1>8 DEF EntryAfter, EntryRecord, EntryStates
<1>9. CASE e.type = "stale"
  BY <1>9 DEF EntryAfter, EntryRecord, EntryStates
<1>10. CASE e.type = "occupancy"
  BY <1>10 DEF EntryAfter
<1> QED BY <1>1, <1>3, <1>4, <1>5, <1>6, <1>7, <1>8, <1>9, <1>10 DEF LifecycleEvents

\* The bound on the entries, and that on the deadlines, when they change.
LEMMA EntriesWithin ==
    ASSUME Managers, NEW a,
           \/ Entered' \subseteq Entered
           \/ EntryRoom /\ Entered' \subseteq Entered \cup {a}
    PROVE  IsFiniteSet(Entered') /\ Cardinality(Entered') <= MaxDevices
<1> DEFINE S == Entered
           T == Entered'
<1>1. IsFiniteSet(S) /\ Cardinality(S) <= MaxDevices
  BY DEF Managers
<1>2. T \subseteq S \/ (T \subseteq S \cup {a} /\ Cardinality(S) < MaxDevices)
  BY DEF EntryRoom, Entered
<1> HIDE DEF S, T
<1>3. IsFiniteSet(T) /\ Cardinality(T) <= MaxDevices
  BY <1>1, <1>2, DevicesAssumption, StaysWithin
<1> QED BY <1>3 DEF T

LEMMA RemovalsWithin ==
    ASSUME Managers, NEW a,
           \/ Expected' \subseteq Expected
           \/ Cardinality(Expected) < Removals /\ Expected' \subseteq Expected \cup {a}
    PROVE  IsFiniteSet(Expected') /\ Cardinality(Expected') <= Removals
<1> DEFINE S == Expected
           T == Expected'
<1>1. IsFiniteSet(S) /\ Cardinality(S) <= Removals
  BY DEF Managers
<1>2. T \subseteq S \/ (T \subseteq S \cup {a} /\ Cardinality(S) < Removals)
  OBVIOUS
<1>3. Removals \in Nat
  BY DevicesSizes
<1> HIDE DEF S, T
<1>4. IsFiniteSet(T) /\ Cardinality(T) <= Removals
  BY <1>1, <1>2, <1>3, StaysWithin
<1> QED BY <1>4 DEF T

LEMMA EntriesKept ==
    ASSUME Types, [Next]_vars
    PROVE  /\ entries' \in [Addrs -> EntryRecord]
           /\ \/ Entered' \subseteq Entered
              \/ EntryRoom /\ \E a \in Addrs : Entered' \subseteq Entered \cup {a}
<1>0. entries \in [Addrs -> EntryRecord]
  BY DEF Types, Managers
<1>1. CASE ApplyOccupancy
  <2> DEFINE a == current.addr
             r == [entries[a] EXCEPT !.state = "unknown"]
  <2>1. \/ entries' = entries
        \/ ~ Known(a) /\ EntryRoom /\ entries' = [entries EXCEPT ![a] = r]
    BY <1>1 DEF ApplyOccupancy
  <2>2. a \in Addrs
    BY <1>1, NormalizedIs
  <2>3. r \in EntryRecord
    BY <1>0, <2>2 DEF EntryRecord, EntryStates
  <2> HIDE DEF a, r
  <2>4. entries' \in [Addrs -> EntryRecord]
    BY <1>0, <2>1, <2>3
  <2>5. \A b \in Addrs : b # a => entries'[b] = entries[b]
    BY <1>0, <2>1
  <2>6. Entered' \subseteq Entered \cup {a}
    BY <2>5 DEF Entered, Known
  <2>7. CASE entries' = entries
    BY <1>0, <2>7 DEF Entered, Known
  <2>8. CASE entries' # entries
    BY <2>1, <2>2, <2>4, <2>6, <2>8
  <2> QED BY <2>7, <2>8
<1>2. CASE Apply
  <2> DEFINE a == current.addr
             r == EntryAfter(entries[a], current)
  <2>1. \/ entries' = entries
        \/ /\ Known(a) \/ EntryRoom
           /\ entries' = [entries EXCEPT ![a] = r]
    BY <1>2 DEF Apply
  <2>2. a \in Addrs /\ current \in Queued
    BY <1>2, AppliedIs DEF Apply
  <2>3. r \in EntryRecord
    BY <1>0, <2>2, EntryIs
  <2> HIDE DEF a, r
  <2>4. entries' \in [Addrs -> EntryRecord]
    BY <1>0, <2>1, <2>3
  <2>5. \A b \in Addrs : b # a => entries'[b] = entries[b]
    BY <1>0, <2>1
  <2>6. Entered' \subseteq Entered \cup {a}
    BY <2>5 DEF Entered, Known
  <2>7. CASE entries' = entries
    BY <1>0, <2>7 DEF Entered, Known
  <2>8. CASE Known(a)
    <3>1. a \in Entered
      BY <2>2, <2>8 DEF Entered
    <3> QED BY <2>4, <2>6, <3>1
  <2>9. CASE entries' # entries /\ ~ Known(a)
    BY <2>1, <2>2, <2>4, <2>6, <2>9
  <2> QED BY <2>7, <2>8, <2>9
<1>3. CASE Tick
  <2>1. entries' = [a \in Addrs |-> [entries[a] EXCEPT !.stalePending = @ \/ a \in todo']]
    BY <1>3 DEF Tick
  <2>2. \A a \in Addrs : entries'[a] \in EntryRecord /\ entries'[a].state = entries[a].state
    <3> SUFFICES ASSUME NEW a \in Addrs
                 PROVE  entries'[a] \in EntryRecord /\ entries'[a].state = entries[a].state
      OBVIOUS
    <3> DEFINE mark == entries[a].stalePending \/ a \in todo'
    <3>1. entries'[a] = [entries[a] EXCEPT !.stalePending = mark]
      BY <2>1
    <3>2. mark \in BOOLEAN
      OBVIOUS
    <3> HIDE DEF mark
    <3> QED BY <1>0, <3>1, <3>2 DEF EntryRecord
  <2>3. entries' \in [Addrs -> EntryRecord]
    BY <2>1, <2>2
  <2>4. Entered' \subseteq Entered
    BY <2>2 DEF Entered, Known
  <2> QED BY <2>3, <2>4
<1>4. ASSUME NEW a \in Addrs, QueueStale(a)
      PROVE  entries' \in [Addrs -> EntryRecord] /\ Entered' \subseteq Entered
  <2> DEFINE r == [entries[a] EXCEPT !.stalePending = FALSE]
  <2>1. entries' = entries \/ entries' = [entries EXCEPT ![a] = r]
    BY <1>4 DEF QueueStale
  <2>2. r \in EntryRecord /\ r.state = entries[a].state
    BY <1>0 DEF EntryRecord
  <2> HIDE DEF r
  <2>3. \A b \in Addrs : entries'[b].state = entries[b].state
    BY <1>0, <2>1, <2>2
  <2>4. entries' \in [Addrs -> EntryRecord]
    BY <1>0, <2>1, <2>2
  <2> QED BY <2>3, <2>4 DEF Entered, Known
<1>5. CASE UNCHANGED entries
  BY <1>0, <1>5 DEF Entered, Known
<1>6. \/ ApplyOccupancy \/ Apply \/ Tick \/ UNCHANGED entries
      \/ \E a \in Addrs : QueueStale(a)
  BY DEF Next, Runtime, Environment, Begin, Expire, EndTick, QueueLeave, QueueJoin,
         Suppress, Announce, Hear, ForceRemove, vars, managerVars
<1> QED BY <1>1, <1>2, <1>3, <1>4, <1>5, <1>6

LEMMA RemovalKept ==
    ASSUME Types, [Next]_vars
    PROVE  /\ removal' \in [Addrs -> Times \cup {NoDeadline}]
           /\ \/ Expected' \subseteq Expected
              \/ /\ Cardinality(Expected) < Removals
                 /\ \E a \in Addrs : Expected' \subseteq Expected \cup {a}
<1>0. removal \in [Addrs -> Times \cup {NoDeadline}] /\ now \in Times
  BY DEF Types, Managers, Loop
<1>1. CASE Apply
  <2>1. removal' = removal \/ removal' = [removal EXCEPT ![current.addr] = NoDeadline]
    BY <1>1 DEF Apply
  <2>2. removal' \in [Addrs -> Times \cup {NoDeadline}]
    BY <1>0, <2>1
  <2>3. \A b \in Addrs : removal'[b] = removal[b] \/ removal'[b] = NoDeadline
    BY <1>0, <2>1
  <2> QED BY <2>2, <2>3 DEF Expected
<1>2. CASE Expire
  <2>1. removal' = [a \in Addrs |-> IF a \in todo' THEN NoDeadline ELSE removal[a]]
    BY <1>2 DEF Expire
  <2>2. removal' \in [Addrs -> Times \cup {NoDeadline}]
    BY <1>0, <2>1
  <2>3. \A b \in Addrs : removal'[b] = removal[b] \/ removal'[b] = NoDeadline
    BY <2>1
  <2> QED BY <2>2, <2>3 DEF Expected
<1>3. ASSUME NEW a \in Addrs, ForceRemove(a)
      PROVE  /\ removal' \in [Addrs -> Times \cup {NoDeadline}]
             /\ \/ Expected' \subseteq Expected
                \/ /\ Cardinality(Expected) < Removals
                   /\ Expected' \subseteq Expected \cup {a}
  <2> DEFINE d == After(RemovalDelay)
  <2>1. removal' = [removal EXCEPT ![a] = d] /\ RemovalRoom(a)
    BY <1>3 DEF ForceRemove
  <2>2. d \in Times
    BY <1>0, TimesAre, DevicesClock DEF After
  <2> HIDE DEF d
  <2>3. removal' \in [Addrs -> Times \cup {NoDeadline}]
    BY <1>0, <2>1, <2>2
  <2>4. \A b \in Addrs : b # a => removal'[b] = removal[b]
    BY <1>0, <2>1
  <2>5. Expected' \subseteq Expected \cup {a}
    BY <2>4 DEF Expected
  <2>6. CASE removal[a] # NoDeadline
    <3>1. a \in Expected
      BY <2>6 DEF Expected
    <3> QED BY <2>3, <2>5, <3>1
  <2>7. CASE removal[a] = NoDeadline
    <3>1. Cardinality(Expected) < Removals
      BY <2>1, <2>7 DEF RemovalRoom, Expected
    <3> QED BY <2>3, <2>5, <3>1
  <2> QED BY <2>6, <2>7
<1>4. CASE UNCHANGED removal
  BY <1>0, <1>4 DEF Expected
<1>5. Apply \/ Expire \/ UNCHANGED removal \/ \E a \in Addrs : ForceRemove(a)
  BY DEF Next, Runtime, Environment, Begin, ApplyOccupancy, Tick, EndTick, QueueStale,
         QueueLeave, QueueJoin, Suppress, Announce, Hear, vars, managerVars
<1> QED BY <1>1, <1>2, <1>3, <1>4, <1>5

LEMMA OccupancyKept ==
    ASSUME Types, [Next]_vars
    PROVE  occupancy' \in [Addrs -> OccupancyRecord]
<1>0. occupancy \in [Addrs -> OccupancyRecord]
  BY DEF Types, Managers
<1>1. CASE ApplyOccupancy
  <2> DEFINE a == current.addr
             v == Normalize(occupancy[a], current.on).now
  <2>1. occupancy' = occupancy \/ occupancy' = [occupancy EXCEPT ![a] = v]
    BY <1>1 DEF ApplyOccupancy
  <2>2. v \in OccupancyRecord
    BY <1>1, NormalizedIs
  <2> HIDE DEF a, v
  <2> QED BY <1>0, <2>1, <2>2
<1>2. CASE Apply
  <2>1. occupancy' = occupancy \/ occupancy' = [occupancy EXCEPT ![current.addr] = NoOccupancy]
    BY <1>2 DEF Apply
  <2>2. NoOccupancy \in OccupancyRecord
    BY TimesAre DEF NoOccupancy, OccupancyRecord
  <2> QED BY <1>0, <2>1, <2>2
<1>3. ApplyOccupancy \/ Apply \/ UNCHANGED occupancy
  BY DEF Next, Runtime, Environment, Begin, Tick, Expire, EndTick, QueueStale, QueueLeave,
         QueueJoin, Suppress, Announce, Hear, ForceRemove, vars, managerVars
<1> QED BY <1>0, <1>1, <1>2, <1>3

LEMMA SeenKept ==
    ASSUME Types, [Next]_vars
    PROVE  seen' \in [1 .. History -> [addr : Addrs \cup {NoAddr}, at : Times]]
<1> DEFINE S == [addr : Addrs \cup {NoAddr}, at : Times]
<1>0. seen \in [1 .. History -> S] /\ now \in Times
  BY DEF Types, Managers, Loop
<1>1. CASE Apply
  <2>1. seen' = seen \/ seen' = [i \in 1 .. History |->
                                   IF seen[i].addr = current.addr THEN NotSeen ELSE seen[i]]
    BY <1>1 DEF Apply, Forget
  <2>2. NotSeen \in S
    BY TimesAre DEF NotSeen
  <2> HIDE DEF S
  <2>3. seen' \in [1 .. History -> S]
    BY <1>0, <2>1, <2>2
  <2> QED BY <2>3 DEF S
<1>2. ASSUME NEW a \in Addrs, Announce(a) PROVE seen' \in [1 .. History -> S]
  <2>1. seen' = [seen EXCEPT ![CandidateSlot(a)] = [addr |-> a, at |-> now]]
    BY <1>2 DEF Announce
  <2>2. [addr |-> a, at |-> now] \in S
    BY <1>0
  <2> HIDE DEF S
  <2> QED BY <1>0, <2>1, <2>2
<1>3. Apply \/ UNCHANGED seen \/ \E a \in Addrs : Announce(a)
  BY DEF Next, Runtime, Environment, Begin, ApplyOccupancy, Tick, Expire, EndTick,
         QueueStale, QueueLeave, QueueJoin, Suppress, Hear, ForceRemove, vars
<1> QED BY <1>0, <1>1, <1>2, <1>3

LEMMA TypesKept == Types /\ [Next]_vars => Types'
<1> SUFFICES ASSUME Types, [Next]_vars PROVE Types'
  OBVIOUS
<1>1. Loop' /\ Core'
  BY LoopKept, CoreKept
<1>2. Managers
  BY DEF Types
<1>3. IsFiniteSet(Entered') /\ Cardinality(Entered') <= MaxDevices
  BY <1>2, EntriesKept, EntriesWithin
<1>4. IsFiniteSet(Expected') /\ Cardinality(Expected') <= Removals
  BY <1>2, RemovalKept, RemovalsWithin
<1>5. Managers'
  BY <1>3, <1>4, EntriesKept, RemovalKept, OccupancyKept, SeenKept DEF Managers
<1> QED BY <1>1, <1>5 DEF Types

-----------------------------------------------------------------------------
(* The history of join candidates and the core state.  A device that the   *)
(* history holds, recent or not, is about to be announced to the runtime,  *)
(* waits, is online, or its join has been lost: only a leave ends any of   *)
(* these, and it clears the history in the same step.                      *)

Remembered ==
    \A a \in Addrs : SlotOf(a) # {} =>
        \/ announcing = a
        \/ Online(core, a)
        \/ current = About("joined", a)
        \/ Waits(queue, About("joined", a))
        \/ "join" \in lost[a]

\* What Apply does to the record of a device.
LEMMA ApplyFollows ==
    ASSUME Types, Apply
    PROVE  /\ current \in Queued /\ current.type # "occupancy"
           /\ \A i \in Slots : RecordStep(core, core', current, i)
  BY AppliedIs, ReduceFollows DEF Apply, Types, Core, Follows

\* The record of an online device stays but for a leave of its own.
LEMMA RecordKept ==
    ASSUME Types, Apply, NEW a \in Addrs, NEW i \in Slots,
           core.devices[i].addr = a, core.devices[i].online,
           ~ (current.type = "left" /\ current.addr = a)
    PROVE  /\ core'.devices[i].addr = a /\ core'.devices[i].online
           /\ current.addr # a => core'.devices[i] = core.devices[i]
           /\ current.addr = a => Advances(core.devices[i], core'.devices[i], current)
<1>1. RecordStep(core, core', current, i)
  BY ApplyFollows
<1>2. a # NoAddr
  BY NamesAssumption
<1> QED BY <1>1, <1>2 DEF RecordStep, Advances

LEMMA OnlineKept ==
    ASSUME Types, Apply, NEW a \in Addrs, Online(core, a),
           ~ (current.type = "left" /\ current.addr = a)
    PROVE  Online(core', a)
<1>1. PICK i \in Slots : core.devices[i].addr = a /\ core.devices[i].online
  BY DEF Online
<1>2. core'.devices[i].addr = a /\ core'.devices[i].online
  BY <1>1, RecordKept
<1> QED BY <1>2 DEF Online

LEMMA RememberedKept == Types /\ Remembered /\ [Next]_vars => Remembered'
<1> SUFFICES ASSUME Types, Remembered, [Next]_vars, NEW a \in Addrs, SlotOf(a)' # {}
             PROVE  \/ announcing' = a
                    \/ Online(core', a)
                    \/ current' = About("joined", a)
                    \/ Waits(queue', About("joined", a))
                    \/ "join" \in lost'[a]
  BY DEF Remembered, Online, About
<1> DEFINE e == About("joined", a)
           Holds == \/ announcing' = a
                    \/ Online(core', a)
                    \/ current' = e
                    \/ Waits(queue', e)
                    \/ "join" \in lost'[a]
<1> SUFFICES Holds
  OBVIOUS
<1>0. /\ Loop /\ queue \in Seq(Queued) /\ Len(queue) <= QueueCapacity
      /\ lost \in [Addrs -> SUBSET {"join", "leave", "occupancy"}]
      /\ e \in Queued /\ e.addr = a /\ e.type = "joined"
  BY AboutIs DEF Types, Loop
<1>1. SlotOf(a) # {} =>
        \/ announcing = a \/ Online(core, a) \/ current = e
        \/ Waits(queue, e) \/ "join" \in lost[a]
  BY DEF Remembered
<1>2. seen' = seen => SlotOf(a) # {}
  BY DEF SlotOf
<1> HIDE DEF e
<1>3. CASE Begin
  <2>1. /\ UNCHANGED <<core, seen, announcing, lost>> /\ current = NoEvent
    BY <1>0, <1>3 DEF Begin, Loop
  <2>2. current # e
    BY <2>1, <1>0, NoEventIs
  <2>3. Waits(queue, e) => current' = e \/ Waits(queue', e)
    BY <1>0, <1>3, BeginIs
  <2> QED BY <1>1, <1>2, <2>1, <2>2, <2>3
<1>4. CASE ApplyOccupancy
  <2> DEFINE b == current.addr
             o == Settled(b, Normalize(occupancy[b], current.on).now.stable)
  <2>1. /\ UNCHANGED <<core, seen, announcing>> /\ current.type = "occupancy"
        /\ UNCHANGED <<queue, lost>> \/ Push(o, "occupancy")
    BY <1>4 DEF ApplyOccupancy
  <2>2. current # e
    BY <1>0, <2>1
  <2>3. o \in Queued
    BY <1>4, NormalizedIs
  <2> HIDE DEF o
  <2>4. CASE UNCHANGED <<queue, lost>>
    BY <1>1, <1>2, <2>1, <2>2, <2>4
  <2>5. CASE Push(o, "occupancy")
    <3>1. Queues(o) /\ ("join" \in lost'[a] <=> "join" \in lost[a])
      BY <1>0, <2>3, <2>5, PushIs
    <3>2. Waits(queue, e) => Waits(queue', e)
      BY <1>0, <2>3, <3>1, QueuesIs
    <3> QED BY <1>1, <1>2, <2>1, <2>2, <3>1, <3>2
  <2> QED BY <2>1, <2>4, <2>5
<1>5. CASE Apply
  <2> DEFINE b == current.addr
  <2>1. /\ UNCHANGED <<queue, announcing>>
        /\ core' = Reduce(core, current).next
    BY <1>5 DEF Apply
  <2>2. b \in Addrs
    BY <1>5, AppliedIs DEF Apply
  <2>3. CASE current.type = "left" /\ b = a
    <3>1. seen' = Forget(b) /\ a # NoAddr
      BY <1>5, <2>3, NamesAssumption DEF Apply
    <3>2. SlotOf(a)' = {}
      BY <2>3, <3>1 DEF SlotOf, Forget, NotSeen
    <3> QED BY <3>2
  <2>4. CASE ~ (current.type = "left" /\ b = a)
    <3>1. SlotOf(a) # {}
      <4>1. seen' = seen \/ seen' = Forget(b)
        BY <1>5 DEF Apply
      <4>2. a # NoAddr
        BY NamesAssumption
      <4>3. CASE seen' = Forget(b)
        <5>1. PICK i \in 1 .. History : seen'[i].addr = a
          BY DEF SlotOf
        <5>2. seen[i].addr = a
          BY <4>2, <4>3, <5>1 DEF Forget, NotSeen
        <5> QED BY <5>2 DEF SlotOf
      <4> QED BY <1>2, <4>1, <4>3
    <3>2. Online(core, a) => Online(core', a)
      BY <1>5, <2>4, OnlineKept
    <3>3. current = e => Online(core', a) \/ "join" \in lost'[a]
      BY <1>0, <1>5, <2>1 DEF Apply
    <3>4. "join" \in lost[a] => "join" \in lost'[a]
      <4>1. \/ lost' = lost
            \/ lost' = [lost EXCEPT ![b] = @ \cup {"join"}]
            \/ lost' = [lost EXCEPT ![b] = @ \cup {"occupancy"}]
            \/ lost' = [lost EXCEPT ![b] = @ \ {"leave", "occupancy"}]
        BY <1>5 DEF Apply
      <4> QED BY <1>0, <2>2, <4>1
    <3> QED BY <1>1, <2>1, <3>1, <3>2, <3>3, <3>4
  <2> QED BY <2>3, <2>4
<1>6. ASSUME NEW b \in Addrs, QueueStale(b) PROVE Holds
  <2>1. About("stale", b) \in Queued
    BY AboutIs DEF LifecycleEvents
  <2>2. /\ Queues(About("stale", b))
        /\ UNCHANGED <<core, seen, announcing, current, lost>>
    BY <1>6 DEF QueueStale, Queues
  <2>3. Waits(queue, e) => Waits(queue', e)
    BY <1>0, <2>1, <2>2, QueuesIs
  <2> QED BY <1>1, <1>2, <2>2, <2>3
<1>7. ASSUME NEW b \in Addrs, QueueLeave(b) PROVE Holds
  <2>1. About("left", b) \in Queued
    BY AboutIs
  <2>2. /\ Push(About("left", b), "leave")
        /\ UNCHANGED <<core, seen, announcing, current>>
    BY <1>7 DEF QueueLeave
  <2>3. Queues(About("left", b)) /\ ("join" \in lost'[a] <=> "join" \in lost[a])
    BY <1>0, <2>1, <2>2, PushIs
  <2>4. Waits(queue, e) => Waits(queue', e)
    BY <1>0, <2>1, <2>3, QueuesIs
  <2> QED BY <1>1, <1>2, <2>2, <2>3, <2>4
<1>8. CASE QueueJoin
  <2> DEFINE f == About("joined", announcing)
  <2>1. announcing \in Addrs /\ Push(f, "join") /\ UNCHANGED <<core, seen, current>>
    BY <1>0, <1>8 DEF QueueJoin, Loop, runtimeVars
  <2>2. f \in Queued /\ f.addr = announcing
    BY <2>1, AboutIs
  <2>3. announcing = a => f = e
    BY DEF e
  <2> HIDE DEF f
  <2>4. /\ Queues(f)
        /\ Full <=> "join" \in lost'[announcing]
        /\ a # announcing => ("join" \in lost'[a] <=> "join" \in lost[a])
    BY <1>0, <2>1, <2>2, PushIs
  <2>5. /\ Waits(queue, e) => Waits(queue', e)
        /\ ~ Full => Waits(queue', f)
    BY <1>0, <2>2, <2>4, QueuesIs
  <2>6. CASE announcing = a
    BY <2>3, <2>4, <2>5, <2>6
  <2>7. CASE announcing # a
    BY <1>1, <1>2, <2>1, <2>4, <2>5, <2>7
  <2> QED BY <2>6, <2>7
<1>9. ASSUME NEW b \in Addrs, Announce(b) PROVE Holds
  <2>1. /\ announcing' = b /\ announcing = NoAddr
        /\ seen' = [seen EXCEPT ![CandidateSlot(b)] = [addr |-> b, at |-> now]]
        /\ UNCHANGED <<core, queue, current, lost>>
    BY <1>9 DEF Announce, runtimeVars
  <2>2. CASE b # a
    <3>1. PICK i \in 1 .. History : seen'[i].addr = a
      BY DEF SlotOf
    <3>2. seen[i].addr = a
      <4>1. seen \in [1 .. History -> [addr : Addrs \cup {NoAddr}, at : Times]]
        BY DEF Types, Managers
      <4> QED BY <2>1, <2>2, <3>1, <4>1
    <3>3. SlotOf(a) # {} /\ announcing # a
      BY <2>1, <3>2, NamesAssumption DEF SlotOf
    <3> QED BY <1>1, <2>1, <3>3
  <2> QED BY <2>1, <2>2
<1>10. ASSUME NEW b \in Addrs, Hear(b) PROVE Holds
  <2>1. PICK f \in Queued : Queues(f)
    BY <1>0, <1>10, HearIs
  <2>2. UNCHANGED <<core, current, seen, announcing, lost>>
    BY <1>0, <1>10, HearIs DEF runtimeVars
  <2>3. Waits(queue, e) => Waits(queue', e)
    BY <1>0, <2>1, QueuesIs
  <2> QED BY <1>1, <1>2, <2>2, <2>3
<1>11. CASE UNCHANGED <<core, queue, current, seen, announcing, lost>>
  BY <1>1, <1>2, <1>11
<1>12. \/ Begin \/ ApplyOccupancy \/ Apply \/ QueueJoin
       \/ \E b \in Addrs : QueueStale(b) \/ QueueLeave(b) \/ Announce(b) \/ Hear(b)
       \/ UNCHANGED <<core, queue, current, seen, announcing, lost>>
  BY DEF Next, Runtime, Environment, Tick, Expire, EndTick, Suppress, ForceRemove,
         vars, runtimeVars
<1> QED
  BY <1>3, <1>4, <1>5, <1>6, <1>7, <1>8, <1>9, <1>10, <1>11, <1>12

-----------------------------------------------------------------------------
(* The entries of ReportingManager and the records of the core state.      *)

\* What the entry's state says of the record.
Confirms(state, d) ==
    /\ state = "pendingBind" => d.reporting = "interviewed"
    /\ state = "pendingConfigure" => d.reporting = "bound"
    /\ state = "active" => d.reporting \in {"configured", "active"} /\ ~ d.stale
    /\ state = "degraded" => d.reporting = "stale" /\ d.stale

Confirmed ==
    \A i \in Slots, a \in Addrs :
        core.devices[i].addr = a /\ core.devices[i].online =>
            Confirms(entries[a].state, core.devices[i])

LEMMA ConfirmedAgrees == Confirmed => ManagersAgree
  BY DEF Confirmed, Confirms, ManagersAgree

LEMMA ConfirmedKept == Types /\ Confirmed /\ [Next]_vars => Confirmed'
<1> SUFFICES ASSUME Types, Confirmed, [Next]_vars, NEW i \in Slots, NEW a \in Addrs,
                    core'.devices[i].addr = a, core'.devices[i].online
             PROVE  Confirms(entries'[a].state, core'.devices[i])
  BY DEF Confirmed, Confirms
<1>0. entries \in [Addrs -> EntryRecord] /\ a # NoAddr
  BY NamesAssumption DEF Types, Managers
<1>1. CASE Apply
  <2> DEFINE e == current
             d == core.devices[i]
             new == core'.devices[i]
             known == IF Known(e.addr) \/ (e.type = "joined" /\ EntryRoom)
                      THEN [entries EXCEPT ![e.addr] = EntryAfter(entries[e.addr], e)]
                      ELSE entries
  <2>1. RecordStep(core, core', e, i) /\ e \in Queued /\ e.type # "occupancy"
    BY <1>1, ApplyFollows
  <2>2. entries' = known
    BY <1>1 DEF Apply
  <2>3. e.addr \in Addrs /\ e.type \in {"joined", "left", "telemetry"} \cup LifecycleEvents
    BY <2>1, EventIs
  <2>4. CASE e.addr # a
    <3>1. entries'[a] = entries[a]
      BY <1>0, <2>2, <2>4
    <3>2. new = d
      BY <1>0, <2>1, <2>4 DEF RecordStep, Advances
    <3> QED BY <3>1, <3>2 DEF Confirmed
  <2>5. CASE e.addr = a
    <3>1. \/ e.type = "joined"
          \/ e.type # "left" /\ Advances(d, new, e)
      BY <1>0, <2>1, <2>5 DEF RecordStep
    <3>2. \/ entries'[a] = EntryAfter(entries[a], e)
          \/ entries'[a].state = "none"
      BY <1>0, <2>2, <2>5 DEF Known
    <3>3. entries[a] \in EntryRecord
      BY <1>0
    <3>4. CASE entries'[a].state = "none"
      BY <3>4 DEF Confirms
    <3>5. CASE entries'[a] = EntryAfter(entries[a], e)
      <4> HIDE DEF e, d, new
      <4>1. CASE e.type = "joined"
        BY <2>1, <3>3, <3>5, <4>1, EntryIs DEF Confirms
      <4>2. CASE e.type = "telemetry" /\ Advances(d, new, e)
        <5>1. entries'[a].state = "active"
          BY <2>1, <3>3, <3>5, <4>2, EntryIs
        <5>2. new.reporting = "active" /\ ~ new.stale
          BY <4>2 DEF Advances
        <5> QED BY <5>1, <5>2 DEF Confirms, new
      <4>3. CASE e.type \in LifecycleEvents /\ Advances(d, new, e)
        <5>1. /\ e.type = "interviewed" => entries'[a].state = "pendingBind"
              /\ e.type = "bound" => entries'[a].state = "pendingConfigure"
              /\ e.type = "configured" => entries'[a].state = "active"
              /\ e.type = "stale" => entries'[a].state = "degraded"
          BY <2>1, <3>3, <3>5, EntryIs
        <5>2. new.reporting = e.type /\ (new.stale <=> e.type = "stale")
          BY <4>3 DEF Advances
        <5> QED BY <4>3, <5>1, <5>2 DEF Confirms, LifecycleEvents, new
      <4> QED BY <2>3, <3>1, <4>1, <4>2, <4>3
    <3> QED BY <3>2, <3>4, <3>5
  <2> QED BY <2>4, <2>5
<1>2. CASE core' = core
  <2>1. entries'[a].state = entries[a].state \/ entries'[a].state = "unknown"
        \/ Apply
    <3>1. CASE ApplyOccupancy
      BY <1>0, <3>1 DEF ApplyOccupancy, EntryRecord
    <3>2. CASE Tick
      BY <1>0, <3>2 DEF Tick, EntryRecord
    <3>3. ASSUME NEW b \in Addrs, QueueStale(b) PROVE entries'[a].state = entries[a].state
      BY <1>0, <3>3 DEF QueueStale, EntryRecord
    <3>4. \/ ApplyOccupancy \/ Apply \/ Tick \/ UNCHANGED entries
          \/ \E b \in Addrs : QueueStale(b)
      BY DEF Next, Runtime, Environment, Begin, Expire, EndTick, QueueLeave, QueueJoin,
             Suppress, Announce, Hear, ForceRemove, vars, managerVars
    <3> QED BY <3>1, <3>2, <3>3, <3>4
  <2>2. Confirms(entries[a].state, core'.devices[i])
    BY <1>2 DEF Confirmed
  <2>3. entries'[a].state = "unknown" => Confirms(entries'[a].state, core'.devices[i])
    BY DEF Confirms
  <2>4. entries'[a].state = entries[a].state => Confirms(entries'[a].state, core'.devices[i])
    BY <2>2
  <2> QED BY <1>1, <2>1, <2>3, <2>4
<1>3. Apply \/ core' = core
  BY DEF Next, Runtime, Environment, Begin, ApplyOccupancy, Tick, Expire, EndTick,
         QueueStale, QueueLeave, QueueJoin, Suppress, Announce, Hear, ForceRemove, vars
<1> QED BY <1>1, <1>2, <1>3

-----------------------------------------------------------------------------
(* The occupancy that is settled and the one that is shown.  The last      *)
(* event of it that waits carries the settled value; when none waits, the  *)
(* event in hand does; and when that is another one, the core state shows  *)
(* the value, or does not know the device.                                 *)

Shows(s, a, v) ==
    \E i \in Slots : /\ s.devices[i].addr = a /\ s.devices[i].online
                     /\ s.devices[i].readings["occupancy"] = v

OnItsWay(a, v) ==
    \/ LastWaits(queue, a, v)
    \/ /\ NoneWaits(queue, a)
       /\ IsSettled(current, a) /\ current.reading = v
    \/ /\ NoneWaits(queue, a)
       /\ ~ IsSettled(current, a) /\ Shows(core, a, v)

Delivered ==
    \A a \in Addrs :
        occupancy[a].valid /\ "occupancy" \notin lost[a] => OnItsWay(a, occupancy[a].stable)

\* A settled event that waits says so in full.
LEMMA DeliveredIsShown == Types /\ Delivered => StableIsShown
<1> SUFFICES ASSUME Types, Delivered, NEW i \in Slots, NEW a \in Addrs,
                    core.devices[i].addr = a,
                    occupancy[a].valid, "occupancy" \notin lost[a]
             PROVE  \/ core.devices[i].readings["occupancy"] = occupancy[a].stable
                    \/ \E t \in Times : In([Settled(a, occupancy[a].stable) EXCEPT !.at = t])
  BY DEF StableIsShown
<1> DEFINE v == occupancy[a].stable
<1>1. OnItsWay(a, v)
  BY DEF Delivered
<1> HIDE DEF v
<1>2. ASSUME NEW e \in Queued, IsSettled(e, a), e.reading = v
      PROVE  e.at \in Times /\ e = [Settled(a, v) EXCEPT !.at = e.at]
  <2>1. /\ e = [type |-> e.type, id |-> e.id, addr |-> e.addr, on |-> e.on,
                kind |-> e.kind, reading |-> e.reading, at |-> e.at]
        /\ e.id = NoId /\ e.at \in Times
    BY DEF Queued, Events
  <2>0. e.on = FALSE
    BY <1>2 DEF Queued, IsSettled
  <2> DEFINE w == Settled(a, v)
             x == [w EXCEPT !.at = e.at]
  <2>2. v \in BOOLEAN /\ now \in Times
    BY DEF v, Types, Loop, Managers, OccupancyRecord
  <2>3. w \in Events
    BY <2>2, ReportsAre DEF Queued
  <2>4. w.type = "telemetry" /\ w.kind = "occupancy" /\ w.addr = a /\ w.id = NoId /\ w.reading = v
    BY DEF Settled, About
  <2>5. w.on = FALSE
    BY DEF Settled, About
  <2> HIDE DEF w
  <2>6. x \in Events /\ x.at = e.at
    BY <2>1, <2>3 DEF Events
  <2>7. /\ x.type = "telemetry" /\ x.kind = "occupancy" /\ x.addr = a /\ x.id = NoId
        /\ x.reading = v /\ x.on = FALSE
    BY <2>3, <2>4, <2>5 DEF Events
  <2> HIDE DEF x
  <2>8. x = [type |-> x.type, id |-> x.id, addr |-> x.addr, on |-> x.on,
             kind |-> x.kind, reading |-> x.reading, at |-> x.at]
    BY <2>6 DEF Events
  <2>9. e = x
    BY <1>2, <2>0, <2>1, <2>6, <2>7, <2>8 DEF IsSettled
  <2> QED BY <2>1, <2>9 DEF x, w
<1>3. CASE LastWaits(queue, a, v)
  <2> DEFINE S == Queued
  <2>1. PICK j \in DOMAIN queue : IsSettled(queue[j], a) /\ queue[j].reading = v
    BY <1>3 DEF LastWaits
  <2>2. queue \in Seq(S)
    BY DEF Types, Loop
  <2> HIDE DEF S
  <2>3. queue[j] \in S
    BY <2>1, <2>2, SeqIs
  <2>4. queue[j] \in Queued
    BY <2>3 DEF S
  <2> QED BY <1>2, <2>1, <2>4 DEF In, v
<1>4. CASE IsSettled(current, a) /\ current.reading = v
  <2>1. current \in Queued
    BY <1>4, NoEventIs DEF Types, Loop
  <2> QED BY <1>2, <1>4, <2>1 DEF In, v
<1>5. CASE Shows(core, a, v)
  BY <1>5, NamesAssumption DEF Shows, Types, Core, Tidy, v
<1> QED BY <1>1, <1>3, <1>4, <1>5 DEF OnItsWay

\* What is on its way stays so while other events come to wait.
LEMMA OthersPass ==
    ASSUME Loop, NEW e \in Queued, Queues(e), NEW a, NEW v, ~ IsSettled(e, a),
           OnItsWay(a, v), core' = core,
           current' = current \/ (~ IsSettled(current, a) /\ ~ IsSettled(current', a))
    PROVE  OnItsWay(a, v)'
<1>1. queue \in Seq(Queued) /\ Len(queue) <= QueueCapacity
  BY DEF Loop
<1>2. /\ LastWaits(queue, a, v) => LastWaits(queue', a, v)
      /\ NoneWaits(queue, a) => NoneWaits(queue', a)
  BY <1>1, QueuesIs
<1>3. CASE current' = current
  BY <1>2, <1>3 DEF OnItsWay
<1>4. CASE ~ IsSettled(current, a) /\ ~ IsSettled(current', a)
  BY <1>2, <1>4 DEF OnItsWay
<1> QED BY <1>3, <1>4

\* Apply shows what it has in hand, and keeps what was shown.
LEMMA ApplyShows ==
    ASSUME Types, Apply, NEW a \in Addrs, NEW v, OnItsWay(a, v),
           ~ (current.type = "left" /\ current.addr = a), "occupancy" \notin lost'[a]
    PROVE  OnItsWay(a, v)'
<1>0. /\ current \in Queued /\ current' = NoEvent /\ queue' = queue
      /\ core \in State
      /\ lost \in [Addrs -> SUBSET {"join", "leave", "occupancy"}]
  BY AppliedIs DEF Apply, Types, Loop, Core
<1>1. CASE LastWaits(queue, a, v)
  BY <1>0, <1>1 DEF OnItsWay
<1>2. \A i \in Slots : core.devices[i].readings \in [Kinds -> Readings \cup {NoReading}]
  BY <1>0 DEF State, DeviceRecord
<1>3. CASE NoneWaits(queue, a) /\ IsSettled(current, a) /\ current.reading = v
  <2>1. current.type = "telemetry" /\ current.kind = "occupancy" /\ current.addr = a
    BY <1>3 DEF IsSettled
  <2>2. Online(core', a)
    BY <1>0, <2>1 DEF Apply
  <2>3. PICK i \in Slots : core'.devices[i].addr = a /\ core'.devices[i].online
    BY <2>2 DEF Online
  <2>4. RecordStep(core, core', current, i) /\ a # NoAddr
    BY ApplyFollows, NamesAssumption
  <2>5. Advances(core.devices[i], core'.devices[i], current)
    BY <2>1, <2>3, <2>4 DEF RecordStep
  <2>6. core'.devices[i].readings = [core.devices[i].readings EXCEPT !["occupancy"] = v]
    BY <1>3, <2>1, <2>5 DEF Advances
  <2>7. core'.devices[i].readings["occupancy"] = v
    BY <1>2, <2>6, DevicesReadings
  <2>8. Shows(core', a, v)
    BY <2>3, <2>7 DEF Shows
  <2> QED BY <1>0, <1>3, <2>8, NoEventIs DEF OnItsWay
<1>4. CASE NoneWaits(queue, a) /\ ~ IsSettled(current, a) /\ Shows(core, a, v)
  <2>1. PICK i \in Slots : /\ core.devices[i].addr = a /\ core.devices[i].online
                           /\ core.devices[i].readings["occupancy"] = v
    BY <1>4 DEF Shows
  <2>2. /\ core'.devices[i].addr = a /\ core'.devices[i].online
        /\ current.addr # a => core'.devices[i] = core.devices[i]
        /\ current.addr = a => Advances(core.devices[i], core'.devices[i], current)
    BY <2>1, RecordKept
  <2>3. core'.devices[i].readings["occupancy"] = v
    <3>1. CASE current.addr # a
      BY <2>1, <2>2, <3>1
    <3>2. CASE current.addr = a /\ current.type = "telemetry"
      <4>1. current.kind # "occupancy"
        BY <1>4, <3>2 DEF IsSettled
      <4>2. core'.devices[i].readings =
              [core.devices[i].readings EXCEPT ![current.kind] = current.reading]
        BY <2>2, <3>2 DEF Advances
      <4> QED BY <1>2, <2>1, <4>1, <4>2, DevicesReadings
    <3>3. CASE current.addr = a /\ current.type # "telemetry"
      <4>1. current.type = "joined" \/ current.type \in LifecycleEvents
        BY <1>0, <3>3, ApplyFollows, EventIs
      <4> QED BY <2>1, <2>2, <3>3, <4>1 DEF Advances
    <3> QED BY <3>1, <3>2, <3>3
  <2>4. Shows(core', a, v)
    BY <2>2, <2>3 DEF Shows
  <2> QED BY <1>0, <1>4, <2>4, NoEventIs DEF OnItsWay
<1> QED BY <1>1, <1>3, <1>4 DEF OnItsWay

LEMMA DeliveredKept == Types /\ Delivered /\ [Next]_vars => Delivered'
<1> SUFFICES ASSUME Types, Delivered, [Next]_vars, NEW a \in Addrs, NEW v,
                    occupancy'[a].valid, occupancy'[a].stable = v, "occupancy" \notin lost'[a]
             PROVE  OnItsWay(a, v)'
  BY DEF Delivered, OnItsWay
<1>0. /\ Loop /\ occupancy \in [Addrs -> OccupancyRecord]
      /\ lost \in [Addrs -> SUBSET {"join", "leave", "occupancy"}]
  BY DEF Types, Loop, Managers
<1>1. occupancy[a].valid /\ occupancy[a].stable = v /\ "occupancy" \notin lost[a] => OnItsWay(a, v)
  BY DEF Delivered
<1>2. CASE Begin
  <2>1. UNCHANGED <<core, occupancy, lost>> /\ current = NoEvent
    BY <1>0, <1>2 DEF Begin, managerVars, Loop
  <2>2. OnItsWay(a, v) /\ ~ IsSettled(current, a)
    BY <1>1, <2>1, NoEventIs
  <2>3. /\ NoneWaits(queue, a) => NoneWaits(queue', a) /\ ~ IsSettled(current', a)
        /\ LastWaits(queue, a, v) =>
              \/ LastWaits(queue', a, v)
              \/ /\ NoneWaits(queue', a)
                 /\ IsSettled(current', a) /\ current'.reading = v
    BY <1>0, <1>2, BeginIs
  <2> QED BY <2>1, <2>2, <2>3 DEF OnItsWay
<1>3. CASE ApplyOccupancy
  <2> DEFINE b == current.addr
             n == Normalize(occupancy[b], current.on)
             e == Settled(b, n.now.stable)
  <2>1. /\ \/ UNCHANGED <<occupancy, queue, lost>>
           \/ /\ occupancy' = [occupancy EXCEPT ![b] = n.now]
              /\ n.emit => Push(e, "occupancy")
              /\ ~ n.emit => UNCHANGED <<queue, lost>>
        /\ core' = core
    BY <1>3 DEF ApplyOccupancy
  <2>2. ~ IsSettled(current, a) /\ ~ IsSettled(current', a)
    BY <1>3, NoEventIs DEF ApplyOccupancy, IsSettled
  <2>3. /\ b \in Addrs /\ n.emit \in BOOLEAN /\ e \in Queued
        /\ ~ n.emit => n.now.valid = occupancy[b].valid /\ n.now.stable = occupancy[b].stable
    BY <1>3, NormalizedIs
  <2>4. n.now.stable \in BOOLEAN /\ now \in Times
    BY <1>0, <1>3, NormalizedIs DEF OccupancyRecord, Loop
  <2>5. /\ e.addr = b /\ e.reading = n.now.stable
        /\ IsSettled(e, a) <=> a = b
    BY <2>3, <2>4, ReportsAre
  <2> HIDE DEF b, n, e
  <2>6. CASE UNCHANGED <<occupancy, queue, lost>>
    BY <1>1, <2>1, <2>2, <2>6 DEF OnItsWay
  <2>7. CASE occupancy' = [occupancy EXCEPT ![b] = n.now] /\ ~ n.emit /\ UNCHANGED <<queue, lost>>
    <3>1. occupancy[a].valid /\ occupancy[a].stable = v
      BY <1>0, <2>3, <2>7
    <3> QED BY <1>1, <2>1, <2>2, <2>7, <3>1 DEF OnItsWay
  <2>8. CASE occupancy' = [occupancy EXCEPT ![b] = n.now] /\ Push(e, "occupancy")
    <3>1. /\ Queues(e)
          /\ Full <=> "occupancy" \in lost'[b]
          /\ a # b => ("occupancy" \in lost'[a] <=> "occupancy" \in lost[a])
      BY <1>0, <2>3, <2>5, <2>8, PushIs
    <3>2. CASE a = b
      <4>1. ~ Full /\ v = n.now.stable
        BY <1>0, <2>8, <3>1, <3>2
      <4>2. LastWaits(queue', a, v)
        BY <1>0, <2>3, <2>5, <3>1, <3>2, <4>1, QueuesIs DEF Loop
      <4> QED BY <4>2 DEF OnItsWay
    <3>3. CASE a # b
      <4>1. occupancy'[a] = occupancy[a]
        BY <1>0, <2>8, <3>3
      <4>2. OnItsWay(a, v)
        BY <1>1, <3>1, <3>3, <4>1
      <4> QED BY <1>0, <2>1, <2>2, <2>3, <2>5, <3>1, <3>3, <4>2, OthersPass
    <3> QED BY <3>2, <3>3
  <2> QED BY <2>1, <2>3, <2>6, <2>7, <2>8
<1>4. CASE Apply
  <2>1. current.addr \in Addrs
    BY <1>4, AppliedIs DEF Apply
  <2>2. ~ (current.type = "left" /\ current.addr = a)
    <3> SUFFICES ASSUME current.type = "left", current.addr = a PROVE FALSE
      OBVIOUS
    <3>1. occupancy' = [occupancy EXCEPT ![a] = NoOccupancy]
      BY <1>4 DEF Apply
    <3>2. occupancy'[a] = NoOccupancy
      BY <1>0, <3>1
    <3> QED BY <3>2 DEF NoOccupancy
  <2>3. occupancy'[a] = occupancy[a]
    BY <1>0, <1>4, <2>1, <2>2 DEF Apply
  <2>4. "occupancy" \notin lost[a]
    <3>1. \/ lost' = lost
          \/ lost' = [lost EXCEPT ![current.addr] = @ \cup {"join"}]
          \/ lost' = [lost EXCEPT ![current.addr] = @ \cup {"occupancy"}]
          \/ /\ current.type = "left"
             /\ lost' = [lost EXCEPT ![current.addr] = @ \ {"leave", "occupancy"}]
      BY <1>4 DEF Apply
    <3> QED BY <1>0, <2>1, <2>2, <3>1
  <2>5. OnItsWay(a, v)
    BY <1>1, <2>3, <2>4
  <2> QED BY <1>4, <2>2, <2>5, ApplyShows
<1>5. ASSUME NEW b \in Addrs, QueueStale(b) PROVE OnItsWay(a, v)'
  <2>1. About("stale", b) \in Queued /\ ~ IsSettled(About("stale", b), a)
    BY AboutIs DEF LifecycleEvents
  <2>2. /\ Queues(About("stale", b))
        /\ UNCHANGED <<core, occupancy, current, lost>>
    BY <1>5 DEF QueueStale, Queues
  <2> QED BY <1>0, <1>1, <2>1, <2>2, OthersPass
<1>6. ASSUME NEW b \in Addrs, QueueLeave(b) PROVE OnItsWay(a, v)'
  <2>1. About("left", b) \in Queued /\ ~ IsSettled(About("left", b), a)
    BY AboutIs
  <2>2. /\ Push(About("left", b), "leave")
        /\ UNCHANGED <<core, occupancy, current>>
    BY <1>6 DEF QueueLeave, managerVars
  <2>3. /\ Queues(About("left", b))
        /\ "occupancy" \in lost'[a] <=> "occupancy" \in lost[a]
    BY <1>0, <2>1, <2>2, PushIs
  <2> QED BY <1>0, <1>1, <2>1, <2>2, <2>3, OthersPass
<1>7. CASE QueueJoin
  <2> DEFINE f == About("joined", announcing)
  <2>1. announcing \in Addrs /\ Push(f, "join") /\ UNCHANGED <<core, occupancy, current>>
    BY <1>0, <1>7 DEF QueueJoin, Loop, runtimeVars, managerVars
  <2>2. f \in Queued /\ ~ IsSettled(f, a)
    BY <2>1, AboutIs
  <2> HIDE DEF f
  <2>3. Queues(f) /\ ("occupancy" \in lost'[a] <=> "occupancy" \in lost[a])
    BY <1>0, <2>1, <2>2, PushIs
  <2> QED BY <1>0, <1>1, <2>1, <2>2, <2>3, OthersPass
<1>8. ASSUME NEW b \in Addrs, Hear(b) PROVE OnItsWay(a, v)'
  <2>1. PICK f \in Queued : Queues(f) /\ ~ IsSettled(f, a)
    BY <1>0, <1>8, HearIs
  <2>2. UNCHANGED <<core, current, occupancy, lost>>
    BY <1>0, <1>8, HearIs DEF runtimeVars, managerVars
  <2> QED BY <1>0, <1>1, <2>1, <2>2, OthersPass
<1>9. CASE UNCHANGED <<core, queue, current, occupancy, lost>>
  BY <1>1, <1>9 DEF OnItsWay
<1>10. \/ Begin \/ ApplyOccupancy \/ Apply \/ QueueJoin
       \/ \E b \in Addrs : QueueStale(b) \/ QueueLeave(b) \/ Hear(b)
       \/ UNCHANGED <<core, queue, current, occupancy, lost>>
  BY DEF Next, Runtime, Environment, Tick, Expire, EndTick, Suppress, Announce,
         ForceRemove, vars, runtimeVars, managerVars
<1> QED BY <1>2, <1>3, <1>4, <1>5, <1>6, <1>7, <1>8, <1>9, <1>10

-----------------------------------------------------------------------------
(* The theorems                                                            *)

IInv == Types /\ Remembered /\ Confirmed /\ Delivered

\* The inductive invariant: the types, what the history of candidates means, what
\* the entries say of the records, and where a settled occupancy is.
THEOREM IInvHolds == Spec => []IInv
<1>1. Init => IInv
  <2> SUFFICES ASSUME Init PROVE IInv
    OBVIOUS
  <2>1. Types
    BY LoopInit, ManagersInit, CoreInit DEF Types
  <2>2. Remembered
    BY NamesAssumption DEF Init, Remembered, SlotOf, NotSeen
  <2>3. Confirmed
    BY DEF Init, Confirmed, InitialState, FreeRecord
  <2>4. Delivered
    BY DEF Init, Delivered, NoOccupancy
  <2> QED BY <2>1, <2>2, <2>3, <2>4 DEF IInv
<1>2. IInv /\ [Next]_vars => IInv'
  BY TypesKept, RememberedKept, ConfirmedKept, DeliveredKept DEF IInv
<1> QED BY <1>1, <1>2, PTL DEF Spec

\* An announcement that DeviceManager takes for a repetition is of a device
\* that is online or whose join is on its way, unless the join has been lost to
\* a full queue or a full state, whatever the sizes of the queue, the history
\* and the state, and however the clock goes round.
THEOREM SuppressionIsAccounted == Spec => []SuppressedIsAccounted
<1>1. IInv => SuppressedIsAccounted
  BY DEF IInv, Remembered, SuppressedIsAccounted, Recent, JoinWaits, In, Waits
<1> QED BY <1>1, IInvHolds, PTL

\* ReportingManager's entry and the core state's record of a device that is
\* online agree on the reporting of the device, and the occupancy that the
\* manager has settled on is the one the core state shows, or has an event that
\* waits: for any numbers of devices, and with every variable of its type.
THEOREM ManagersReportTheSame == Spec => []ReportingAgrees
<1>1. IInv => ReportingAgrees
  BY TypesImply, ConfirmedAgrees, DeliveredIsShown DEF IInv, ReportingAgrees
<1> QED BY <1>1, IInvHolds, PTL
=============================================================================
