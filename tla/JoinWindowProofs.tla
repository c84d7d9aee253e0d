-------------------------- MODULE JoinWindowProofs --------------------------
(***************************************************************************)
(* A theorem about JoinWindow, for any lengths of windows and delays and   *)
(* any number of signals that wait: what the adapter believes of the       *)
(* window covers what the stack does on the air.                           *)
(***************************************************************************)
EXTENDS JoinWindow, FiniteSetTheorems, WellFoundedInduction, TLAPS

-----------------------------------------------------------------------------
(* The longest window.                                                     *)

IsLargest(m, S) == m \in S /\ \A d \in S : d <= m

\* A finite set of numbers that is not empty has a largest one.
LEMMA LargestExists ==
    ASSUME NEW S \in SUBSET Nat, IsFiniteSet(S), S # {}
    PROVE  \E m : IsLargest(m, S)
<1> DEFINE Sizes == {n \in Nat : \E T \in SUBSET S :
                        T # {} /\ Cardinality(T) = n /\ ~ \E m : IsLargest(m, T)}
           less == OpToRel(<, Nat)
<1>1. IsWellFoundedOn(less, Nat)
  BY NatLessThanWellFounded
<1>2. \A x, y \in Nat : <<y, x>> \in less <=> y < x
  BY DEF OpToRel
<1>3. \A T \in SUBSET S : IsFiniteSet(T) /\ Cardinality(T) \in Nat
  BY FS_Subset, FS_CardinalityType
<1> HIDE DEF less
<1>4. ASSUME Sizes # {} PROVE FALSE
  <2>0. Sizes \subseteq Nat
    OBVIOUS
  <2>1. PICK n \in Sizes : \A y \in Sizes : ~ (<<y, n>> \in less)
    <3> HIDE DEF Sizes
    <3> QED BY <1>1, <1>4, <2>0, WFMin
  <2>2. PICK T \in SUBSET S : T # {} /\ Cardinality(T) = n /\ ~ \E m : IsLargest(m, T)
    OBVIOUS
  <2>3. PICK x \in T : x \in Nat
    BY <2>2
  <2> DEFINE U == T \ {x}
  <2>4. IsFiniteSet(U) /\ Cardinality(U) = n - 1 /\ U \in SUBSET S
    BY <1>3, <2>2, <2>3, FS_RemoveElement
  <2>5. CASE U = {}
    <3>1. IsLargest(x, T)
      BY <2>3, <2>5 DEF IsLargest
    <3> QED BY <2>2, <3>1
  <2>6. CASE U # {}
    <3>1. n \in Nat /\ n - 1 \in Nat
      BY <1>3, <2>4, <2>0
    <3>2. n - 1 < n
      BY <3>1
    <3>3. n - 1 \notin Sizes
      BY <1>2, <2>1, <3>1, <3>2
    <3>4. PICK m : IsLargest(m, U)
      BY <2>4, <2>6, <3>1, <3>3
    <3>5. m \in T /\ m \in Nat /\ \A d \in U : d <= m /\ d \in Nat
      BY <3>4, <2>4 DEF IsLargest
    <3>6. IsLargest(m, T) \/ IsLargest(x, T)
      <4>1. CASE x <= m
        BY <3>5, <4>1 DEF IsLargest
      <4>2. CASE m < x
        <5>1. \A d \in U : d <= x
          BY <2>3, <3>5, <4>2
        <5> QED BY <2>3, <5>1 DEF IsLargest
      <4> QED BY <2>3, <3>5, <4>1, <4>2
    <3> QED BY <2>2, <3>6
  <2> QED BY <2>5, <2>6
<1>5. Cardinality(S) \in Nat
  BY <1>3
<1> QED BY <1>4, <1>5

\* No window is longer than MaxLeft.
LEMMA MaxLeftIs ==
    /\ MaxLeft \in Nat /\ MaxLeft > 0
    /\ \A d \in Durations : d \in 1 .. MaxLeft
    /\ RejoinWindow \in 1 .. MaxLeft /\ StackWindow \in 1 .. MaxLeft
<1> DEFINE S == Durations \cup {RejoinWindow, StackWindow}
<1>0. /\ \A d \in Durations : d \in Nat /\ d > 0
      /\ RejoinWindow \in Nat /\ RejoinWindow > 0 /\ StackWindow \in Nat /\ StackWindow > 0
  BY WindowDurations
<1>1. S \in SUBSET Nat /\ S # {} /\ \A d \in S : d > 0
  BY <1>0
<1>2. IsFiniteSet(S)
  <2>1. IsFiniteSet(Durations \cup {RejoinWindow})
    BY WindowDurations, FS_AddElement
  <2>2. IsFiniteSet((Durations \cup {RejoinWindow}) \cup {StackWindow})
    BY <2>1, FS_AddElement
  <2>3. S = (Durations \cup {RejoinWindow}) \cup {StackWindow}
    OBVIOUS
  <2> QED BY <2>2, <2>3
<1>3. PICK m \in S : \A d \in S : d <= m
  BY <1>1, <1>2, LargestExists DEF IsLargest
<1>4. MaxLeft \in S /\ \A d \in S : d <= MaxLeft
  BY <1>3 DEF MaxLeft
<1> QED BY <1>1, <1>4

-----------------------------------------------------------------------------
(* What waits among the stack's signals.                                   *)

IsPermit(s) == s.type = "permit"
PermitWaits(q) == \E i \in DOMAIN q : IsPermit(q[i])
ShutWaits(q) == \E i \in DOMAIN q : IsPermit(q[i]) /\ q[i].secs = 0

\* A window of the stack's own length is told that nobody will be taken to have
\* asked for, be it because an earlier signal ends what was asked.
LongWaits(q, asked) ==
    \E j \in DOMAIN q :
        /\ IsPermit(q[j]) /\ q[j].secs >= StackWindow
        /\ \/ asked <= 0
           \/ \E i \in DOMAIN q : i < j /\ IsPermit(q[i]) /\ q[i].secs = 0

\* The last that waits says v.
LastSays(q, v) ==
    \E j \in DOMAIN q :
        /\ IsPermit(q[j]) /\ q[j].secs = v
        /\ \A k \in DOMAIN q : k > j => ~ IsPermit(q[k])

\* Whatever was said of q may be said of r.
Keeps(q, r) ==
    /\ PermitWaits(r) <=> PermitWaits(q)
    /\ ShutWaits(q) => ShutWaits(r)
    /\ \A asked : LongWaits(q, asked) => LongWaits(r, asked)
    /\ \A v : LastSays(q, v) => LastSays(r, v)

Times == 0 .. MaxLeft
SignalTypes == {"permit", "formation", "formation_failed", "join", "skip_startup", "up"}
Signals == [type : SignalTypes, secs : Times]

LEMMA SeqIs ==
    ASSUME NEW S, NEW q \in Seq(S)
    PROVE  /\ Len(q) \in Nat /\ DOMAIN q = 1 .. Len(q)
           /\ \A i \in DOMAIN q : q[i] \in S
  OBVIOUS

LEMMA AppendIs ==
    ASSUME NEW S, NEW q \in Seq(S), NEW e \in S
    PROVE  /\ Append(q, e) \in Seq(S) /\ Len(Append(q, e)) = Len(q) + 1
           /\ DOMAIN Append(q, e) = 1 .. Len(q) + 1
           /\ \A i \in 1 .. Len(q) : Append(q, e)[i] = q[i]
           /\ Append(q, e)[Len(q) + 1] = e
  OBVIOUS

LEMMA TailIs ==
    ASSUME NEW S, NEW q \in Seq(S), q # <<>>
    PROVE  /\ Tail(q) \in Seq(S) /\ Len(Tail(q)) = Len(q) - 1 /\ Len(q) > 0
           /\ DOMAIN Tail(q) = 1 .. Len(q) - 1
           /\ \A i \in 1 .. Len(q) - 1 : Tail(q)[i] = q[i + 1]
           /\ Head(q) = q[1] /\ Head(q) \in S
  OBVIOUS

\* A signal that comes to wait: what waited before still does, and it is the last.
LEMMA AppendSays ==
    ASSUME NEW S, NEW q \in Seq(S), NEW e \in S
    PROVE  /\ PermitWaits(q) => PermitWaits(Append(q, e))
           /\ ShutWaits(q) => ShutWaits(Append(q, e))
           /\ \A asked : LongWaits(q, asked) => LongWaits(Append(q, e), asked)
           /\ ~ IsPermit(e) => Keeps(q, Append(q, e))
           /\ IsPermit(e) => PermitWaits(Append(q, e)) /\ LastSays(Append(q, e), e.secs)
           /\ IsPermit(e) /\ e.secs = 0 => ShutWaits(Append(q, e))
           /\ \A asked : IsPermit(e) /\ e.secs >= StackWindow /\ (asked <= 0 \/ ShutWaits(q))
                 => LongWaits(Append(q, e), asked)
<1> DEFINE r == Append(q, e)
           n == Len(q)
<1>1. n \in Nat /\ DOMAIN q = 1 .. n
  BY SeqIs
<1>2. /\ DOMAIN r = 1 .. n + 1 /\ \A i \in 1 .. n : r[i] = q[i]
      /\ r[n + 1] = e
  BY AppendIs
<1> HIDE DEF r, n
<1>3. n + 1 \in DOMAIN r /\ \A i \in DOMAIN q : i \in DOMAIN r /\ r[i] = q[i] /\ i < n + 1
  BY <1>1, <1>2
<1>4. \A i \in DOMAIN r : i = n + 1 \/ i \in DOMAIN q
  BY <1>1, <1>2
<1>5. \A k \in DOMAIN r : ~ (k > n + 1)
  BY <1>1, <1>2
<1>6. (PermitWaits(q) => PermitWaits(r)) /\ (ShutWaits(q) => ShutWaits(r))
  BY <1>3 DEF PermitWaits, ShutWaits
<1>7. ASSUME NEW asked, LongWaits(q, asked) PROVE LongWaits(r, asked)
  <2>1. PICK j \in DOMAIN q :
          /\ IsPermit(q[j]) /\ q[j].secs >= StackWindow
          /\ \/ asked <= 0
             \/ \E i \in DOMAIN q : i < j /\ IsPermit(q[i]) /\ q[i].secs = 0
    BY <1>7 DEF LongWaits
  <2> QED BY <1>3, <2>1 DEF LongWaits
<1>8. ASSUME ~ IsPermit(e) PROVE Keeps(q, r)
  <2>1. PermitWaits(r) => PermitWaits(q)
    BY <1>2, <1>3, <1>4, <1>8 DEF PermitWaits
  <2>2. ASSUME NEW v, LastSays(q, v) PROVE LastSays(r, v)
    <3>1. PICK j \in DOMAIN q :
            /\ IsPermit(q[j]) /\ q[j].secs = v
            /\ \A k \in DOMAIN q : k > j => ~ IsPermit(q[k])
      BY <2>2 DEF LastSays
    <3>2. \A k \in DOMAIN r : k > j => ~ IsPermit(r[k])
      BY <1>2, <1>3, <1>4, <1>8, <3>1
    <3> QED BY <1>3, <3>1, <3>2 DEF LastSays
  <2> QED BY <1>6, <1>7, <2>1, <2>2 DEF Keeps
<1>9. IsPermit(e) => PermitWaits(r) /\ LastSays(r, e.secs)
  BY <1>2, <1>3, <1>5 DEF PermitWaits, LastSays
<1>10. IsPermit(e) /\ e.secs = 0 => ShutWaits(r)
  BY <1>2, <1>3 DEF ShutWaits
<1>11. ASSUME NEW asked, IsPermit(e), e.secs >= StackWindow, asked <= 0 \/ ShutWaits(q)
       PROVE  LongWaits(r, asked)
  <2>1. IsPermit(r[n + 1]) /\ r[n + 1].secs >= StackWindow
    BY <1>2, <1>11
  <2>2. ShutWaits(q) => \E i \in DOMAIN r : i < n + 1 /\ IsPermit(r[i]) /\ r[i].secs = 0
    BY <1>3 DEF ShutWaits
  <2> QED BY <1>3, <1>11, <2>1, <2>2 DEF LongWaits
<1> QED BY <1>6, <1>7, <1>8, <1>9, <1>10, <1>11 DEF r

\* What is left when the first signal has been taken.
LEMMA TailSays ==
    ASSUME NEW S, NEW q \in Seq(S), q # <<>>, StackWindow > 0, StackWindow \in Nat
    PROVE  /\ PermitWaits(Tail(q)) => PermitWaits(q)
           /\ ~ IsPermit(Head(q)) => Keeps(q, Tail(q))
           /\ PermitWaits(q) => IsPermit(Head(q)) \/ PermitWaits(Tail(q))
           /\ ShutWaits(q) => ShutWaits(Tail(q)) \/ (IsPermit(Head(q)) /\ Head(q).secs = 0)
           /\ \A v : LastSays(q, v) =>
                 \/ LastSays(Tail(q), v)
                 \/ ~ PermitWaits(Tail(q)) /\ IsPermit(Head(q)) /\ Head(q).secs = v
           /\ \A asked : LongWaits(q, asked) =>
                 \/ LongWaits(Tail(q), asked)
                 \/ IsPermit(Head(q)) /\ Head(q).secs >= StackWindow /\ asked <= 0
                 \/ IsPermit(Head(q)) /\ Head(q).secs = 0 /\ LongWaits(Tail(q), NoDeadline)
<1> DEFINE r == Tail(q)
           h == Head(q)
           n == Len(q)
<1>1. n \in Nat /\ n > 0 /\ DOMAIN q = 1 .. n
  BY SeqIs, TailIs
<1>2. /\ DOMAIN r = 1 .. n - 1 /\ \A i \in 1 .. n - 1 : r[i] = q[i + 1]
      /\ h = q[1]
  BY TailIs
<1> HIDE DEF r, h, n
<1>3. \A i \in DOMAIN r : i \in Int /\ i > 0 /\ i + 1 \in DOMAIN q /\ r[i] = q[i + 1]
  BY <1>1, <1>2
<1>4. \A i \in DOMAIN q :
        i \in Int /\ (i # 1 => (i > 1 /\ i - 1 \in DOMAIN r /\ r[i - 1] = q[i]))
  <2>1. \A i \in DOMAIN q : i \in Int
    BY <1>1
  <2>2. ASSUME NEW i \in DOMAIN q, i # 1
        PROVE  i > 1 /\ i - 1 \in DOMAIN r /\ r[i - 1] = q[i]
    <3>1. i \in Int /\ i > 1 /\ i - 1 \in 1 .. n - 1 /\ (i - 1) + 1 = i
      BY <1>1, <2>2
    <3> QED BY <1>2, <3>1
  <2> QED BY <2>1, <2>2
<1>5. 1 \in DOMAIN q
  BY <1>1
<1>6. PermitWaits(r) => PermitWaits(q)
  BY <1>3 DEF PermitWaits
<1>7. PermitWaits(q) => IsPermit(h) \/ PermitWaits(r)
  BY <1>2, <1>4 DEF PermitWaits
<1>8. ShutWaits(q) => ShutWaits(r) \/ (IsPermit(h) /\ h.secs = 0)
  BY <1>2, <1>4 DEF ShutWaits
<1>9. ASSUME NEW v, LastSays(q, v)
      PROVE  LastSays(r, v) \/ (~ PermitWaits(r) /\ IsPermit(h) /\ h.secs = v)
  <2>1. PICK j \in DOMAIN q :
          /\ IsPermit(q[j]) /\ q[j].secs = v
          /\ \A k \in DOMAIN q : k > j => ~ IsPermit(q[k])
    BY <1>9 DEF LastSays
  <2>2. CASE j = 1
    <3>1. \A k \in DOMAIN r : k + 1 \in DOMAIN q /\ k + 1 > 1
      BY <1>1, <1>2
    <3>2. ~ PermitWaits(r)
      BY <1>3, <2>1, <2>2, <3>1 DEF PermitWaits
    <3> QED BY <1>2, <2>1, <2>2, <3>2
  <2>3. CASE j # 1
    <3>1. j \in Int /\ j - 1 \in DOMAIN r /\ r[j - 1] = q[j]
      BY <1>4, <2>3
    <3>2. ASSUME NEW k \in DOMAIN r, k > j - 1 PROVE ~ IsPermit(r[k])
      <4>1. k \in Int /\ k + 1 \in DOMAIN q /\ r[k] = q[k + 1]
        BY <1>3
      <4>2. k + 1 > j
        BY <3>1, <3>2, <4>1
      <4> QED BY <2>1, <4>1, <4>2
    <3> QED BY <2>1, <3>1, <3>2 DEF LastSays
  <2> QED BY <2>2, <2>3
<1>10. ASSUME NEW asked, LongWaits(q, asked)
       PROVE  \/ LongWaits(r, asked)
              \/ IsPermit(h) /\ h.secs >= StackWindow /\ asked <= 0
              \/ IsPermit(h) /\ h.secs = 0 /\ LongWaits(r, NoDeadline)
  <2>1. PICK j \in DOMAIN q :
          /\ IsPermit(q[j]) /\ q[j].secs >= StackWindow
          /\ \/ asked <= 0
             \/ \E i \in DOMAIN q : i < j /\ IsPermit(q[i]) /\ q[i].secs = 0
    BY <1>10 DEF LongWaits
  <2>2. CASE j = 1
    <3>1. ~ \E i \in DOMAIN q : i < j
      BY <1>1, <2>2
    <3> QED BY <1>2, <2>1, <2>2, <3>1
  <2>3. CASE j # 1
    <3>1. j \in Int /\ j - 1 \in DOMAIN r /\ r[j - 1] = q[j]
      BY <1>4, <2>3
    <3>2. CASE asked <= 0
      BY <2>1, <3>1, <3>2 DEF LongWaits
    <3>3. CASE \E i \in DOMAIN q : i < j /\ IsPermit(q[i]) /\ q[i].secs = 0
      <4>1. PICK i \in DOMAIN q : i < j /\ IsPermit(q[i]) /\ q[i].secs = 0
        BY <3>3
      <4>2. CASE i = 1
        <5>1. NoDeadline <= 0
          BY DEF NoDeadline
        <5>2. LongWaits(r, NoDeadline)
          BY <2>1, <3>1, <5>1 DEF LongWaits
        <5> QED BY <1>2, <4>1, <4>2, <5>2
      <4>3. CASE i # 1
        <5>1. i \in Int /\ i - 1 \in DOMAIN r /\ r[i - 1] = q[i]
          BY <1>4, <4>3
        <5>2. i - 1 < j - 1
          BY <3>1, <4>1, <5>1
        <5>3. /\ IsPermit(r[j - 1]) /\ r[j - 1].secs >= StackWindow
              /\ IsPermit(r[i - 1]) /\ r[i - 1].secs = 0
          BY <2>1, <3>1, <4>1, <5>1
        <5>4. LongWaits(r, asked)
          BY <3>1, <5>1, <5>2, <5>3 DEF LongWaits
        <5> QED BY <5>4
      <4> QED BY <4>2, <4>3
    <3> QED BY <2>1, <3>2, <3>3
  <2> QED BY <2>2, <2>3
<1>11. ASSUME ~ IsPermit(h) PROVE Keeps(q, r)
  BY <1>6, <1>7, <1>8, <1>9, <1>10, <1>11 DEF Keeps
<1> QED BY <1>6, <1>7, <1>8, <1>9, <1>10, <1>11 DEF r, h

\* A window that was asked for counts for no less when what was asked has ended.
LEMMA LongStays ==
    ASSUME NEW q, NEW asked
    PROVE  /\ LongWaits(q, asked) => LongWaits(q, NoDeadline)
           /\ LongWaits(q, asked) => PermitWaits(q)
<1>1. NoDeadline <= 0
  BY DEF NoDeadline
<1> QED BY <1>1 DEF LongWaits, PermitWaits

-----------------------------------------------------------------------------
(* The types.                                                              *)

Openers == {"none", "user", "stack", "crossed", "missed"}
Places == {"idle", "started", "open", "opened", "expect", "form", "formed",
           "pending", "status", "expired", "close", "closed"}
Callers == {"none", "start", "request", "rejoin", "policy"}
Tasks == [pc : Places, for : Callers, secs : Times]

StackTypes ==
    /\ net \in {"none", "forming", "formed"} /\ air \in Times /\ opener \in Openers
    /\ signals \in Seq(Signals) /\ Len(signals) <= SignalBound /\ alarms \in Nat
HalTypes ==
    /\ stack \in {"none", "starting", "running", "dead"}
    /\ formed \in BOOLEAN /\ scheduled \in BOOLEAN
    /\ permit \in Windows /\ explicit \in Left
PolicyTypes ==
    /\ begun \in BOOLEAN /\ expected \in BOOLEAN /\ pending \in Times
    /\ retry \in 0 .. RetryDelay /\ cooldown \in 0 .. Cooldown /\ cache \in Windows
TaskTypes == task \in Tasks /\ closing \in BOOLEAN
BudgetTypes == inputs \in 0 .. MaxInputs /\ faults \in 0 .. MaxFaults

Types == StackTypes /\ HalTypes /\ PolicyTypes /\ TaskTypes /\ BudgetTypes

LEMMA TypesAre == TypeOK <=> Types
  BY DEF TypeOK, Types, StackTypes, HalTypes, PolicyTypes, TaskTypes, BudgetTypes,
         Openers, Places, Callers, Tasks, Times, Signals, SignalTypes

\* The windows that are noted, and time that has passed.
LEMMA ShutIs == Shut \in Windows /\ NoDeadline \in Left
<1>1. NoDeadline = -1 /\ MaxLeft \in Nat
  BY MaxLeftIs DEF NoDeadline
<1> QED BY <1>1 DEF Shut, Windows, Left

LEMMA OpenIs ==
    ASSUME NEW secs \in Times
    PROVE  Open(secs) \in Windows /\ secs \in Left
<1>1. NoDeadline = -1 /\ MaxLeft \in Nat
  BY MaxLeftIs DEF NoDeadline
<1> QED BY <1>1 DEF Open, Windows, Left, Times

LEMMA WindowStateIs ==
    ASSUME NEW open \in BOOLEAN, NEW secs \in Times, WindowState(open, secs)
    PROVE  permit' \in Windows
<1>1. Open(NoDeadline) \in Windows
  BY ShutIs DEF Open, Windows
<1> QED BY <1>1, ShutIs, OpenIs DEF WindowState

LEMMA ExpectationIs ==
    ASSUME HalTypes, NEW open \in BOOLEAN, NEW secs \in Times, Expectation(open, secs)
    PROVE  explicit' \in Left /\ scheduled' \in BOOLEAN
  BY ShutIs, OpenIs DEF Expectation, HalTypes

LEMMA LessIs ==
    /\ \A d \in Left : Less(d) \in Left
    /\ \A n \in Nat : \A d \in 0 .. n : Less(d) \in 0 .. n
    /\ \A d \in Left : /\ d > 0 => Less(d) = d - 1
                       /\ d <= 0 => Less(d) = d
    /\ Left \subseteq Int /\ Times \subseteq Left
<1>1. NoDeadline = -1 /\ MaxLeft \in Nat
  BY MaxLeftIs DEF NoDeadline
<1> QED BY <1>1 DEF Less, Left, Times

\* A signal that is told finds room.
LEMMA TellIs ==
    ASSUME StackTypes, NEW s \in Signals, Tell(s)
    PROVE  signals' \in Seq(Signals) /\ Len(signals') <= SignalBound
<1>1. signals \in Seq(Signals) /\ Len(signals) < SignalBound /\ signals' = Append(signals, s)
  BY DEF StackTypes, Tell, Room
<1>2. Len(signals) \in Nat /\ SignalBound \in Nat
  BY <1>1, SeqIs, WindowSignals
<1>3. signals' \in Seq(Signals) /\ Len(signals') = Len(signals) + 1
  BY <1>1, AppendIs
<1> QED BY <1>1, <1>2, <1>3

LEMMA HandledIs ==
    ASSUME StackTypes, signals # <<>>
    PROVE  /\ Tail(signals) \in Seq(Signals) /\ Len(Tail(signals)) <= SignalBound
           /\ Head(signals) \in Signals /\ Head(signals).secs \in Times
           /\ \A s \in Signals : /\ Append(Tail(signals), s) \in Seq(Signals)
                                 /\ Len(Append(Tail(signals), s)) <= SignalBound
<1>1. signals \in Seq(Signals) /\ Len(signals) <= SignalBound
  BY DEF StackTypes
<1>2. Len(signals) \in Nat /\ SignalBound \in Nat
  BY <1>1, SeqIs, WindowSignals
<1>3. /\ Tail(signals) \in Seq(Signals) /\ Len(Tail(signals)) = Len(signals) - 1
      /\ Head(signals) \in Signals
  BY <1>1, TailIs
<1>4. \A s \in Signals : /\ Append(Tail(signals), s) \in Seq(Signals)
                         /\ Len(Append(Tail(signals), s)) = Len(Tail(signals)) + 1
  BY <1>3, AppendIs
<1>5. Head(signals).secs \in Times
  BY <1>3 DEF Signals
<1> QED BY <1>1, <1>2, <1>3, <1>4, <1>5

\* The signals that the model's steps tell.
LEMMA SignalsAre ==
    /\ 0 \in Times /\ RejoinWindow \in Times /\ StackWindow \in Times
    /\ \A d \in Durations : d \in Times
    /\ \A secs \in Times : Permit(secs) \in Signals
    /\ \A type \in SignalTypes : Signal(type) \in Signals
<1>1. MaxLeft \in Nat /\ 0 \in Times
  BY MaxLeftIs DEF Times
<1>2. \A secs \in Times : Permit(secs) \in Signals
  BY DEF Permit, Signals, SignalTypes
<1>3. \A type \in SignalTypes : Signal(type) \in Signals
  BY <1>1 DEF Signal, Signals, SignalTypes
<1> QED BY <1>1, <1>2, <1>3, MaxLeftIs DEF Times

\* Of the steps that touch the stack's state, each keeps its types.
LEMMA StackTypesKept ==
    ASSUME Types, [Next]_vars
    PROVE  StackTypes'
<1> USE SignalsAre, MaxLeftIs
<1>0. StackTypes /\ HalTypes /\ TaskTypes
  BY DEF Types
<1>1. ASSUME NEW ok \in BOOLEAN, Forms(ok) PROVE StackTypes'
  <2>1. PICK s \in Signals : Tell(s)
    BY <1>1 DEF Forms, SignalTypes
  <2> QED BY <1>0, <1>1, <2>1, TellIs DEF Forms, StackTypes
<1>2. CASE Authorizes
  <2>1. PICK s \in Signals : Tell(s)
    BY <1>2 DEF Authorizes
  <2> QED BY <1>0, <1>2, <2>1, TellIs DEF Authorizes, StackTypes, Openers
<1>3. CASE Joins
  <2>1. PICK s \in Signals : Tell(s)
    BY <1>3 DEF Joins, SignalTypes
  <2> QED BY <1>0, <1>3, <2>1, TellIs DEF Joins, StackTypes
<1>4. CASE Tick
  <2>1. (\E s \in Signals : Tell(s)) \/ UNCHANGED signals
    BY <1>4 DEF Tick
  <2>2. signals' \in Seq(Signals) /\ Len(signals') <= SignalBound
    BY <1>0, <2>1, TellIs DEF StackTypes
  <2>3. air' \in Times
    BY <1>0, <1>4, LessIs DEF Tick, StackTypes, Times
  <2> QED BY <1>0, <1>4, <2>2, <2>3 DEF Tick, StackTypes, Openers
<1>5. CASE OpenCalls
  <2>1. task.secs \in Times
    BY <1>0 DEF TaskTypes, Tasks
  <2>2. PICK s \in Signals : Tell(s)
    BY <1>5, <2>1 DEF OpenCalls, AirOpen
  <2> QED BY <1>0, <1>5, <2>1, <2>2, TellIs DEF OpenCalls, AirOpen, StackTypes, Openers
<1>6. ASSUME AirClose, alarms' \in Nat PROVE StackTypes'
  <2>1. PICK s \in Signals : Tell(s)
    BY <1>6 DEF AirClose
  <2> QED BY <1>0, <1>6, <2>1, TellIs DEF AirClose, StackTypes, Openers
<1>7. ASSUME NEW ok \in BOOLEAN, AlarmRings(ok) PROVE StackTypes'
  <2>1. alarms' \in Nat
    BY <1>0, <1>7 DEF AlarmRings, StackTypes
  <2>2. CASE ok = TRUE
    BY <1>6, <1>7, <2>1, <2>2 DEF AlarmRings
  <2>3. CASE ok = FALSE
    BY <1>0, <1>7, <2>1, <2>3 DEF AlarmRings, StackTypes, Openers
  <2> QED BY <2>2, <2>3
<1>8. ASSUME NEW ok \in BOOLEAN, PolicyCloses(ok) PROVE StackTypes'
  <2>1. CASE ok = TRUE
    <3>1. AirClose /\ alarms' \in Nat
      BY <1>0, <1>8, <2>1 DEF PolicyCloses, StackTypes
    <3> QED BY <1>6, <3>1
  <2>2. CASE ok = FALSE
    BY <1>0, <1>8, <2>2 DEF PolicyCloses, StackTypes, stackVars
  <2> QED BY <2>1, <2>2
<1>9. ASSUME NEW ok \in BOOLEAN, StackStarts(ok) PROVE StackTypes'
  <2>1. (\E s \in Signals : Tell(s)) \/ UNCHANGED signals
    BY <1>9 DEF StackStarts, SignalTypes
  <2>2. signals' \in Seq(Signals) /\ Len(signals') <= SignalBound
    BY <1>0, <2>1, TellIs DEF StackTypes
  <2> QED BY <1>0, <1>9, <2>2 DEF StackStarts, StackTypes
<1>10. ASSUME NEW ok \in BOOLEAN, HandleSkipStartup(ok) PROVE StackTypes'
  <2>1. Signal("up") \in Signals
    BY DEF SignalTypes
  <2>2. signals' \in Seq(Signals) /\ Len(signals') <= SignalBound
    BY <1>0, <1>10, <2>1, HandledIs DEF HandleSkipStartup, Handles
  <2> QED BY <1>0, <1>10, <2>2 DEF HandleSkipStartup, StackTypes
<1>11. ASSUME NEW ok \in BOOLEAN, HandleJoin(ok) PROVE StackTypes'
  <2>1. signals' \in Seq(Signals) /\ Len(signals') <= SignalBound
    BY <1>0, <1>11, HandledIs DEF HandleJoin, Handles, Handled
  <2>2. air' \in Times /\ opener' \in Openers /\ UNCHANGED <<net, alarms>>
    BY <1>0, <1>11 DEF HandleJoin, StackTypes, Openers
  <2> QED BY <1>0, <2>1, <2>2 DEF StackTypes
<1>12. CASE HandleUp \/ HandleFormation
  <2>1. signals' \in Seq(Signals) /\ Len(signals') <= SignalBound
    BY <1>0, <1>12, HandledIs DEF HandleUp, HandleFormation, Handles, Handled
  <2> QED BY <1>0, <1>12, <2>1 DEF HandleUp, HandleFormation, StackTypes
<1>13. CASE HandlePermit
  <2>1. signals' \in Seq(Signals) /\ Len(signals') <= SignalBound
    BY <1>0, <1>13, HandledIs DEF HandlePermit, Handles, Handled
  <2>2. UNCHANGED <<net, air, opener>>
    BY <1>13 DEF HandlePermit
  <2>3. UNCHANGED alarms \/ ScheduleClose
    BY <1>13 DEF HandlePermit
  <2>4. alarms' \in Nat
    BY <1>0, <2>3 DEF ScheduleClose, StackTypes
  <2> QED BY <1>0, <2>1, <2>2, <2>4 DEF StackTypes
<1>14. CASE FormCalls
  BY <1>0, <1>14 DEF FormCalls, StackTypes
<1>15. CASE UNCHANGED stackVars
  BY <1>0, <1>15 DEF StackTypes, stackVars
<1>16. \/ \E ok \in BOOLEAN : Forms(ok) \/ AlarmRings(ok) \/ PolicyCloses(ok) \/ StackStarts(ok)
                              \/ HandleSkipStartup(ok) \/ HandleJoin(ok)
       \/ Authorizes \/ Joins \/ Tick \/ OpenCalls \/ HandleUp \/ HandleFormation
       \/ HandlePermit \/ FormCalls \/ UNCHANGED stackVars
  BY DEF Next, vars, StackTask, RuntimeTask, Inputs, Stack, ForceClosed, EnsureStarted,
         StartLooks, OpenRefused, OpenPostponed, OpenSetsWindow, OpenSetsExpectation,
         FormFails, FormClears, PolicyForms, PolicyOpens, PolicyLooks, PolicyFindsExpired,
         PolicyExpires, PolicyClosed, AutoRejoin, Ask
<1> QED BY <1>1, <1>2, <1>3, <1>4, <1>5, <1>7, <1>8, <1>9, <1>10, <1>11, <1>12, <1>13,
           <1>14, <1>15, <1>16

LEMMA HalTypesKept ==
    ASSUME Types, [Next]_vars
    PROVE  HalTypes'
<1> USE SignalsAre, TRUE \in BOOLEAN, FALSE \in BOOLEAN
<1>0. StackTypes /\ HalTypes /\ TaskTypes
  BY DEF Types
<1>1. ASSUME WindowState(FALSE, 0), Expectation(FALSE, 0), UNCHANGED <<stack, formed>>
      PROVE  HalTypes'
  <2>1. permit' \in Windows /\ explicit' \in Left /\ scheduled' \in BOOLEAN
    BY <1>0, <1>1, WindowStateIs, ExpectationIs
  <2> QED BY <1>0, <1>1, <2>1 DEF HalTypes
<1>2. ASSUME WindowState(FALSE, 0), stack' \in {"none", "starting", "running", "dead"},
             formed' \in BOOLEAN, scheduled' \in BOOLEAN, UNCHANGED explicit
      PROVE  HalTypes'
  <2>1. permit' \in Windows
    BY <1>2, WindowStateIs
  <2> QED BY <1>0, <1>2, <2>1 DEF HalTypes
<1>3. CASE Tick
  <2>1. permit' \in Windows
    <3>1. permit.open \in BOOLEAN /\ permit.left \in Left
      BY <1>0 DEF HalTypes, Windows
    <3>2. permit' = [open |-> permit.open, left |-> Less(permit.left)]
      BY <1>0, <1>3 DEF Tick, HalTypes, Windows
    <3> QED BY <3>1, <3>2, LessIs DEF Windows
  <2>2. explicit' \in Left
    BY <1>0, <1>3, LessIs DEF Tick, HalTypes
  <2> QED BY <1>0, <1>3, <2>1, <2>2 DEF Tick, HalTypes
<1>4. ASSUME NEW ok \in BOOLEAN, StackStarts(ok) PROVE HalTypes'
  BY <1>0, <1>4 DEF StackStarts, HalTypes
<1>5. CASE HandleUp \/ HandleFormation
  BY <1>0, <1>5 DEF HandleUp, HandleFormation, HalTypes
<1>6. CASE HandlePermit
  <2> DEFINE secs == Head(signals).secs
  <2>1. secs \in Times
    BY <1>0, <1>6, HandledIs DEF HandlePermit, Handles
  <2>2. \/ WindowState(FALSE, 0) /\ Expectation(FALSE, 0)
        \/ WindowState(FALSE, 0) /\ explicit' = NoDeadline /\ scheduled' = TRUE
        \/ WindowState(TRUE, secs) /\ UNCHANGED <<explicit, scheduled>>
    BY <1>6 DEF HandlePermit, ScheduleClose
  <2>3. UNCHANGED <<stack, formed>>
    BY <1>6 DEF HandlePermit
  <2> HIDE DEF secs
  <2>4. permit' \in Windows
    BY <2>1, <2>2, WindowStateIs
  <2>5. explicit' \in Left /\ scheduled' \in BOOLEAN
    BY <1>0, <2>2, ExpectationIs, ShutIs DEF HalTypes
  <2> QED BY <1>0, <2>3, <2>4, <2>5 DEF HalTypes
<1>7. ASSUME NEW ok \in BOOLEAN, AlarmRings(ok) PROVE HalTypes'
  <2>1. WindowState(FALSE, 0) \/ UNCHANGED permit
    BY <1>7 DEF AlarmRings
  <2>2. permit' \in Windows
    BY <1>0, <2>1, WindowStateIs DEF HalTypes
  <2> QED BY <1>0, <1>7, <2>2 DEF AlarmRings, HalTypes
<1>8. ASSUME NEW ok \in BOOLEAN, HandleJoin(ok) PROVE HalTypes'
  <2>1. \/ UNCHANGED halVars
        \/ WindowState(FALSE, 0) /\ Expectation(FALSE, 0) /\ UNCHANGED <<stack, formed>>
    BY <1>8 DEF HandleJoin, halVars
  <2> QED BY <1>0, <1>1, <2>1 DEF HalTypes, halVars
<1>9. CASE EnsureStarted
  <2>1. /\ WindowState(FALSE, 0) /\ stack' = "starting" /\ formed' = FALSE
        /\ UNCHANGED <<explicit, scheduled>>
    BY <1>9 DEF EnsureStarted
  <2> QED BY <1>0, <1>2, <2>1 DEF HalTypes
<1>10. CASE OpenSetsWindow
  <2>1. task.secs \in Times
    BY <1>0 DEF TaskTypes, Tasks
  <2>2. permit' \in Windows
    BY <1>10, <2>1, WindowStateIs DEF OpenSetsWindow
  <2> QED BY <1>0, <1>10, <2>2 DEF OpenSetsWindow, HalTypes
<1>11. CASE OpenSetsExpectation
  <2>1. task.secs \in Times
    BY <1>0 DEF TaskTypes, Tasks
  <2>2. explicit' \in Left /\ scheduled' \in BOOLEAN
    BY <1>0, <1>11, <2>1, ExpectationIs DEF OpenSetsExpectation
  <2> QED BY <1>0, <1>11, <2>2 DEF OpenSetsExpectation, HalTypes
<1>12. CASE FormClears
  BY <1>0, <1>12 DEF FormClears, HalTypes
<1>13. CASE PolicyExpires
  <2>1. /\ WindowState(FALSE, 0) /\ UNCHANGED <<stack, formed, explicit, scheduled>>
    BY <1>13 DEF PolicyExpires
  <2> QED BY <1>0, <1>2, <2>1 DEF HalTypes
<1>14. CASE PolicyClosed
  BY <1>1, <1>14 DEF PolicyClosed
<1>15. CASE UNCHANGED halVars
  BY <1>0, <1>15 DEF HalTypes, halVars
<1>16. \/ \E ok \in BOOLEAN : AlarmRings(ok) \/ StackStarts(ok) \/ HandleJoin(ok)
       \/ Tick \/ HandleUp \/ HandleFormation \/ HandlePermit \/ EnsureStarted
       \/ OpenSetsWindow \/ OpenSetsExpectation \/ FormClears \/ PolicyExpires
       \/ PolicyClosed \/ UNCHANGED halVars
  BY DEF Next, vars, StackTask, RuntimeTask, Inputs, Stack, ForceClosed, Forms,
         HandleSkipStartup, Authorizes, Joins, StartLooks, OpenRefused, OpenPostponed,
         OpenCalls, FormFails, FormCalls, PolicyForms, PolicyOpens, PolicyLooks,
         PolicyFindsExpired, PolicyCloses, AutoRejoin, Ask
<1> QED BY <1>3, <1>4, <1>5, <1>6, <1>7, <1>8, <1>9, <1>10, <1>11, <1>12, <1>13, <1>14,
           <1>15, <1>16

LEMMA PolicyTypesKept ==
    ASSUME Types, [Next]_vars
    PROVE  PolicyTypes'
<1> USE SignalsAre, ShutIs
<1>0. HalTypes /\ PolicyTypes /\ TaskTypes
  BY DEF Types
<1>1. task.secs \in Times /\ permit \in Windows /\ Open(task.secs) \in Windows
  BY <1>0, OpenIs DEF TaskTypes, Tasks, HalTypes
<1>2. RetryDelay \in 0 .. RetryDelay /\ 0 \in 0 .. RetryDelay /\ Cooldown \in 0 .. Cooldown
  BY WindowDurations
<1>3. CooldownAfter(TRUE) \/ CooldownAfter(FALSE) => cooldown' \in 0 .. Cooldown
  BY <1>0, <1>2 DEF CooldownAfter, PolicyTypes
<1>4. CASE Tick
  <2>1. retry' \in 0 .. RetryDelay /\ cooldown' \in 0 .. Cooldown
    <3>1. RetryDelay \in Nat /\ Cooldown \in Nat
      BY WindowDurations
    <3> QED BY <1>0, <1>4, <3>1, LessIs DEF Tick, PolicyTypes
  <2> QED BY <1>0, <1>4, <2>1 DEF Tick, PolicyTypes
<1>5. CASE ForceClosed
  BY <1>0, <1>5 DEF ForceClosed, PolicyTypes
<1>6. CASE EnsureStarted
  BY <1>0, <1>6 DEF EnsureStarted, PolicyTypes
<1>7. ASSUME NEW secs \in Durations, Ask(secs) PROVE PolicyTypes'
  BY <1>0, <1>7 DEF Ask, PolicyTypes
<1>8. CASE AutoRejoin
  BY <1>0, <1>2, <1>8 DEF AutoRejoin, PolicyTypes
<1>9. ASSUME OpenFails, UNCHANGED <<begun, cache>>, pending' = pending PROVE PolicyTypes'
  BY <1>0, <1>2, <1>3, <1>9 DEF OpenFails, PolicyTypes
<1>10. OpenFails => pending' = pending
  BY DEF OpenFails
<1>11. CASE OpenRefused
  BY <1>9, <1>10, <1>11 DEF OpenRefused
<1>12. CASE OpenPostponed
  <2>1. CASE task.for = "policy"
    BY <1>9, <1>10, <1>12, <2>1 DEF OpenPostponed
  <2>2. CASE task.for # "policy"
    BY <1>0, <1>1, <1>12, <2>2 DEF OpenPostponed, PolicyTypes
  <2> QED BY <2>1, <2>2
<1>13. CASE OpenSetsExpectation
  BY <1>0, <1>1, <1>2, <1>3, <1>13 DEF OpenSetsExpectation, PolicyTypes
<1>14. CASE FormFails \/ FormClears
  BY <1>0, <1>2, <1>3, <1>14 DEF FormFails, FormClears, AfterForm, PolicyTypes
<1>15. CASE StartLooks
  BY <1>0, <1>2, <1>15 DEF StartLooks, PolicyTypes
<1>16. CASE PolicyLooks
  BY <1>0, <1>1, <1>16 DEF PolicyLooks, SeesShut, PolicyTypes
<1>17. CASE PolicyExpires
  BY <1>0, <1>17 DEF PolicyExpires, SeesShut, PolicyTypes
<1>18. CASE PolicyClosed
  BY <1>0, <1>18 DEF PolicyClosed, PolicyTypes
<1>19. CASE UNCHANGED policyVars
  BY <1>0, <1>19 DEF PolicyTypes, policyVars
<1>20. \/ Tick \/ ForceClosed \/ EnsureStarted \/ AutoRejoin \/ OpenRefused \/ OpenPostponed
       \/ OpenSetsExpectation \/ FormFails \/ FormClears \/ StartLooks \/ PolicyLooks
       \/ PolicyExpires \/ PolicyClosed \/ UNCHANGED policyVars
       \/ \E secs \in Durations : Ask(secs)
  BY DEF Next, vars, StackTask, RuntimeTask, Inputs, Stack, Forms, Authorizes, Joins,
         StackStarts, HandleSkipStartup, HandleUp, HandleFormation, HandlePermit,
         AlarmRings, HandleJoin, OpenCalls, OpenSetsWindow, FormCalls, PolicyForms,
         PolicyOpens, PolicyFindsExpired, PolicyCloses
<1> QED BY <1>4, <1>5, <1>6, <1>7, <1>8, <1>11, <1>12, <1>13, <1>14, <1>15, <1>16, <1>17,
           <1>18, <1>19, <1>20

\* The runtime task goes from place to place.
LEMMA TaskTypesKept ==
    ASSUME Types, [Next]_vars
    PROVE  TaskTypes'
<1> USE SignalsAre
<1>0. PolicyTypes /\ TaskTypes
  BY DEF Types
<1>1. Idle \in Tasks
  BY DEF Idle, Tasks, Places, Callers
<1>2. \A pc \in Places : Go(pc) => task' \in Tasks
  BY <1>0 DEF Go, TaskTypes, Tasks
<1>3. \A pc \in Places, for \in Callers, secs \in Times : Call(pc, for, secs) => task' \in Tasks
  BY DEF Call, Tasks
<1>4. \/ UNCHANGED task
      \/ task' = Idle
      \/ \E pc \in Places : Go(pc)
      \/ \E pc \in Places, for \in Callers, secs \in Times : Call(pc, for, secs)
  <2> DEFINE Goes == \E pc \in Places : Go(pc)
             Calls == \E pc \in Places, for \in Callers, secs \in Times : Call(pc, for, secs)
             Moves == UNCHANGED task \/ task' = Idle \/ Goes \/ Calls
  <2> SUFFICES Moves
    OBVIOUS
  <2>1. \A pc \in Places : Go(pc) => Goes
    OBVIOUS
  <2>2. \A pc \in Places, for \in Callers, secs \in Times : Call(pc, for, secs) => Calls
    OBVIOUS
  <2> HIDE DEF Goes, Calls
  <2>3. /\ \A secs \in Durations : Ask(secs) => Moves
        /\ EnsureStarted \/ AutoRejoin \/ PolicyForms \/ PolicyOpens => Moves
    BY <1>0, <2>1, <2>2 DEF Ask, EnsureStarted, AutoRejoin, PolicyForms, PolicyOpens,
         Places, Callers, PolicyTypes
  <2>4. OpenFails => Moves
    BY <2>1 DEF OpenFails, Places
  <2>5. OpenRefused \/ OpenPostponed \/ OpenCalls \/ OpenSetsWindow \/ OpenSetsExpectation => Moves
    BY <2>1, <2>4 DEF OpenRefused, OpenPostponed, OpenCalls, OpenSetsWindow,
         OpenSetsExpectation, Places
  <2>6. FormFails \/ FormCalls \/ FormClears \/ StartLooks => Moves
    BY <2>1 DEF FormFails, FormCalls, FormClears, StartLooks, AfterForm, Places
  <2>7. /\ \A ok \in BOOLEAN : PolicyCloses(ok) => Moves
        /\ PolicyLooks \/ PolicyFindsExpired \/ PolicyExpires \/ PolicyClosed => Moves
    BY <2>1 DEF PolicyLooks, PolicyFindsExpired, PolicyExpires, PolicyCloses, PolicyClosed,
         SeesShut, Places
  <2>8. UNCHANGED task => Moves
    OBVIOUS
  <2>9. RuntimeTask \/ Inputs \/ UNCHANGED task
    BY DEF Next, vars, StackTask, Stack, Forms, StackStarts, HandleSkipStartup, HandleUp,
         HandleFormation, HandlePermit, AlarmRings, HandleJoin, ForceClosed, Tick
  <2>10. Authorizes \/ Joins => UNCHANGED task
    BY DEF Authorizes, Joins
  <2> HIDE DEF Moves
  <2> QED BY <2>3, <2>5, <2>6, <2>7, <2>8, <2>9, <2>10 DEF RuntimeTask, Inputs
<1>5. task' \in Tasks
  BY <1>0, <1>1, <1>2, <1>3, <1>4 DEF TaskTypes
<1>6. closing' = closing \/ closing' \in BOOLEAN
  BY DEF Next, vars, StackTask, RuntimeTask, Inputs, Stack, Forms, Authorizes, Joins, Tick,
         StackStarts, HandleSkipStartup, HandleUp, HandleFormation, HandlePermit,
         AlarmRings, HandleJoin, ForceClosed, EnsureStarted, Ask, AutoRejoin, OpenRefused,
         OpenPostponed, OpenCalls, OpenSetsWindow, OpenSetsExpectation, FormFails,
         FormCalls, FormClears, StartLooks, PolicyForms, PolicyOpens, PolicyLooks,
         PolicyFindsExpired, PolicyExpires, PolicyCloses, PolicyClosed
<1> QED BY <1>0, <1>5, <1>6 DEF TaskTypes

LEMMA BudgetTypesKept ==
    ASSUME Types, [Next]_vars
    PROVE  BudgetTypes'
<1>0. BudgetTypes
  BY DEF Types
<1>1. Spend \/ Failed \/ UNCHANGED budget
  BY DEF Next, vars, StackTask, RuntimeTask, Inputs, Stack, Forms, Authorizes, Joins, Tick,
         StackStarts, HandleSkipStartup, HandleUp, HandleFormation, HandlePermit,
         AlarmRings, HandleJoin, ForceClosed, EnsureStarted, Ask, AutoRejoin, OpenRefused,
         OpenPostponed, OpenCalls, OpenSetsWindow, OpenSetsExpectation, FormFails,
         FormCalls, FormClears, StartLooks, PolicyForms, PolicyOpens, PolicyLooks,
         PolicyFindsExpired, PolicyExpires, PolicyCloses, PolicyClosed
<1> QED BY <1>0, <1>1, WindowDurations DEF Spend, Failed, budget, BudgetTypes

LEMMA TypesKept == Types /\ [Next]_vars => Types'
  BY StackTypesKept, HalTypesKept, PolicyTypesKept, TaskTypesKept, BudgetTypesKept DEF Types

-----------------------------------------------------------------------------
(* The inductive invariant.  Two tasks note that the window is closed: the *)
(* parts below say why neither denies one that is open on the air.         *)

\* The window is one whose opening has been noted as what it is.
Regular == opener \notin {"missed", "crossed"}

\* The runtime task is about to note that the window has been closed.
Closes == task.pc \in {"expired", "closed"}

\* Before the start there is nothing.
Begins == ~ begun => stack = "none" /\ air = 0 /\ task = Idle

\* The last signal of a window that waits is what the air is like.
LastTells == PermitWaits(signals) => LastSays(signals, air)

\* What is opened has some time to it, and what is noted as open too.
CallsAreLong == task.pc \in {"open", "opened", "expect"} => task.secs > 0
OpenIsLong == /\ permit.open => permit.left >= 0
              /\ task.pc = "expect" => permit.left # 0

\* Between the call and its notes the air has what the call asked for, or a
\* signal waits.
AirIsAsked == task.pc = "opened" /\ air > 0 /\ Regular => air = task.secs
NotedIsAsked == task.pc = "expect" /\ permit.open /\ ~ PermitWaits(signals)
                => permit.left = air \/ permit.left = task.secs

\* When no signal waits, the adapter's deadline is that of the air; at the
\* least it is no sooner than the one that a user has been promised.
DeadlineIsAir ==
    ~ PermitWaits(signals) /\ permit.open /\ air > 0 /\ Regular /\ task.pc # "opened"
    => permit.left = air
DeadlineIsLate ==
    ~ PermitWaits(signals) /\ permit.open /\ explicit > 0 /\ task.pc \notin {"opened", "expect"}
    => permit.left = air \/ permit.left >= explicit

\* A deadline passes, or the window is closed, before the user's time is over
\* only if the stack has told so.
EarlyIsTold ==
    explicit > 0 /\ (Closes \/ (permit.open /\ permit.left = 0)) => ShutWaits(signals)

\* A window that is on the air while it is noted as closed is about to be
\* taken for one that nobody has asked for, and closed by an alarm.
ClosingIsTold ==
    (Closes \/ (permit.open /\ permit.left = 0 /\ task.pc # "opened")) /\ air > 0 /\ Regular
    => alarms > 0 \/ LongWaits(signals, explicit)

Notes == CallsAreLong /\ OpenIsLong /\ AirIsAsked /\ NotedIsAsked
Deadlines == DeadlineIsAir /\ DeadlineIsLate /\ EarlyIsTold /\ ClosingIsTold

Covers == ClosedMeansClosed /\ MarkHasAlarm /\ LastTells /\ Notes /\ Deadlines

\* The types, the start, and what covers the window.
IInv == Types /\ Begins /\ Covers

\* ClosedMeansClosed, with the words of the other parts.
LEMMA ClosedIs ==
    ClosedMeansClosed <=>
        (air > 0 /\ ~ permit.open /\ Regular
         => alarms > 0 \/ PermitWaits(signals) \/ task.pc = "opened")
  BY DEF ClosedMeansClosed, Regular, PermitWaits, IsPermit

LEMMA BeginsKept == Types /\ Begins /\ [Next]_vars => Begins'
<1> SUFFICES ASSUME Types, Begins, [Next]_vars, ~ begun' PROVE Begins'
  BY DEF Begins
<1>1. \/ begun' = begun \/ EnsureStarted
  BY DEF Next, vars, policyVars, StackTask, RuntimeTask, Inputs, Stack, Forms, Authorizes, Joins,
         Tick, StackStarts, HandleSkipStartup, HandleUp, HandleFormation, HandlePermit,
         AlarmRings, HandleJoin, ForceClosed, Ask, AutoRejoin, OpenRefused,
         OpenPostponed, OpenCalls, OpenSetsWindow, OpenSetsExpectation, FormFails,
         FormCalls, FormClears, StartLooks, PolicyForms, PolicyOpens, PolicyLooks,
         PolicyFindsExpired, PolicyExpires, PolicyCloses, PolicyClosed
<1>2. ~ EnsureStarted
  BY DEF EnsureStarted
<1>3. ~ begun
  BY <1>1, <1>2
<1>4. stack = "none" /\ air = 0 /\ task = Idle /\ task.pc = "idle"
  BY <1>3 DEF Begins, Idle
<1>5. ~ (RuntimeTask \/ Inputs)
  BY <1>2, <1>3, <1>4 DEF RuntimeTask, Inputs, At, StartLooks, OpenRefused, OpenPostponed,
         OpenCalls, OpenSetsWindow, OpenSetsExpectation, FormFails, FormCalls, FormClears,
         PolicyForms, PolicyOpens, PolicyLooks, PolicyFindsExpired, PolicyExpires,
         PolicyCloses, PolicyClosed, AutoRejoin, Authorizes, Joins, Ask
<1>6. ~ \E ok \in BOOLEAN : \/ StackStarts(ok) \/ HandleSkipStartup(ok) \/ AlarmRings(ok)
                            \/ HandleJoin(ok)
  BY <1>4 DEF StackStarts, HandleSkipStartup, AlarmRings, HandleJoin, Handles
<1>7. ~ (HandleUp \/ HandleFormation \/ HandlePermit)
  BY <1>4 DEF HandleUp, HandleFormation, HandlePermit, Handles
<1>8. Less(air) = 0
  BY <1>4 DEF Less
<1>9. ForceClosed \/ Stack \/ Tick \/ UNCHANGED vars => stack' = stack /\ air' = 0 /\ task' = task
  BY <1>4, <1>8 DEF ForceClosed, Stack, Forms, Tick, vars, stackVars, halVars
<1>10. stack' = stack /\ air' = 0 /\ task' = task
  BY <1>5, <1>6, <1>7, <1>9 DEF Next, StackTask
<1> QED BY <1>4, <1>10 DEF Begins

-----------------------------------------------------------------------------
(* The steps keep the invariant.                                           *)

\* What the provers need to know of the numbers.
LEMMA Numbers ==
    ASSUME Types
    PROVE  /\ air \in Nat /\ alarms \in Nat /\ explicit \in Int /\ explicit >= -1
           /\ permit.left \in Int /\ permit.open \in BOOLEAN
           /\ task.secs \in Nat /\ task.pc \in Places
           /\ signals \in Seq(Signals) /\ NoDeadline = -1
<1>1. MaxLeft \in Nat /\ NoDeadline = -1
  BY MaxLeftIs DEF NoDeadline
<1> QED BY <1>1 DEF Types, StackTypes, HalTypes, TaskTypes, Windows, Left, Times, Tasks

\* The runtime task is at none of the calls about the window.
Calm == task.pc \notin {"opened", "expect", "expired", "closed"}

\* A step that changes nothing of the window and no signal of it.
LEMMA QuietStep ==
    ASSUME Covers, Keeps(signals, signals'),
           UNCHANGED <<air, opener, alarms, permit, explicit, scheduled>>,
           \/ task' = task
           \/ Calm /\ Calm' /\ (task.pc = "open" => task.secs > 0)'
    PROVE  Covers'
<1>1. /\ PermitWaits(signals') <=> PermitWaits(signals)
      /\ ShutWaits(signals) => ShutWaits(signals')
      /\ LongWaits(signals, explicit) => LongWaits(signals', explicit)
      /\ LastSays(signals, air) => LastSays(signals', air)
  BY DEF Keeps
<1>2. ClosedMeansClosed' /\ MarkHasAlarm'
  <2>1. ClosedMeansClosed'
    BY <1>1, ClosedIs DEF Covers, ClosedMeansClosed, Regular, Calm, PermitWaits, IsPermit
  <2> QED BY <2>1 DEF Covers, MarkHasAlarm
<1>3. LastTells'
  BY <1>1 DEF Covers, LastTells
<1>4. Notes'
  BY <1>1 DEF Covers, Notes, CallsAreLong, OpenIsLong, AirIsAsked, NotedIsAsked, Regular, Calm
<1>5. DeadlineIsAir' /\ DeadlineIsLate'
  BY <1>1 DEF Covers, Deadlines, DeadlineIsAir, DeadlineIsLate, Regular, Calm
<1>6. EarlyIsTold' /\ ClosingIsTold'
  BY <1>1 DEF Covers, Deadlines, EarlyIsTold, ClosingIsTold, Regular, Calm, Closes
<1> QED BY <1>2, <1>3, <1>4, <1>5, <1>6 DEF Covers, Deadlines

\* A step after which nothing is on the air, and the last signal says so, while
\* the adapter has the window shut, or notes that next.
LEMMA ShutStep ==
    ASSUME Types, Covers, air' = 0, LastSays(signals', 0), PermitWaits(signals'),
           (scheduled => alarms > 0)',
           \/ /\ task' = task /\ permit' = Shut
              /\ explicit' = NoDeadline \/ ShutWaits(signals')
           \/ /\ task'.pc = "closed" /\ UNCHANGED permit /\ ShutWaits(signals')
    PROVE  Covers'
<1>0. ~ (air' > 0) /\ NoDeadline = -1 /\ ~ (NoDeadline > 0) /\ NoDeadline # 0
  BY DEF NoDeadline
<1>1. permit' = Shut => permit'.open = FALSE /\ permit'.left = NoDeadline
  BY DEF Shut
<1>2. ClosedMeansClosed' /\ MarkHasAlarm' /\ LastTells'
  BY <1>0 DEF ClosedMeansClosed, MarkHasAlarm, LastTells
<1>3. CallsAreLong' /\ OpenIsLong'
  BY <1>0, <1>1 DEF Covers, Notes, CallsAreLong, OpenIsLong
<1>4. AirIsAsked' /\ NotedIsAsked'
  BY <1>0 DEF AirIsAsked, NotedIsAsked
<1>5. DeadlineIsAir' /\ DeadlineIsLate'
  BY DEF DeadlineIsAir, DeadlineIsLate
<1>6. EarlyIsTold'
  BY <1>0, <1>1 DEF EarlyIsTold
<1>7. ClosingIsTold'
  BY <1>0 DEF ClosingIsTold
<1> QED BY <1>2, <1>3, <1>4, <1>5, <1>6, <1>7 DEF Covers, Notes, Deadlines

\* A step that notes the window as shut and changes nothing on the air; what is
\* told of it, or an alarm, still comes.
LEMMA DeniedStep ==
    ASSUME Types, Covers, permit' = Shut,
           UNCHANGED <<air, opener>>, (scheduled => alarms > 0)', LastTells',
           air > 0 /\ Regular => \/ alarms' > 0 \/ PermitWaits(signals'),
           \/ task' = Idle
           \/ task' = task /\ explicit' = NoDeadline /\ ClosingIsTold'
    PROVE  Covers'
<1>0. NoDeadline = -1 /\ ~ (NoDeadline > 0) /\ NoDeadline # 0
  BY DEF NoDeadline
<1>1. permit'.open = FALSE /\ permit'.left = NoDeadline
  BY DEF Shut
<1>2. task' = Idle => task'.pc = "idle"
  BY DEF Idle
<1>3. ClosedMeansClosed'
  BY DEF ClosedMeansClosed, Regular, PermitWaits, IsPermit
<1>4. MarkHasAlarm'
  BY DEF MarkHasAlarm
<1>5. Notes'
  BY <1>0, <1>1, <1>2
     DEF Covers, Notes, CallsAreLong, OpenIsLong, AirIsAsked, NotedIsAsked, Regular
<1>6. DeadlineIsAir' /\ DeadlineIsLate'
  BY <1>1 DEF DeadlineIsAir, DeadlineIsLate
<1>7. EarlyIsTold' /\ ClosingIsTold'
  BY <1>0, <1>1, <1>2 DEF EarlyIsTold, ClosingIsTold, Closes
<1> QED BY <1>3, <1>4, <1>5, <1>6, <1>7 DEF Covers, Deadlines

LEMMA KeepsItself == \A q : Keeps(q, q)
  BY DEF Keeps

LEMMA TellOther ==
    ASSUME Types, NEW type \in SignalTypes, type # "permit", Tell(Signal(type))
    PROVE  Keeps(signals, signals')
<1>1. signals' = Append(signals, Signal(type)) /\ signals \in Seq(Signals)
  BY DEF Tell, Types, StackTypes
<1>2. Signal(type) \in Signals /\ ~ IsPermit(Signal(type))
  BY SignalsAre DEF Signal, IsPermit
<1> QED BY <1>1, <1>2, AppendSays

LEMMA TellPermit ==
    ASSUME NEW q \in Seq(Signals), NEW secs \in Times
    PROVE  /\ PermitWaits(Append(q, Permit(secs))) /\ LastSays(Append(q, Permit(secs)), secs)
           /\ ShutWaits(q) \/ secs = 0 => ShutWaits(Append(q, Permit(secs)))
           /\ \A asked : \/ LongWaits(q, asked)
                         \/ secs = StackWindow /\ (asked <= 0 \/ ShutWaits(q))
                         => LongWaits(Append(q, Permit(secs)), asked)
<1>1. Permit(secs) \in Signals /\ IsPermit(Permit(secs)) /\ Permit(secs).secs = secs
  BY SignalsAre DEF Permit, IsPermit
<1>2. StackWindow >= StackWindow
  BY WindowDurations
<1> QED BY <1>1, <1>2, AppendSays

\* A signal that is no permit has been handled.
LEMMA HandleOther ==
    ASSUME Types, signals # <<>>, Head(signals).type # "permit"
    PROVE  /\ Keeps(signals, Tail(signals))
           /\ \A type \in SignalTypes : type # "permit" =>
                 Keeps(signals, Append(Tail(signals), Signal(type)))
<1>1. signals \in Seq(Signals) /\ Tail(signals) \in Seq(Signals)
  BY HandledIs DEF Types, StackTypes
<1>2. Keeps(signals, Tail(signals))
  <2>1. ~ IsPermit(Head(signals)) /\ StackWindow \in Nat /\ StackWindow > 0
    BY WindowDurations DEF IsPermit
  <2> QED BY <1>1, <2>1, TailSays
<1>3. ASSUME NEW type \in SignalTypes, type # "permit"
      PROVE  Keeps(signals, Append(Tail(signals), Signal(type)))
  <2>1. Signal(type) \in Signals /\ ~ IsPermit(Signal(type))
    BY <1>3, SignalsAre DEF Signal, IsPermit
  <2>2. Keeps(Tail(signals), Append(Tail(signals), Signal(type)))
    BY <1>1, <2>1, AppendSays
  <2> QED BY <1>2, <2>2 DEF Keeps
<1> QED BY <1>2, <1>3

\* What the stack and its task do about other things.
LEMMA OtherSignals ==
    ASSUME IInv,
           \/ \E ok \in BOOLEAN : Forms(ok) \/ StackStarts(ok) \/ HandleSkipStartup(ok)
           \/ Joins \/ HandleUp \/ HandleFormation \/ ForceClosed
    PROVE  Covers'
<1>0. Types /\ Covers
  BY DEF IInv
<1>1. Keeps(signals, signals')
  <2>1. ASSUME NEW ok \in BOOLEAN, Forms(ok) PROVE Keeps(signals, signals')
    <3>1. PICK type \in SignalTypes : type # "permit" /\ Tell(Signal(type))
      BY <2>1 DEF Forms, SignalTypes
    <3> QED BY <1>0, <3>1, TellOther
  <2>2. ASSUME NEW ok \in BOOLEAN, StackStarts(ok) PROVE Keeps(signals, signals')
    <3>1. \/ UNCHANGED signals
          \/ \E type \in SignalTypes : type # "permit" /\ Tell(Signal(type))
      BY <2>2 DEF StackStarts, SignalTypes
    <3> QED BY <1>0, <3>1, TellOther, KeepsItself
  <2>3. CASE Joins
    <3>1. PICK type \in SignalTypes : type # "permit" /\ Tell(Signal(type))
      BY <2>3 DEF Joins, SignalTypes
    <3> QED BY <1>0, <3>1, TellOther
  <2>4. ASSUME NEW ok \in BOOLEAN, HandleSkipStartup(ok) PROVE Keeps(signals, signals')
    <3>1. /\ signals # <<>> /\ Head(signals).type # "permit"
          /\ \/ signals' = Tail(signals)
             \/ signals' = Append(Tail(signals), Signal("up"))
      BY <2>4 DEF HandleSkipStartup, Handles
    <3>2. "up" \in SignalTypes /\ "up" # "permit"
      BY DEF SignalTypes
    <3> QED BY <1>0, <3>1, <3>2, HandleOther
  <2>5. CASE HandleUp \/ HandleFormation
    <3>1. signals # <<>> /\ Head(signals).type # "permit" /\ signals' = Tail(signals)
      BY <2>5 DEF HandleUp, HandleFormation, Handles, Handled
    <3> QED BY <1>0, <3>1, HandleOther
  <2>6. CASE ForceClosed
    BY <2>6, KeepsItself DEF ForceClosed, stackVars
  <2> QED BY <2>1, <2>2, <2>3, <2>4, <2>5, <2>6
<1>2. UNCHANGED <<air, opener, alarms, permit, explicit, scheduled, task>>
  BY DEF Forms, StackStarts, HandleSkipStartup, Joins, HandleUp, HandleFormation,
         ForceClosed, stackVars, halVars
<1> QED BY <1>0, <1>1, <1>2, QuietStep

\* A device is authorized.
LEMMA AuthorizesCovers == IInv /\ Authorizes => Covers'
<1> SUFFICES ASSUME IInv, Authorizes PROVE Covers'
  OBVIOUS
<1>0. Types /\ Covers
  BY DEF IInv
<1>1. /\ air' = StackWindow /\ opener' = (IF task.pc = "opened" THEN "crossed" ELSE "stack")
      /\ signals' = Append(signals, Permit(StackWindow))
      /\ UNCHANGED <<alarms, permit, explicit, scheduled, task>>
  BY DEF Authorizes, Tell, halVars
<1>2. /\ PermitWaits(signals') /\ LastSays(signals', StackWindow)
      /\ ShutWaits(signals) => ShutWaits(signals')
      /\ explicit <= 0 \/ ShutWaits(signals) => LongWaits(signals', explicit)
  BY <1>0, <1>1, SignalsAre, TellPermit DEF Types, StackTypes
<1>3. explicit \in Int
  BY <1>0, Numbers
<1>4. ClosedMeansClosed' /\ MarkHasAlarm' /\ LastTells'
  <2>1. ClosedMeansClosed'
    BY <1>2 DEF ClosedMeansClosed, PermitWaits, IsPermit
  <2> QED BY <1>0, <1>1, <1>2, <2>1 DEF Covers, MarkHasAlarm, LastTells
<1>5. Notes'
  BY <1>0, <1>1, <1>2
     DEF Covers, Notes, CallsAreLong, OpenIsLong, AirIsAsked, NotedIsAsked, Regular
<1>6. DeadlineIsAir' /\ DeadlineIsLate'
  BY <1>2 DEF DeadlineIsAir, DeadlineIsLate
<1>7. EarlyIsTold'
  BY <1>0, <1>1, <1>2 DEF Covers, Deadlines, EarlyIsTold, Closes
<1>8. ClosingIsTold'
  <2>1. CASE explicit > 0
    BY <1>0, <1>1, <1>2, <2>1 DEF Covers, Deadlines, EarlyIsTold, ClosingIsTold, Closes
  <2>2. CASE explicit <= 0
    BY <1>1, <1>2, <2>2 DEF ClosingIsTold
  <2> QED BY <1>3, <2>1, <2>2
<1> QED BY <1>4, <1>5, <1>6, <1>7, <1>8 DEF Covers, Deadlines

\* Time passes while no signal waits and the runtime task is idle.
LEMMA TickCovers == IInv /\ Tick => Covers'
<1> SUFFICES ASSUME IInv, Tick PROVE Covers'
  OBVIOUS
<1>0. Types /\ Covers
  BY DEF IInv
<1>1. /\ task = Idle /\ signals = <<>> /\ air' = Less(air) /\ explicit' = Less(explicit)
      /\ opener' = (IF air = 1 THEN "none" ELSE opener)
      /\ air = 1 => signals' = Append(signals, Permit(0))
      /\ air # 1 => signals' = signals
      /\ UNCHANGED <<alarms, scheduled, task>>
  BY DEF Tick, Tell
<1>2. permit'.open = permit.open /\ permit'.left = Less(permit.left)
  BY <1>0 DEF Tick, Types, HalTypes, Windows
<1>3. ~ PermitWaits(signals) /\ ~ ShutWaits(signals) /\ \A x : ~ LongWaits(signals, x)
  BY <1>1 DEF PermitWaits, ShutWaits, LongWaits
<1>4. air = 1 => /\ PermitWaits(signals') /\ LastSays(signals', 0) /\ ShutWaits(signals')
  <2>1. signals \in Seq(Signals) /\ 0 \in Times
    BY <1>0, SignalsAre DEF Types, StackTypes
  <2>2. air = 1 => signals' = Append(signals, Permit(0))
    BY <1>1
  <2> QED BY <2>1, <2>2, TellPermit
<1>5. task.pc = "idle" /\ task'.pc = "idle"
  BY <1>1 DEF Idle
<1>6. /\ air \in Nat /\ (air = 0 => air' = 0) /\ (air > 0 => air' = air - 1)
      /\ explicit \in Int /\ (explicit > 0 => explicit' = explicit - 1)
      /\ (explicit <= 0 => explicit' = explicit)
      /\ permit.left \in Int /\ permit'.left \in Int
      /\ (permit.left > 0 => permit'.left = permit.left - 1)
      /\ (permit.left <= 0 => permit'.left = permit.left)
  BY <1>0, <1>1, <1>2, LessIs, Numbers DEF Less
<1>7. air' > 0 => air > 1 /\ air # 1 /\ opener' = opener /\ ~ PermitWaits(signals')
  BY <1>1, <1>3, <1>6
<1>8. ClosedMeansClosed' /\ MarkHasAlarm' /\ LastTells'
  <2>1. ClosedMeansClosed'
    BY <1>0, <1>1, <1>2, <1>3, <1>5, <1>6, <1>7, ClosedIs DEF Covers, ClosedMeansClosed, Regular
  <2>2. LastTells'
    BY <1>1, <1>3, <1>4, <1>6 DEF LastTells
  <2> QED BY <1>0, <1>1, <2>1, <2>2 DEF Covers, MarkHasAlarm
<1>9. Notes'
  BY <1>0, <1>2, <1>5, <1>6
     DEF Covers, Notes, CallsAreLong, OpenIsLong, AirIsAsked, NotedIsAsked
<1>10. DeadlineIsAir'
  BY <1>0, <1>2, <1>3, <1>5, <1>6, <1>7 DEF Covers, Deadlines, DeadlineIsAir, Regular
<1>11. explicit' > 0 /\ permit'.open => permit.left > 0
  <2>1. explicit' > 0 => explicit > 0
    BY <1>6
  <2> QED BY <1>0, <1>2, <1>3, <1>6, <2>1
          DEF Covers, Deadlines, EarlyIsTold, Notes, OpenIsLong
<1>12. explicit > 0 /\ permit.open => permit.left = air \/ permit.left >= explicit
  BY <1>0, <1>3, <1>5 DEF Covers, Deadlines, DeadlineIsLate
<1>13. DeadlineIsLate'
  <2>1. SUFFICES ASSUME permit'.open, explicit' > 0
                 PROVE  permit'.left = air' \/ permit'.left >= explicit'
    BY DEF DeadlineIsLate
  <2>2. /\ explicit > 0 /\ explicit' = explicit - 1
        /\ permit.left > 0 /\ permit'.left = permit.left - 1
    BY <1>6, <1>11, <2>1
  <2>3. permit.left = air => air' = air - 1
    BY <1>6, <2>2
  <2> QED BY <1>2, <1>6, <1>12, <2>1, <2>2, <2>3
<1>14. EarlyIsTold'
  <2>1. SUFFICES ASSUME permit'.open, explicit' > 0, permit'.left = 0 PROVE ShutWaits(signals')
    BY <1>5 DEF EarlyIsTold, Closes
  <2>2. explicit > 1 /\ permit.left = 1
    BY <1>6, <1>11, <2>1
  <2>3. air = 1
    BY <1>2, <1>6, <1>12, <2>1, <2>2
  <2> QED BY <1>4, <2>3
<1>15. ClosingIsTold'
  <2>1. SUFFICES ASSUME permit'.open, permit'.left = 0, air' > 0, Regular'
                 PROVE  alarms' > 0
    BY <1>5 DEF ClosingIsTold, Closes
  <2>2. Regular /\ air > 1
    BY <1>7, <2>1 DEF Regular
  <2>3. permit.left = air
    BY <1>0, <1>2, <1>3, <1>5, <1>6, <2>1, <2>2 DEF Covers, Deadlines, DeadlineIsAir
  <2> QED BY <1>6, <2>1, <2>2, <2>3
<1> QED BY <1>8, <1>9, <1>10, <1>13, <1>14, <1>15 DEF Covers, Deadlines

\* A signal about the window is handled.
LEMMA PermitCovers == IInv /\ HandlePermit => Covers'
<1> SUFFICES ASSUME IInv, HandlePermit PROVE Covers'
  OBVIOUS
<1> DEFINE h == Head(signals)
           r == Tail(signals)
           secs == h.secs
<1>0. Types /\ Covers
  BY DEF IInv
<1>1. /\ signals # <<>> /\ IsPermit(h) /\ signals' = r
      /\ UNCHANGED <<air, opener, task>>
  BY DEF HandlePermit, Handles, Handled, IsPermit
<1>2. secs \in Nat /\ signals \in Seq(Signals)
  <2>1. secs \in Times /\ MaxLeft \in Nat
    BY <1>0, <1>1, HandledIs, MaxLeftIs DEF Types
  <2> QED BY <1>0, <2>1 DEF Types, StackTypes, Times
<1>3. /\ LastSays(signals, air) => LastSays(r, air) \/ (~ PermitWaits(r) /\ secs = air)
      /\ ShutWaits(signals) => ShutWaits(r) \/ secs = 0
      /\ \A x : LongWaits(signals, x) =>
            \/ LongWaits(r, x)
            \/ secs >= StackWindow /\ x <= 0
            \/ secs = 0 /\ LongWaits(r, NoDeadline)
  BY <1>1, <1>2, WindowDurations, TailSays
<1>4. PermitWaits(signals)
  <2>1. 1 \in DOMAIN signals /\ h = signals[1]
    BY <1>1, <1>2, SeqIs, TailIs
  <2> QED BY <1>1, <2>1 DEF PermitWaits
<1>5. LastSays(r, air) => PermitWaits(r)
  BY DEF LastSays, PermitWaits
<1>6. LastSays(r, air) \/ (~ PermitWaits(r) /\ secs = air)
  BY <1>0, <1>3, <1>4 DEF Covers, LastTells
<1>7. LastTells'
  BY <1>1, <1>6 DEF LastTells
<1>8. StackWindow \in Nat /\ StackWindow > 0 /\ air \in Nat /\ alarms \in Nat
      /\ explicit \in Int /\ explicit >= -1 /\ NoDeadline = -1
  BY <1>0, Numbers, WindowDurations
<1>9. \/ secs = 0 /\ WindowState(FALSE, 0) /\ Expectation(FALSE, 0) /\ UNCHANGED alarms
      \/ /\ secs # 0 /\ Implicit(secs) /\ WindowState(FALSE, 0)
         /\ explicit' = NoDeadline /\ ScheduleClose
      \/ /\ secs # 0 /\ ~ Implicit(secs) /\ WindowState(TRUE, secs)
         /\ UNCHANGED <<explicit, scheduled, alarms>>
  BY DEF HandlePermit
<1>10. LongWaits(signals, explicit) /\ ~ (secs >= StackWindow /\ explicit <= 0) =>
          LongWaits(r, explicit) \/ (secs = 0 /\ LongWaits(r, NoDeadline))
  BY <1>3
<1> HIDE DEF h, r, secs
<1>11. CASE secs = 0 /\ WindowState(FALSE, 0) /\ Expectation(FALSE, 0) /\ UNCHANGED alarms
  <2>1. permit' = Shut /\ explicit' = NoDeadline /\ scheduled' = FALSE
    BY <1>11 DEF WindowState, Expectation
  <2>2. air > 0 => PermitWaits(signals')
    BY <1>1, <1>5, <1>6, <1>8, <1>11
  <2>3. ~ (secs >= StackWindow)
    BY <1>8, <1>11
  <2>4. LongWaits(signals, explicit) => LongWaits(signals', NoDeadline)
    BY <1>1, <1>10, <2>3, LongStays
  <2>5. ClosingIsTold'
    BY <1>0, <1>1, <1>11, <2>1, <2>4
       DEF Covers, Deadlines, ClosingIsTold, Closes, Regular, Shut
  <2> QED BY <1>0, <1>1, <1>7, <2>1, <2>2, <2>5, DeniedStep
<1>12. CASE secs # 0 /\ Implicit(secs) /\ WindowState(FALSE, 0) /\ explicit' = NoDeadline
            /\ ScheduleClose
  <2>1. permit' = Shut /\ scheduled' = TRUE
    BY <1>12 DEF WindowState, ScheduleClose
  <2>2. alarms' > 0
    BY <1>0, <1>8, <1>12 DEF ScheduleClose, Covers, MarkHasAlarm
  <2>3. ClosingIsTold'
    BY <2>2 DEF ClosingIsTold
  <2> QED BY <1>0, <1>1, <1>7, <1>12, <2>1, <2>2, <2>3, DeniedStep
<1>13. CASE /\ secs # 0 /\ ~ Implicit(secs) /\ WindowState(TRUE, secs)
            /\ UNCHANGED <<explicit, scheduled, alarms>>
  <2>1. permit'.open = TRUE /\ permit'.left = secs /\ secs > 0
    BY <1>2, <1>13 DEF WindowState, Open
  <2>2. ~ (secs >= StackWindow /\ explicit <= 0)
    BY <1>8, <1>13 DEF Implicit
  <2>3. ~ PermitWaits(signals') => secs = air
    BY <1>1, <1>5, <1>6
  <2>4. ShutWaits(signals) => ShutWaits(signals')
    BY <1>1, <1>3, <1>13
  <2>5. LongWaits(signals, explicit) => LongWaits(signals', explicit)
    BY <1>1, <1>10, <1>13, <2>2
  <2>6. ClosedMeansClosed' /\ MarkHasAlarm'
    BY <1>0, <1>13, <2>1 DEF Covers, ClosedMeansClosed, MarkHasAlarm
  <2>7. Notes'
    BY <1>0, <1>1, <2>1, <2>3, <1>2
       DEF Covers, Notes, CallsAreLong, OpenIsLong, AirIsAsked, NotedIsAsked, Regular
  <2>8. DeadlineIsAir' /\ DeadlineIsLate'
    BY <1>1, <2>1, <2>3 DEF DeadlineIsAir, DeadlineIsLate
  <2>9. EarlyIsTold' /\ ClosingIsTold'
    BY <1>0, <1>1, <1>13, <2>1, <2>4, <2>5
       DEF Covers, Deadlines, EarlyIsTold, ClosingIsTold, Closes, Regular
  <2> QED BY <1>7, <2>6, <2>7, <2>8, <2>9 DEF Covers, Deadlines
<1> QED BY <1>9, <1>11, <1>12, <1>13

\* The window on the air is closed, and the stack tells of it.
LEMMA AirCloses ==
    ASSUME Types, AirClose
    PROVE  air' = 0 /\ PermitWaits(signals') /\ LastSays(signals', 0) /\ ShutWaits(signals')
<1>1. signals \in Seq(Signals) /\ 0 \in Times
  BY SignalsAre DEF Types, StackTypes
<1>2. air' = 0 /\ signals' = Append(signals, Permit(0))
  BY DEF AirClose, Tell
<1> QED BY <1>1, <1>2, TellPermit

\* The alarm rings: it closes the window, or is missed.
LEMMA AlarmCovers ==
    ASSUME IInv, NEW ok \in BOOLEAN, AlarmRings(ok)
    PROVE  Covers'
<1>0. Types /\ Covers
  BY DEF IInv
<1>1. scheduled' = FALSE /\ UNCHANGED <<explicit, task>>
  BY DEF AlarmRings
<1>2. CASE ok = TRUE
  <2>1. AirClose /\ permit' = Shut
    BY <1>2 DEF AlarmRings, WindowState
  <2>2. air' = 0 /\ PermitWaits(signals') /\ LastSays(signals', 0) /\ ShutWaits(signals')
    BY <1>0, <2>1, AirCloses
  <2> QED BY <1>0, <1>1, <2>1, <2>2, ShutStep
<1>3. CASE ok = FALSE
  <2>1. opener' = "missed" /\ UNCHANGED <<air, signals, permit>>
    BY <1>3 DEF AlarmRings
  <2>2. ~ Regular'
    BY <2>1 DEF Regular
  <2>3. ClosedMeansClosed' /\ MarkHasAlarm' /\ LastTells'
    BY <1>0, <1>1, <2>1 DEF Covers, ClosedMeansClosed, MarkHasAlarm, LastTells
  <2>4. Notes'
    BY <1>0, <1>1, <2>1, <2>2 DEF Covers, Notes, CallsAreLong, OpenIsLong, AirIsAsked, NotedIsAsked
  <2>5. DeadlineIsAir' /\ DeadlineIsLate'
    BY <1>0, <1>1, <2>1, <2>2 DEF Covers, Deadlines, DeadlineIsAir, DeadlineIsLate
  <2>6. EarlyIsTold' /\ ClosingIsTold'
    BY <1>0, <1>1, <2>1, <2>2 DEF Covers, Deadlines, EarlyIsTold, ClosingIsTold, Closes
  <2> QED BY <2>3, <2>4, <2>5, <2>6 DEF Covers, Deadlines
<1> QED BY <1>2, <1>3

\* A device that joins is the last, or is not taken in.
LEMMA JoinCovers ==
    ASSUME IInv, NEW ok \in BOOLEAN, HandleJoin(ok)
    PROVE  Covers'
<1>0. Types /\ Covers
  BY DEF IInv
<1>1. /\ signals # <<>> /\ Head(signals).type # "permit"
      /\ UNCHANGED task
  BY DEF HandleJoin, Handles
<1>2. CASE cache.open /\ ok
  <2>1. /\ air' = 0 /\ permit' = Shut /\ explicit' = NoDeadline /\ scheduled' = FALSE
        /\ signals' = Append(Tail(signals), Permit(0))
    BY <1>2 DEF HandleJoin, WindowState, Expectation
  <2>2. Tail(signals) \in Seq(Signals) /\ 0 \in Times
    BY <1>0, <1>1, HandledIs, SignalsAre DEF Types
  <2>3. PermitWaits(signals') /\ LastSays(signals', 0) /\ ShutWaits(signals')
    BY <2>1, <2>2, TellPermit
  <2> QED BY <1>0, <1>1, <2>1, <2>3, ShutStep
<1>3. CASE ~ (cache.open /\ ok)
  <2>1. signals' = Tail(signals)
        /\ UNCHANGED <<air, opener, alarms, permit, explicit, scheduled>>
    BY <1>3 DEF HandleJoin, Handled
  <2>2. Keeps(signals, signals')
    BY <1>0, <1>1, <2>1, HandleOther
  <2> QED BY <1>0, <1>1, <2>1, <2>2, QuietStep
<1> QED BY <1>2, <1>3

\* The runtime task goes about other things.
LEMMA OtherCalls ==
    ASSUME IInv,
           \/ \E secs \in Durations : Ask(secs)
           \/ AutoRejoin \/ StartLooks \/ OpenRefused \/ OpenPostponed
           \/ FormFails \/ FormCalls \/ FormClears
           \/ PolicyForms \/ PolicyOpens \/ PolicyLooks \/ PolicyCloses(FALSE)
    PROVE  Covers'
<1>0. Types /\ Covers
  BY DEF IInv
<1>1. UNCHANGED <<air, opener, signals, alarms, permit, explicit, scheduled>>
  BY DEF Ask, AutoRejoin, StartLooks, OpenRefused, OpenPostponed, FormFails, FormCalls,
         FormClears, PolicyForms, PolicyOpens, PolicyLooks, PolicyCloses, stackVars, halVars
<1>2. Calm
  BY DEF Ask, AutoRejoin, StartLooks, OpenRefused, OpenPostponed, FormFails, FormCalls,
         FormClears, PolicyForms, PolicyOpens, PolicyLooks, PolicyCloses, At, Calm
<1>3. task = [pc |-> task.pc, for |-> task.for, secs |-> task.secs]
  BY <1>0 DEF Types, TaskTypes, Tasks
<1>4. \A pc \in Places : Go(pc) => task'.pc = pc
  BY <1>3 DEF Go
<1>5. task' = Idle => task'.pc = "idle"
  BY DEF Idle
<1>6. RejoinWindow > 0 /\ \A secs \in Durations : secs > 0
  BY WindowDurations
<1>7. task'.pc \notin {"open", "opened", "expect", "expired", "closed"}
      \/ (task'.pc = "open" /\ task'.secs > 0) \/ task' = task
  <2> DEFINE Good == \/ task'.pc \notin {"open", "opened", "expect", "expired", "closed"}
                     \/ (task'.pc = "open" /\ task'.secs > 0)
                     \/ task' = task
  <2> SUFFICES Good
    OBVIOUS
  <2>1. \A secs \in Durations : Ask(secs) => Good
    BY <1>6 DEF Ask, Call
  <2>2. AutoRejoin \/ PolicyForms => Good
    BY <1>6 DEF AutoRejoin, PolicyForms, Call
  <2>3. PolicyOpens => Good
    BY <1>4 DEF PolicyOpens, Call, Places
  <2>4. OpenFails => Good
    BY <1>4, <1>5 DEF OpenFails, Places
  <2>5. OpenRefused \/ OpenPostponed => Good
    BY <1>4, <2>4 DEF OpenRefused, OpenPostponed, Places
  <2>6. AfterForm => Good
    BY <1>4, <1>5 DEF AfterForm, Places
  <2>7. FormFails \/ FormCalls \/ FormClears \/ StartLooks => Good
    BY <1>4, <1>5, <2>6 DEF FormFails, FormCalls, FormClears, StartLooks, Places
  <2>8. PolicyLooks \/ PolicyCloses(FALSE) => Good
    BY <1>4, <1>5 DEF PolicyLooks, SeesShut, PolicyCloses, Places
  <2> HIDE DEF Good
  <2> QED BY <2>1, <2>2, <2>3, <2>5, <2>7, <2>8
<1>8. task' = task \/ (Calm /\ Calm' /\ (task.pc = "open" => task.secs > 0)')
  BY <1>2, <1>7 DEF Calm
<1>9. Keeps(signals, signals')
  BY <1>1, KeepsItself
<1> QED BY <1>0, <1>1, <1>8, <1>9, QuietStep

\* Zigbee is started: nothing has been on the air before.
LEMMA StartCovers == IInv /\ EnsureStarted => Covers'
<1> SUFFICES ASSUME IInv, EnsureStarted PROVE Covers'
  OBVIOUS
<1>0. Types /\ Covers
  BY DEF IInv
<1>1. air = 0 /\ task = Idle /\ task.pc = "idle"
  BY DEF EnsureStarted, IInv, Begins, Idle
<1>2. /\ permit' = Shut /\ UNCHANGED <<air, opener, signals, alarms, explicit, scheduled>>
  BY DEF EnsureStarted, WindowState, stackVars
<1>3. task'.pc = "started"
  BY DEF EnsureStarted, Call
<1>4. permit'.open = FALSE
  BY <1>2 DEF Shut
<1>5. ClosedMeansClosed' /\ MarkHasAlarm' /\ LastTells'
  BY <1>0, <1>1, <1>2 DEF Covers, ClosedMeansClosed, MarkHasAlarm, LastTells
<1>6. Notes'
  BY <1>3, <1>4 DEF Notes, CallsAreLong, OpenIsLong, AirIsAsked, NotedIsAsked
<1>7. Deadlines'
  BY <1>3, <1>4 DEF Deadlines, DeadlineIsAir, DeadlineIsLate, EarlyIsTold, ClosingIsTold, Closes
<1> QED BY <1>5, <1>6, <1>7 DEF Covers

\* A window is opened, in three steps.
LEMMA OpenCovers ==
    ASSUME IInv, OpenCalls \/ OpenSetsWindow \/ OpenSetsExpectation
    PROVE  Covers'
<1>0. Types /\ Covers
  BY DEF IInv
<1>1. task.secs \in Times /\ task = [pc |-> task.pc, for |-> task.for, secs |-> task.secs]
  BY <1>0 DEF Types, TaskTypes, Tasks
<1>2. \A pc \in Places : Go(pc) => task'.pc = pc /\ task'.secs = task.secs
  BY <1>1 DEF Go
<1>3. task.pc \in {"open", "opened", "expect"} /\ task.secs > 0
  BY <1>0 DEF OpenCalls, OpenSetsWindow, OpenSetsExpectation, At, Covers, Notes, CallsAreLong
<1>4. CASE OpenCalls
  <2>1. /\ task.pc = "open" /\ task'.pc = "opened" /\ task'.secs = task.secs
        /\ air' = task.secs /\ signals' = Append(signals, Permit(task.secs))
        /\ UNCHANGED <<alarms, permit, explicit, scheduled>>
    BY <1>2, <1>4 DEF OpenCalls, AirOpen, Tell, At, Places, halVars
  <2>2. /\ PermitWaits(signals') /\ LastSays(signals', task.secs)
        /\ ShutWaits(signals) => ShutWaits(signals')
    BY <1>0, <1>1, <2>1, TellPermit DEF Types, StackTypes
  <2>3. ClosedMeansClosed' /\ MarkHasAlarm' /\ LastTells'
    BY <1>0, <2>1, <2>2 DEF Covers, ClosedMeansClosed, MarkHasAlarm, LastTells
  <2>4. Notes'
    BY <1>0, <1>3, <2>1 DEF Covers, Notes, CallsAreLong, OpenIsLong, AirIsAsked, NotedIsAsked
  <2>5. DeadlineIsAir' /\ DeadlineIsLate'
    BY <2>2 DEF DeadlineIsAir, DeadlineIsLate
  <2>6. EarlyIsTold' /\ ClosingIsTold'
    BY <1>0, <2>1, <2>2 DEF Covers, Deadlines, EarlyIsTold, ClosingIsTold, Closes
  <2> QED BY <2>3, <2>4, <2>5, <2>6 DEF Covers, Deadlines
<1>5. CASE OpenSetsWindow
  <2>1. /\ task.pc = "opened" /\ task'.pc = "expect" /\ task'.secs = task.secs
        /\ UNCHANGED <<air, opener, signals, alarms, explicit, scheduled>>
    BY <1>2, <1>5 DEF OpenSetsWindow, At, Places, stackVars
  <2>2. permit'.open = TRUE /\ permit'.left = task.secs
    BY <1>3, <1>5 DEF OpenSetsWindow, WindowState, Open
  <2>3. task.secs \in Nat /\ task.secs # 0
    BY <1>0, <1>3, Numbers
  <2>4. ClosedMeansClosed' /\ MarkHasAlarm' /\ LastTells'
    BY <1>0, <2>1, <2>2 DEF Covers, ClosedMeansClosed, MarkHasAlarm, LastTells
  <2>5. Notes'
    BY <1>3, <2>1, <2>2, <2>3 DEF Notes, CallsAreLong, OpenIsLong, AirIsAsked, NotedIsAsked
  <2>6. Deadlines'
    BY <1>0, <2>1, <2>2, <2>3
       DEF Covers, Notes, AirIsAsked, Deadlines, DeadlineIsAir, DeadlineIsLate, EarlyIsTold,
           ClosingIsTold, Closes, Regular
  <2> QED BY <2>4, <2>5, <2>6 DEF Covers
<1>6. CASE OpenSetsExpectation
  <2>1. /\ task.pc = "expect" /\ task'.pc \in {"status", "idle"}
        /\ explicit' = task.secs /\ scheduled' = scheduled
        /\ UNCHANGED <<air, opener, signals, alarms, permit>>
    <3>1. task' = Idle => task'.pc = "idle"
      BY DEF Idle
    <3>2. scheduled \in BOOLEAN
      BY <1>0 DEF Types, HalTypes
    <3> QED BY <1>2, <1>3, <1>6, <3>1, <3>2
            DEF OpenSetsExpectation, Expectation, At, Places, stackVars
  <2>2. task.secs \in Nat /\ permit.left \in Int
    BY <1>0, Numbers
  <2>3. permit.open => permit.left # 0
    BY <1>0, <2>1 DEF Covers, Notes, OpenIsLong
  <2>4. ClosedMeansClosed' /\ MarkHasAlarm' /\ LastTells'
    BY <1>0, <2>1 DEF Covers, ClosedMeansClosed, MarkHasAlarm, LastTells
  <2>5. Notes'
    BY <1>0, <2>1 DEF Covers, Notes, CallsAreLong, OpenIsLong, AirIsAsked, NotedIsAsked
  <2>6. DeadlineIsAir'
    BY <1>0, <2>1 DEF Covers, Deadlines, DeadlineIsAir, Regular
  <2>7. DeadlineIsLate'
    BY <1>0, <2>1, <2>2 DEF Covers, Notes, NotedIsAsked, DeadlineIsLate
  <2>8. EarlyIsTold' /\ ClosingIsTold'
    BY <2>1, <2>3 DEF EarlyIsTold, ClosingIsTold, Closes
  <2> QED BY <2>4, <2>5, <2>6, <2>7, <2>8 DEF Covers, Deadlines
<1> QED BY <1>4, <1>5, <1>6

\* The policy closes a window, or finds that its time is over.
LEMMA CloseCovers ==
    ASSUME IInv, PolicyFindsExpired \/ PolicyExpires \/ PolicyCloses(TRUE) \/ PolicyClosed
    PROVE  Covers'
<1>0. Types /\ Covers
  BY DEF IInv
<1>1. \A pc \in Places : Go(pc) => task'.pc = pc
  BY <1>0 DEF Go, Types, TaskTypes, Tasks
<1>2. CASE PolicyFindsExpired
  <2>1. /\ task.pc = "status" /\ task'.pc = "expired" /\ permit.open /\ permit.left = 0
        /\ UNCHANGED <<air, opener, signals, alarms, permit, explicit, scheduled>>
    BY <1>1, <1>2 DEF PolicyFindsExpired, Expired, At, Places, stackVars, halVars
  <2>2. ClosedMeansClosed' /\ MarkHasAlarm' /\ LastTells'
    BY <1>0, <2>1 DEF Covers, ClosedMeansClosed, MarkHasAlarm, LastTells
  <2>3. Notes'
    BY <1>0, <2>1 DEF Covers, Notes, CallsAreLong, OpenIsLong, AirIsAsked, NotedIsAsked
  <2>4. Deadlines'
    BY <1>0, <2>1
       DEF Covers, Deadlines, DeadlineIsAir, DeadlineIsLate, EarlyIsTold, ClosingIsTold,
           Closes, Regular
  <2> QED BY <2>2, <2>3, <2>4 DEF Covers
<1>3. air > 0 /\ Regular /\ Closes => alarms > 0 \/ PermitWaits(signals)
  BY <1>0, LongStays DEF Covers, Deadlines, ClosingIsTold
<1>4. CASE PolicyExpires
  <2>1. /\ Closes /\ permit' = Shut /\ task' = Idle
        /\ UNCHANGED <<air, opener, signals, alarms, scheduled>>
    BY <1>4 DEF PolicyExpires, SeesShut, WindowState, At, Closes, stackVars
  <2>2. LastTells' /\ (scheduled => alarms > 0)'
    BY <1>0, <2>1 DEF Covers, LastTells, MarkHasAlarm
  <2> QED BY <1>0, <1>3, <2>1, <2>2, DeniedStep
<1>5. CASE PolicyCloses(TRUE)
  <2>1. AirClose /\ task'.pc = "closed" /\ UNCHANGED <<alarms, permit, scheduled>>
    BY <1>1, <1>5 DEF PolicyCloses, Places, halVars
  <2>2. air' = 0 /\ PermitWaits(signals') /\ LastSays(signals', 0) /\ ShutWaits(signals')
    BY <1>0, <2>1, AirCloses
  <2>3. (scheduled => alarms > 0)'
    BY <1>0, <2>1 DEF Covers, MarkHasAlarm
  <2> QED BY <1>0, <2>1, <2>2, <2>3, ShutStep
<1>6. CASE PolicyClosed
  <2>1. /\ Closes /\ permit' = Shut /\ task' = Idle /\ scheduled' = FALSE
        /\ UNCHANGED <<air, opener, signals, alarms>>
    BY <1>6 DEF PolicyClosed, Expectation, WindowState, At, Closes, stackVars
  <2>2. LastTells'
    BY <1>0, <2>1 DEF Covers, LastTells
  <2> QED BY <1>0, <1>3, <2>1, <2>2, DeniedStep
<1> QED BY <1>2, <1>4, <1>5, <1>6

LEMMA CoversKept == IInv /\ [Next]_vars => Covers'
<1> SUFFICES ASSUME IInv, [Next]_vars PROVE Covers'
  OBVIOUS
<1>1. CASE StackTask
  BY <1>1, OtherSignals, AlarmCovers, JoinCovers, PermitCovers DEF StackTask
<1>2. CASE RuntimeTask
  <2>1. CASE \E ok \in BOOLEAN : PolicyCloses(ok)
    <3>1. PolicyCloses(TRUE) \/ PolicyCloses(FALSE)
      BY <2>1
    <3> QED BY <3>1, OtherCalls, CloseCovers
  <2> QED BY <1>2, <2>1, StartCovers, OpenCovers, CloseCovers, OtherCalls DEF RuntimeTask
<1>3. CASE Inputs
  BY <1>3, OtherCalls, OtherSignals, AuthorizesCovers DEF Inputs
<1>4. CASE Stack
  BY <1>4, OtherSignals DEF Stack
<1>5. CASE Tick
  BY <1>5, TickCovers
<1>6. CASE UNCHANGED vars
  <2>1. UNCHANGED <<air, opener, signals, alarms, permit, explicit, scheduled, task>>
    BY <1>6 DEF vars, stackVars, halVars
  <2>2. Keeps(signals, signals')
    BY <2>1, KeepsItself
  <2> QED BY <2>1, <2>2, QuietStep DEF IInv
<1> QED BY <1>1, <1>2, <1>3, <1>4, <1>5, <1>6 DEF Next

-----------------------------------------------------------------------------
(* The theorem                                                             *)

LEMMA InitIsGood == Init => IInv
<1> SUFFICES ASSUME Init PROVE IInv
  OBVIOUS
<1>1. 0 \in Times /\ Shut \in Windows /\ NoDeadline \in Left /\ NoDeadline = -1
  BY SignalsAre, ShutIs DEF NoDeadline
<1>2. Types
  <2>1. StackTypes
    <3>1. <<>> \in Seq(Signals) /\ Len(<<>>) = 0 /\ SignalBound \in Nat
      BY WindowSignals
    <3> QED BY <1>1, <3>1 DEF Init, StackTypes, Openers
  <2>2. HalTypes
    BY <1>1 DEF Init, HalTypes
  <2>3. PolicyTypes
    <3>1. 0 \in 0 .. RetryDelay /\ 0 \in 0 .. Cooldown
      BY WindowDurations
    <3> QED BY <1>1, <3>1 DEF Init, PolicyTypes
  <2>4. TaskTypes
    BY <1>1 DEF Init, TaskTypes, Idle, Tasks, Places, Callers
  <2>5. BudgetTypes
    <3>1. MaxInputs \in Nat /\ MaxFaults \in Nat
      BY WindowDurations
    <3> QED BY <3>1 DEF Init, BudgetTypes
  <2> QED BY <2>1, <2>2, <2>3, <2>4, <2>5 DEF Types
<1>3. /\ air = 0 /\ ~ (air > 0) /\ ~ permit.open /\ ~ scheduled /\ task.pc = "idle"
      /\ ~ PermitWaits(signals)
  BY DEF Init, Shut, Idle, PermitWaits
<1>4. Begins
  BY DEF Init, Begins
<1>5. ClosedMeansClosed /\ MarkHasAlarm /\ LastTells
  BY <1>3 DEF ClosedMeansClosed, MarkHasAlarm, LastTells
<1>6. Notes
  BY <1>3 DEF Notes, CallsAreLong, OpenIsLong, AirIsAsked, NotedIsAsked
<1>7. Deadlines
  BY <1>3 DEF Deadlines, DeadlineIsAir, DeadlineIsLate, EarlyIsTold, ClosingIsTold, Closes
<1> QED BY <1>2, <1>4, <1>5, <1>6, <1>7 DEF IInv, Covers

\* What the adapter says of the window covers what is on the air, but for the
\* two cases that ClosedMeansClosed names: for any lengths of windows, any
\* number of signals that wait, and with every variable of its type.
THEOREM AdapterKnowsTheWindow == Spec => []WindowIsKnown
<1>1. IInv /\ [Next]_vars => IInv'
  BY TypesKept, BeginsKept, CoversKept DEF IInv
<1>2. IInv => WindowIsKnown
  BY TypesAre DEF IInv, Covers, WindowIsKnown
<1> QED BY InitIsGood, <1>1, <1>2, PTL DEF Spec
=============================================================================
