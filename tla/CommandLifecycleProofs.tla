----------------------- MODULE CommandLifecycleProofs -----------------------
(***************************************************************************)
(* Proofs about CommandLifecycle, for any set of commands, any assignment  *)
(* of correlation ids to them, and any sizes of the queues and tables.     *)
(***************************************************************************)
EXTENDS CommandLifecycle, FiniteSetTheorems, TLAPS

-----------------------------------------------------------------------------
(* Queues: whether some element of a sequence lies in a set, and whether   *)
(* at most one does.                                                       *)

Some(s, P)   == \E i \in 1 .. Len(s) : s[i] \in P
AtMost(s, P) == \A i, j \in 1 .. Len(s) : s[i] \in P /\ s[j] \in P => i = j

\* Appending an element adds it to what the queue holds.
LEMMA SomeAppend ==
    ASSUME NEW S, NEW s \in Seq(S), NEW e \in S, NEW P
    PROVE  Some(Append(s, e), P) <=> Some(s, P) \/ e \in P
<1> DEFINE t == Append(s, e)
<1>1. /\ Len(t) = Len(s) + 1 /\ Len(s) \in Nat
      /\ \A i \in 1 .. Len(s) : t[i] = s[i]
      /\ t[Len(s) + 1] = e
  OBVIOUS
<1>2. ASSUME Some(t, P) PROVE Some(s, P) \/ e \in P
  <2>1. PICK i \in 1 .. Len(t) : t[i] \in P
    BY <1>2 DEF Some
  <2>2. CASE i \in 1 .. Len(s)
    BY <1>1, <2>1, <2>2 DEF Some
  <2>3. CASE i = Len(s) + 1
    BY <1>1, <2>1, <2>3
  <2> QED BY <1>1, <2>2, <2>3
<1>3. ASSUME Some(s, P) PROVE Some(t, P)
  <2>1. PICK i \in 1 .. Len(s) : s[i] \in P
    BY <1>3 DEF Some
  <2>2. i \in 1 .. Len(t) /\ t[i] \in P
    BY <1>1, <2>1
  <2> QED BY <2>2 DEF Some
<1>4. ASSUME e \in P PROVE Some(t, P)
  <2>1. Len(s) + 1 \in 1 .. Len(t) /\ t[Len(s) + 1] \in P
    BY <1>1, <1>4
  <2> QED BY <2>1 DEF Some
<1> QED BY <1>2, <1>3, <1>4

\* Appending an element keeps the elements of P unique if it is not in P or
\* the first in P.
LEMMA AtMostAppend ==
    ASSUME NEW S, NEW s \in Seq(S), NEW e \in S, NEW P,
           AtMost(s, P), e \in P => ~ Some(s, P)
    PROVE  AtMost(Append(s, e), P)
<1> DEFINE t == Append(s, e)
<1>1. /\ Len(t) = Len(s) + 1 /\ Len(s) \in Nat
      /\ \A i \in 1 .. Len(s) : t[i] = s[i]
      /\ t[Len(s) + 1] = e
  OBVIOUS
<1> SUFFICES ASSUME NEW i \in 1 .. Len(t), NEW j \in 1 .. Len(t),
                    t[i] \in P, t[j] \in P
             PROVE  i = j
  BY DEF AtMost
<1>2. CASE i \in 1 .. Len(s) /\ j \in 1 .. Len(s)
  BY <1>1, <1>2 DEF AtMost
<1>3. CASE i = Len(s) + 1 \/ j = Len(s) + 1
  BY <1>1, <1>3 DEF Some
<1> QED BY <1>1, <1>2, <1>3

\* What a queue holds is its head and what its tail holds.
LEMMA SomeTail ==
    ASSUME NEW S, NEW s \in Seq(S), s # <<>>, NEW P
    PROVE  Some(s, P) <=> Head(s) \in P \/ Some(Tail(s), P)
<1> DEFINE t == Tail(s)
<1>1. /\ Len(t) = Len(s) - 1 /\ Len(s) \in Nat \ {0} /\ Head(s) = s[1]
      /\ \A i \in 1 .. Len(t) : t[i] = s[i + 1]
  OBVIOUS
<1>2. ASSUME Some(s, P) PROVE Head(s) \in P \/ Some(t, P)
  <2>1. PICK i \in 1 .. Len(s) : s[i] \in P
    BY <1>2 DEF Some
  <2>2. CASE i = 1
    BY <1>1, <2>1, <2>2
  <2>3. CASE i > 1
    <3>1. i - 1 \in 1 .. Len(t) /\ t[i - 1] = s[i]
      BY <1>1, <2>3
    <3> QED BY <2>1, <3>1 DEF Some
  <2> QED BY <2>2, <2>3
<1>3. ASSUME Head(s) \in P PROVE Some(s, P)
  <2>1. 1 \in 1 .. Len(s) /\ s[1] \in P
    BY <1>1, <1>3
  <2> QED BY <2>1 DEF Some
<1>4. ASSUME Some(t, P) PROVE Some(s, P)
  <2>1. PICK i \in 1 .. Len(t) : t[i] \in P
    BY <1>4 DEF Some
  <2>2. i + 1 \in 1 .. Len(s) /\ s[i + 1] \in P
    BY <1>1, <2>1
  <2> QED BY <2>2 DEF Some
<1> QED BY <1>2, <1>3, <1>4

\* A tail keeps the elements of P unique, and has none if the head was one.
LEMMA AtMostTail ==
    ASSUME NEW S, NEW s \in Seq(S), s # <<>>, NEW P, AtMost(s, P)
    PROVE  /\ AtMost(Tail(s), P)
           /\ Head(s) \in P => ~ Some(Tail(s), P)
<1> DEFINE t == Tail(s)
<1>1. /\ Len(t) = Len(s) - 1 /\ Len(s) \in Nat \ {0} /\ Head(s) = s[1]
      /\ \A i \in 1 .. Len(t) : t[i] = s[i + 1]
  OBVIOUS
<1>2. AtMost(t, P)
  <2> SUFFICES ASSUME NEW i \in 1 .. Len(t), NEW j \in 1 .. Len(t),
                      t[i] \in P, t[j] \in P
               PROVE  i = j
    BY DEF AtMost
  <2>1. /\ i + 1 \in 1 .. Len(s) /\ j + 1 \in 1 .. Len(s)
        /\ s[i + 1] \in P /\ s[j + 1] \in P
    BY <1>1
  <2>2. i + 1 = j + 1
    BY <2>1 DEF AtMost
  <2> QED BY <2>2
<1>3. ASSUME Head(s) \in P, Some(t, P) PROVE FALSE
  <2>1. PICK i \in 1 .. Len(t) : t[i] \in P
    BY <1>3 DEF Some
  <2>2. /\ i + 1 \in 1 .. Len(s) /\ 1 \in 1 .. Len(s)
        /\ s[i + 1] \in P /\ s[1] \in P
    BY <1>1, <1>3, <2>1
  <2>3. i + 1 = 1
    BY <2>2 DEF AtMost
  <2> QED BY <2>3
<1> QED BY <1>2, <1>3

-----------------------------------------------------------------------------
(* The types.                                                              *)

LEMMA Sizes ==
    /\ MaxRetries \in Nat /\ MaxPending \in Nat /\ IngressCapacity \in Nat
    /\ ResultCapacity \in Nat /\ EventCapacity \in Nat
    /\ EventsPerCycle \in Nat /\ Timeout \in Nat /\ TimeRange \in Nat
    /\ MaxLag \in Nat /\ MaxOther \in Nat /\ TimeRange > 0
  BY SizesAssumption, TimeAssumption


Requests      == [cmd : Commands, issued : Times]
CommandEvents == [kind : {"request", "answered", "timeout"},
                  cmd : Commands, by : Commands]
AllEvents     == CommandEvents \cup {OtherEvent}

\* The two tables, which are sets, are finite.
Tables == TableTypes /\ IsFiniteSet(pending) /\ IsFiniteSet(tracked)

TypeInv == LoopTypes /\ QueueTypes /\ Tables /\ PastTypes

\* A set with one element more is finite and has at most one more.
LEMMA OneMore ==
    ASSUME NEW S, IsFiniteSet(S), NEW x
    PROVE  /\ IsFiniteSet(S \cup {x})
           /\ Cardinality(S) \in Nat
           /\ Cardinality(S \cup {x}) \in Nat
           /\ Cardinality(S \cup {x}) <= Cardinality(S) + 1
<1>1. Cardinality(S) \in Nat
  BY FS_CardinalityType
<1>2. /\ IsFiniteSet(S \cup {x})
      /\ Cardinality(S \cup {x}) =
           IF x \in S THEN Cardinality(S) ELSE Cardinality(S) + 1
  BY FS_AddElement
<1> QED BY <1>1, <1>2

\* A subset of a finite set is finite and no larger.
LEMMA NoMore ==
    ASSUME NEW S, IsFiniteSet(S), NEW T, T \subseteq S
    PROVE  /\ IsFiniteSet(T)
           /\ Cardinality(S) \in Nat
           /\ Cardinality(T) \in Nat
           /\ Cardinality(T) <= Cardinality(S)
<1>1. IsFiniteSet(T) /\ Cardinality(T) <= Cardinality(S)
  BY FS_Subset
<1> QED BY <1>1, FS_CardinalityType

\* What is pushed is an event, and no more than the queue holds.
LEMMA PushedType ==
    ASSUME QueueTypes, NEW e \in AllEvents
    PROVE  Pushed(e) \in Seq(AllEvents) /\ Len(Pushed(e)) <= EventCapacity
<1>1. events \in Seq(AllEvents) /\ Len(events) <= EventCapacity
  BY DEF QueueTypes, AllEvents, CommandEvents
<1> QED BY <1>1, Sizes DEF Pushed, Room

\* What is popped from the event queue, and what stays, has its type.
LEMMA PoppedType ==
    ASSUME QueueTypes, events # <<>>
    PROVE  /\ Head(events) \in AllEvents
           /\ Tail(events) \in Seq(AllEvents)
           /\ Len(Tail(events)) <= EventCapacity
           /\ Head(events).kind # "other" => Head(events) \in CommandEvents
<1>1. /\ events \in Seq(AllEvents) /\ Len(events) \in Nat
      /\ Len(events) <= EventCapacity
  BY DEF QueueTypes, AllEvents, CommandEvents
<1>2. /\ Head(events) \in AllEvents /\ Tail(events) \in Seq(AllEvents)
      /\ Len(Tail(events)) <= EventCapacity
  BY <1>1, Sizes
<1>3. Head(events).kind # "other" => Head(events) \in CommandEvents
  BY <1>2 DEF AllEvents, OtherEvent
<1> QED BY <1>2, <1>3

\* The same for the other two queues.
LEMMA DrainedTypes ==
    ASSUME QueueTypes
    PROVE  /\ ingress # <<>> =>
                /\ Head(ingress) \in Requests
                /\ Head(ingress).cmd \in Commands
                /\ Tail(ingress) \in Seq(Requests)
                /\ Len(Tail(ingress)) <= IngressCapacity
           /\ results # <<>> =>
                /\ Head(results) \in Commands
                /\ Tail(results) \in Seq(Commands)
                /\ Len(Tail(results)) <= ResultCapacity
<1>1. ASSUME ingress # <<>>
      PROVE  /\ Head(ingress) \in Requests
             /\ Head(ingress).cmd \in Commands
             /\ Tail(ingress) \in Seq(Requests)
             /\ Len(Tail(ingress)) <= IngressCapacity
  <2>1. ingress \in Seq(Requests) /\ Len(ingress) <= IngressCapacity
    BY DEF QueueTypes, Requests
  <2>2. /\ Head(ingress) \in Requests /\ Tail(ingress) \in Seq(Requests)
        /\ Len(Tail(ingress)) <= IngressCapacity
    BY <1>1, <2>1, Sizes
  <2>3. Head(ingress).cmd \in Commands
    BY <2>2 DEF Requests
  <2> QED BY <2>2, <2>3
<1>2. ASSUME results # <<>>
      PROVE  /\ Head(results) \in Commands
             /\ Tail(results) \in Seq(Commands)
             /\ Len(Tail(results)) <= ResultCapacity
  BY <1>2, Sizes DEF QueueTypes
<1> QED BY <1>1, <1>2

LEMMA InitType == Init => TypeInv
<1> SUFFICES ASSUME Init PROVE TypeInv
  OBVIOUS
<1>1. Cardinality({}) = 0 /\ IsFiniteSet({})
  BY FS_EmptySet
<1>2. LoopTypes
  <2>1. 0 \in Times
    BY Sizes DEF Times
  <2> QED BY <2>1 DEF Init, LoopTypes
<1>3. QueueTypes
  BY Sizes DEF Init, QueueTypes
<1>4. Tables
  BY <1>1, Sizes DEF Init, Tables, TableTypes
<1>5. PastTypes
  BY DEF Init, PastTypes
<1> QED BY <1>2, <1>3, <1>4, <1>5 DEF TypeInv

\* A group of variables a step leaves alone keeps its types.
LEMMA LoopTypesStay == LoopTypes /\ UNCHANGED <<clock, loopVars>> => LoopTypes'
  BY DEF LoopTypes, loopVars
LEMMA QueueTypesStay == QueueTypes /\ UNCHANGED queueVars => QueueTypes'
  BY DEF QueueTypes, queueVars
LEMMA TablesStay == Tables /\ UNCHANGED tableVars => Tables'
  BY DEF Tables, TableTypes, tableVars
LEMMA PastTypesStay == PastTypes /\ UNCHANGED <<air, pastVars>> => PastTypes'
  BY DEF PastTypes, pastVars

LEMMA NextType == TypeInv /\ [Next]_vars => TypeInv'
<1> SUFFICES ASSUME TypeInv, [Next]_vars PROVE TypeInv'
  OBVIOUS
<1>1. ASSUME NEW c \in Commands, PostAccepted(c) PROVE TypeInv'
  <2>1. [cmd |-> c, issued |-> clock] \in [cmd : Commands, issued : Times]
    BY DEF TypeInv, LoopTypes
  <2>11. LoopTypes'
    BY <1>1, LoopTypesStay DEF PostAccepted, TypeInv, loopVars, queueVars, tableVars, pastVars
  <2>12. QueueTypes'
    BY <1>1, <2>1, Sizes DEF PostAccepted, TypeInv, QueueTypes, queueVars
  <2>13. Tables'
    BY <1>1, TablesStay DEF PostAccepted, TypeInv, loopVars, queueVars, tableVars, pastVars
  <2>14. PastTypes'
    BY <1>1 DEF PostAccepted, TypeInv, PastTypes, pastVars
  <2> QED BY <2>11, <2>12, <2>13, <2>14 DEF TypeInv
<1>2. ASSUME NEW c \in Commands, PostRefused(c) PROVE TypeInv'
  <2>11. LoopTypes'
    BY <1>2, LoopTypesStay DEF PostRefused, TypeInv, loopVars, queueVars, tableVars, pastVars
  <2>12. QueueTypes'
    BY <1>2, QueueTypesStay DEF PostRefused, TypeInv, loopVars, queueVars, tableVars, pastVars
  <2>13. Tables'
    BY <1>2, TablesStay DEF PostRefused, TypeInv, loopVars, queueVars, tableVars, pastVars
  <2>14. PastTypes'
    BY <1>2 DEF PostRefused, TypeInv, PastTypes, pastVars
  <2> QED BY <2>11, <2>12, <2>13, <2>14 DEF TypeInv
<1>3. ASSUME NEW c \in Commands, Reply(c) PROVE TypeInv'
  <2>11. LoopTypes'
    BY <1>3, LoopTypesStay DEF Reply, TypeInv, loopVars, queueVars, tableVars, pastVars
  <2>12. QueueTypes'
    BY <1>3, Sizes DEF Reply, TypeInv, QueueTypes, queueVars
  <2>13. Tables'
    BY <1>3, TablesStay DEF Reply, TypeInv, loopVars, queueVars, tableVars, pastVars
  <2>14. PastTypes'
    BY <1>3 DEF Reply, TypeInv, PastTypes, pastVars
  <2> QED BY <2>11, <2>12, <2>13, <2>14 DEF TypeInv
<1>4. ASSUME PushOther PROVE TypeInv'
  <2>11. LoopTypes'
    BY <1>4, LoopTypesStay DEF PushOther, TypeInv, loopVars, queueVars, tableVars, pastVars
  <2>12. QueueTypes'
    BY <1>4, PushedType DEF PushOther, TypeInv, QueueTypes, queueVars, AllEvents, CommandEvents
  <2>13. Tables'
    BY <1>4, TablesStay DEF PushOther, TypeInv, loopVars, queueVars, tableVars, pastVars
  <2>14. PastTypes'
    BY <1>4, PastTypesStay DEF PushOther, TypeInv, loopVars, queueVars, tableVars, pastVars
  <2> QED BY <2>11, <2>12, <2>13, <2>14 DEF TypeInv
<1>5. ASSUME Advance PROVE TypeInv'
  <2>1. (clock + 1) % TimeRange \in Times
    BY Sizes DEF TypeInv, LoopTypes, Times
  <2>11. LoopTypes'
    BY <1>5, <2>1 DEF Advance, TypeInv, LoopTypes, loopVars, Times
  <2>12. QueueTypes'
    BY <1>5, QueueTypesStay DEF Advance, TypeInv, loopVars, queueVars, tableVars, pastVars
  <2>13. Tables'
    BY <1>5, TablesStay DEF Advance, TypeInv, loopVars, queueVars, tableVars, pastVars
  <2>14. PastTypes'
    BY <1>5, PastTypesStay DEF Advance, TypeInv, loopVars, queueVars, tableVars, pastVars
  <2> QED BY <2>11, <2>12, <2>13, <2>14 DEF TypeInv
<1>6. ASSUME BeginLoop PROVE TypeInv'
  <2>11. LoopTypes'
    BY <1>6 DEF BeginLoop, TypeInv, LoopTypes, loopVars, Times
  <2>12. QueueTypes'
    BY <1>6, QueueTypesStay DEF BeginLoop, TypeInv, loopVars, queueVars, tableVars, pastVars
  <2>13. Tables'
    BY <1>6, TablesStay DEF BeginLoop, TypeInv, loopVars, queueVars, tableVars, pastVars
  <2>14. PastTypes'
    BY <1>6, PastTypesStay DEF BeginLoop, TypeInv, loopVars, queueVars, tableVars, pastVars
  <2> QED BY <2>11, <2>12, <2>13, <2>14 DEF TypeInv
<1>7. ASSUME AdmitRequest PROVE TypeInv'
  <2> DEFINE r == Head(ingress)
             c == r.cmd
             tracks == TrackedOf(c) # {} \/ Cardinality(tracked) < MaxPending
             new == [cmd |-> c, retries |-> MaxRetries]
             kept == tracked \ TrackedOf(c)
  <2>1. /\ r \in Requests /\ c \in Commands
        /\ Tail(ingress) \in Seq(Requests)
        /\ Len(Tail(ingress)) <= IngressCapacity
    BY <1>7, DrainedTypes DEF AdmitRequest, TypeInv
  <2>2. /\ Cardinality(pending) < MaxPending
        /\ pending' = pending \cup {r}
        /\ tracked' = IF tracks THEN kept \cup {new} ELSE tracked
        /\ events' = IF tracks THEN Pushed(Request(c)) ELSE events
    BY <1>7 DEF AdmitRequest, Admits
  <2> HIDE DEF r, c
  <2>3. pending' \subseteq [cmd : Commands, issued : Times]
        /\ IsFiniteSet(pending') /\ Cardinality(pending') <= MaxPending
    <3>1. IsFiniteSet(pending) /\ pending \subseteq [cmd : Commands, issued : Times]
      BY DEF TypeInv, Tables, TableTypes
    <3>2. /\ IsFiniteSet(pending \cup {r}) /\ Cardinality(pending) \in Nat
          /\ Cardinality(pending \cup {r}) \in Nat
          /\ Cardinality(pending \cup {r}) <= Cardinality(pending) + 1
      BY <3>1, OneMore
    <3> QED BY <2>1, <2>2, <3>1, <3>2, Sizes DEF Requests
  <2>4. tracked' \subseteq [cmd : Commands, retries : 0 .. MaxRetries]
    BY <2>1, <2>2, Sizes DEF TypeInv, Tables, TableTypes
  <2>5. IsFiniteSet(tracked') /\ Cardinality(tracked') <= MaxPending
    <3>1. /\ IsFiniteSet(kept) /\ Cardinality(kept) \in Nat
          /\ Cardinality(kept) <= Cardinality(tracked)
          /\ Cardinality(tracked) \in Nat
          /\ IsFiniteSet(tracked) /\ Cardinality(tracked) <= MaxPending
      BY NoMore DEF TypeInv, Tables, TableTypes
    <3>2. /\ IsFiniteSet(kept \cup {new})
          /\ Cardinality(kept \cup {new}) \in Nat
          /\ Cardinality(kept \cup {new}) <= Cardinality(kept) + 1
      BY <3>1, OneMore
    <3>3. CASE TrackedOf(c) # {}
      <4>1. PICK t \in TrackedOf(c) : TRUE
        BY <3>3
      <4>2. kept \subseteq tracked \ {t} /\ t \in tracked
        BY <4>1 DEF TrackedOf
      <4>3. IsFiniteSet(tracked \ {t})
            /\ Cardinality(tracked \ {t}) = Cardinality(tracked) - 1
        BY <3>1, <4>2, FS_RemoveElement
      <4>4. Cardinality(kept) <= Cardinality(tracked) - 1
        BY <4>2, <4>3, NoMore
      <4>5. tracked' = kept \cup {new}
        BY <2>2, <3>3
      <4> QED BY <3>1, <3>2, <4>4, <4>5, Sizes
    <3>4. CASE TrackedOf(c) = {} /\ Cardinality(tracked) < MaxPending
      <4>1. tracked' = kept \cup {new}
        BY <2>2, <3>4
      <4> QED BY <3>1, <3>2, <3>4, <4>1, Sizes
    <3>5. CASE ~ tracks
      BY <2>2, <3>1, <3>5
    <3> QED BY <3>3, <3>4, <3>5
  <2>6. Request(c) \in AllEvents
    BY <2>1 DEF Request, AllEvents, CommandEvents
  <2>7. events' \in Seq(AllEvents) /\ Len(events') <= EventCapacity
    <3>1. events \in Seq(AllEvents) /\ Len(events) <= EventCapacity
      BY DEF TypeInv, QueueTypes, AllEvents, CommandEvents
    <3> QED BY <2>2, <2>6, <3>1, PushedType DEF TypeInv
  <2>11. LoopTypes'
    BY <1>7 DEF AdmitRequest, TypeInv, LoopTypes, loopVars, Times
  <2>12. QueueTypes'
    BY <1>7, <2>1, <2>7 DEF AdmitRequest, TypeInv, QueueTypes, queueVars, Requests, AllEvents, CommandEvents
  <2>13. Tables'
    BY <1>7, <2>3, <2>4, <2>5 DEF AdmitRequest, TypeInv, Tables, TableTypes, tableVars
  <2>14. PastTypes'
    BY <1>7, PastTypesStay DEF AdmitRequest, TypeInv, loopVars, queueVars, tableVars, pastVars
  <2> QED BY <2>11, <2>12, <2>13, <2>14 DEF TypeInv
<1>8. ASSUME DropRequest PROVE TypeInv'
  <2>11. LoopTypes'
    BY <1>8 DEF DropRequest, TypeInv, LoopTypes, loopVars, Times
  <2>12. QueueTypes'
    BY <1>8, DrainedTypes DEF DropRequest, TypeInv, QueueTypes, queueVars, Requests
  <2>13. Tables'
    BY <1>8, TablesStay DEF DropRequest, TypeInv, loopVars, queueVars, tableVars, pastVars
  <2>14. PastTypes'
    BY <1>8, DrainedTypes DEF DropRequest, TypeInv, PastTypes, pastVars
  <2> QED BY <2>11, <2>12, <2>13, <2>14 DEF TypeInv
<1>9. ASSUME RequestsDone PROVE TypeInv'
  <2>11. LoopTypes'
    BY <1>9 DEF RequestsDone, TypeInv, LoopTypes, loopVars, Times
  <2>12. QueueTypes'
    BY <1>9, QueueTypesStay DEF RequestsDone, TypeInv, loopVars, queueVars, tableVars, pastVars
  <2>13. Tables'
    BY <1>9, TablesStay DEF RequestsDone, TypeInv, loopVars, queueVars, tableVars, pastVars
  <2>14. PastTypes'
    BY <1>9, PastTypesStay DEF RequestsDone, TypeInv, loopVars, queueVars, tableVars, pastVars
  <2> QED BY <2>11, <2>12, <2>13, <2>14 DEF TypeInv
<1>10. ASSUME ResolveResult PROVE TypeInv'
  <2>1. PICK p \in PendingOf(Head(results)) :
          /\ pending' = pending \ {p}
          /\ tracked' = tracked \ TrackedOf(p.cmd)
          /\ events' = Pushed(Answered(p.cmd, Head(results)))
          /\ DroppedUnlessRoom(p.cmd)
    BY <1>10 DEF ResolveResult
  <2>2. /\ Head(results) \in Commands /\ Tail(results) \in Seq(Commands)
        /\ Len(Tail(results)) <= ResultCapacity
    BY <1>10, DrainedTypes DEF ResolveResult, TypeInv
  <2>7. p \in [cmd : Commands, issued : Times]
    BY DEF PendingOf, TypeInv, Tables, TableTypes
  <2>8. p.cmd \in Commands
    BY <2>7
  <2>3. Answered(p.cmd, Head(results)) \in AllEvents
    BY <2>2, <2>8 DEF Answered, AllEvents, CommandEvents
  <2>4. events' \in Seq(AllEvents) /\ Len(events') <= EventCapacity
    BY <2>1, <2>3, PushedType DEF TypeInv
  <2>5. /\ IsFiniteSet(pending') /\ Cardinality(pending') <= MaxPending
        /\ IsFiniteSet(tracked') /\ Cardinality(tracked') <= MaxPending
    BY <2>1, NoMore, Sizes DEF TypeInv, Tables, TableTypes
  <2>6. fate' \in [Commands -> {"new", "refused", "accepted", "dropped"}]
    BY <2>1, <2>8 DEF DroppedUnlessRoom, TypeInv, PastTypes
  <2>11. LoopTypes'
    BY <1>10 DEF ResolveResult, TypeInv, LoopTypes, loopVars, Times
  <2>12. QueueTypes'
    BY <1>10, <2>2, <2>4 DEF ResolveResult, TypeInv, QueueTypes, queueVars, AllEvents, CommandEvents
  <2>13. Tables'
    BY <1>10, <2>1, <2>5 DEF ResolveResult, TypeInv, Tables, TableTypes, tableVars
  <2>14. PastTypes'
    BY <1>10, <2>6 DEF ResolveResult, TypeInv, PastTypes, pastVars
  <2> QED BY <2>11, <2>12, <2>13, <2>14 DEF TypeInv
<1>11. ASSUME IgnoreResult PROVE TypeInv'
  <2>11. LoopTypes'
    BY <1>11 DEF IgnoreResult, TypeInv, LoopTypes, loopVars, Times
  <2>12. QueueTypes'
    BY <1>11, DrainedTypes DEF IgnoreResult, TypeInv, QueueTypes, queueVars
  <2>13. Tables'
    BY <1>11, TablesStay DEF IgnoreResult, TypeInv, loopVars, queueVars, tableVars, pastVars
  <2>14. PastTypes'
    BY <1>11, PastTypesStay DEF IgnoreResult, TypeInv, loopVars, queueVars, tableVars, pastVars
  <2> QED BY <2>11, <2>12, <2>13, <2>14 DEF TypeInv
<1>12. ASSUME ResultsDone PROVE TypeInv'
  <2>11. LoopTypes'
    BY <1>12 DEF ResultsDone, TypeInv, LoopTypes, loopVars, Times
  <2>12. QueueTypes'
    BY <1>12, QueueTypesStay DEF ResultsDone, TypeInv, loopVars, queueVars, tableVars, pastVars
  <2>13. Tables'
    BY <1>12, TablesStay DEF ResultsDone, TypeInv, loopVars, queueVars, tableVars, pastVars
  <2>14. PastTypes'
    BY <1>12, PastTypesStay DEF ResultsDone, TypeInv, loopVars, queueVars, tableVars, pastVars
  <2> QED BY <2>11, <2>12, <2>13, <2>14 DEF TypeInv
<1>13. ASSUME SendCommand PROVE TypeInv'
  <2>1. Head(events).cmd \in Commands
    BY <1>13, PoppedType DEF SendCommand, PopEvent, TypeInv, CommandEvents
  <2>11. LoopTypes'
    <3>1. /\ clock' = clock /\ loopNow' = loopNow /\ progress' = FALSE
          /\ processed' = processed + 1
          /\ pc' = "requests" \/ pc' = "tick"
      BY <1>13 DEF SendCommand, PopEvent
    <3>2. processed' \in Nat
      BY <3>1 DEF TypeInv, LoopTypes
    <3>3. pc' \in {"requests", "tick"}
      BY <3>1
    <3> QED BY <3>1, <3>2, <3>3 DEF TypeInv, LoopTypes
  <2>12. QueueTypes'
    BY <1>13, PoppedType DEF SendCommand, PopEvent, TypeInv, QueueTypes, queueVars, AllEvents, CommandEvents
  <2>13. Tables'
    BY <1>13, TablesStay DEF SendCommand, PopEvent, TypeInv, loopVars, queueVars, tableVars, pastVars
  <2>14. PastTypes'
    <3>1. PastTypes
      BY DEF TypeInv
    <3> DEFINE c == Head(events).cmd
    <3>2. /\ attempts' = [attempts EXCEPT ![c] = @ + 1]
          /\ air' = air \/ air' = [air EXCEPT ![c] = @ + 1]
          /\ completed' = completed /\ fate' = fate
      BY <1>13 DEF SendCommand, PopEvent
    <3>3. c \in Commands
      BY <2>1
    <3> HIDE DEF c
    <3>4. attempts' \in [Commands -> Nat] /\ completed' \in [Commands -> Nat]
      BY <3>1, <3>2, <3>3 DEF PastTypes
    <3>5. air' \in [Commands -> Nat]
      BY <3>1, <3>2, <3>3 DEF PastTypes
    <3> QED BY <3>1, <3>2, <3>4, <3>5 DEF PastTypes
  <2> QED BY <2>11, <2>12, <2>13, <2>14 DEF TypeInv
<1>14. ASSUME CompleteCommand PROVE TypeInv'
  <2>1. Head(events).cmd \in Commands
    BY <1>14, PoppedType DEF CompleteCommand, PopEvent, TypeInv, CommandEvents
  <2>11. LoopTypes'
    <3>1. /\ clock' = clock /\ loopNow' = loopNow /\ progress' = FALSE
          /\ processed' = processed + 1
          /\ pc' = "requests" \/ pc' = "tick"
      BY <1>14 DEF CompleteCommand, PopEvent
    <3>2. processed' \in Nat
      BY <3>1 DEF TypeInv, LoopTypes
    <3>3. pc' \in {"requests", "tick"}
      BY <3>1
    <3> QED BY <3>1, <3>2, <3>3 DEF TypeInv, LoopTypes
  <2>12. QueueTypes'
    BY <1>14, PoppedType DEF CompleteCommand, PopEvent, TypeInv, QueueTypes, queueVars, AllEvents, CommandEvents
  <2>13. Tables'
    BY <1>14, TablesStay DEF CompleteCommand, PopEvent, TypeInv, loopVars, queueVars, tableVars, pastVars
  <2>14. PastTypes'
    BY <1>14, <2>1 DEF CompleteCommand, PopEvent, TypeInv, PastTypes, pastVars
  <2> QED BY <2>11, <2>12, <2>13, <2>14 DEF TypeInv
<1>15. ASSUME ProcessOther PROVE TypeInv'
  <2>11. LoopTypes'
    <3>1. /\ clock' = clock /\ loopNow' = loopNow /\ progress' = FALSE
          /\ processed' = processed + 1
          /\ pc' = "requests" \/ pc' = "tick"
      BY <1>15 DEF ProcessOther, PopEvent
    <3>2. processed' \in Nat
      BY <3>1 DEF TypeInv, LoopTypes
    <3>3. pc' \in {"requests", "tick"}
      BY <3>1
    <3> QED BY <3>1, <3>2, <3>3 DEF TypeInv, LoopTypes
  <2>12. QueueTypes'
    BY <1>15, PoppedType DEF ProcessOther, PopEvent, TypeInv, QueueTypes, queueVars, AllEvents, CommandEvents
  <2>13. Tables'
    BY <1>15, TablesStay DEF ProcessOther, PopEvent, TypeInv, loopVars, queueVars, tableVars, pastVars
  <2>14. PastTypes'
    BY <1>15, PastTypesStay DEF ProcessOther, PopEvent, TypeInv, loopVars, queueVars, tableVars, pastVars
  <2> QED BY <2>11, <2>12, <2>13, <2>14 DEF TypeInv
<1>16. ASSUME NoEvent PROVE TypeInv'
  <2>11. LoopTypes'
    BY <1>16 DEF NoEvent, TypeInv, LoopTypes, loopVars, Times
  <2>12. QueueTypes'
    BY <1>16, QueueTypesStay DEF NoEvent, TypeInv, loopVars, queueVars, tableVars, pastVars
  <2>13. Tables'
    BY <1>16, TablesStay DEF NoEvent, TypeInv, loopVars, queueVars, tableVars, pastVars
  <2>14. PastTypes'
    BY <1>16, PastTypesStay DEF NoEvent, TypeInv, loopVars, queueVars, tableVars, pastVars
  <2> QED BY <2>11, <2>12, <2>13, <2>14 DEF TypeInv
<1>17. ASSUME ExpireTimeouts PROVE TypeInv'
  <2>1. pending' \subseteq pending /\ expired' \subseteq Commands
    BY <1>17 DEF ExpireTimeouts, TypeInv, Tables, TableTypes
  <2>2. IsFiniteSet(pending') /\ Cardinality(pending') <= MaxPending
    BY <2>1, NoMore, Sizes DEF TypeInv, Tables, TableTypes
  <2>11. LoopTypes'
    BY <1>17 DEF ExpireTimeouts, TypeInv, LoopTypes, loopVars, Times
  <2>12. QueueTypes'
    BY <1>17, QueueTypesStay DEF ExpireTimeouts, TypeInv, loopVars, queueVars, tableVars, pastVars
  <2>13. Tables'
    BY <1>17, <2>1, <2>2 DEF ExpireTimeouts, TypeInv, Tables, TableTypes, tableVars
  <2>14. PastTypes'
    BY <1>17, PastTypesStay DEF ExpireTimeouts, TypeInv, loopVars, queueVars, tableVars, pastVars
  <2> QED BY <2>11, <2>12, <2>13, <2>14 DEF TypeInv
<1>18. ASSUME NEW c \in Commands, HandleTimeout(c) PROVE TypeInv'
  <2> DEFINE G == /\ events' \in Seq(AllEvents) /\ Len(events') <= EventCapacity
                  /\ Tables'
                  /\ fate' \in [Commands -> {"new", "refused", "accepted", "dropped"}]
  <2>1. ASSUME Retry(c) PROVE G
    <3>1. PICK t \in TrackedOf(c) :
            /\ t.retries > 0
            /\ Admits(c)
            /\ pending' = pending \cup {[cmd |-> t.cmd, issued |-> loopNow]}
            /\ tracked' = (tracked \ {t})
                 \cup IF Room THEN {[t EXCEPT !.retries = @ - 1]} ELSE {}
            /\ events' = Pushed(Request(t.cmd))
            /\ UNCHANGED fate
      BY <2>1 DEF Retry
    <3> DEFINE p == [cmd |-> t.cmd, issued |-> loopNow]
               u == [t EXCEPT !.retries = @ - 1]
    <3>2. t \in [cmd : Commands, retries : 0 .. MaxRetries] /\ t \in tracked
      BY DEF TrackedOf, TypeInv, Tables, TableTypes
    <3>3. /\ p \in [cmd : Commands, issued : Times]
          /\ u \in [cmd : Commands, retries : 0 .. MaxRetries]
          /\ t.cmd \in Commands
      BY <3>1, <3>2, Sizes DEF TypeInv, LoopTypes
    <3> HIDE DEF p, u
    <3>4. /\ pending' \subseteq [cmd : Commands, issued : Times]
          /\ IsFiniteSet(pending') /\ Cardinality(pending') <= MaxPending
      <4>1. /\ pending' = pending \cup {p} /\ Cardinality(pending) < MaxPending
            /\ IsFiniteSet(pending)
            /\ pending \subseteq [cmd : Commands, issued : Times]
        BY <3>1 DEF p, Admits, TypeInv, Tables, TableTypes
      <4>2. /\ IsFiniteSet(pending \cup {p}) /\ Cardinality(pending) \in Nat
            /\ Cardinality(pending \cup {p}) \in Nat
            /\ Cardinality(pending \cup {p}) <= Cardinality(pending) + 1
        BY <4>1, OneMore
      <4> QED BY <3>3, <4>1, <4>2, Sizes
    <3>5. /\ IsFiniteSet(tracked \ {t}) /\ IsFiniteSet(tracked)
          /\ Cardinality(tracked \ {t}) = Cardinality(tracked) - 1
          /\ Cardinality(tracked) \in Nat /\ Cardinality(tracked) <= MaxPending
      BY <3>2, FS_RemoveElement, FS_CardinalityType
         DEF TypeInv, Tables, TableTypes
    <3>6. /\ tracked' \subseteq [cmd : Commands, retries : 0 .. MaxRetries]
          /\ IsFiniteSet(tracked') /\ Cardinality(tracked') <= MaxPending
      <4>1. CASE Room
        <5>1. tracked' = (tracked \ {t}) \cup {u}
          BY <3>1, <4>1 DEF u
        <5>2. /\ IsFiniteSet((tracked \ {t}) \cup {u})
              /\ Cardinality((tracked \ {t}) \cup {u}) \in Nat
              /\ Cardinality((tracked \ {t}) \cup {u})
                   <= Cardinality(tracked \ {t}) + 1
          BY <3>5, OneMore
        <5> QED BY <3>3, <3>5, <5>1, <5>2, Sizes DEF TypeInv, Tables, TableTypes
      <4>2. CASE ~ Room
        <5>1. tracked' = tracked \ {t}
          BY <3>1, <4>2
        <5> QED BY <3>5, <5>1, Sizes DEF TypeInv, Tables, TableTypes
      <4> QED BY <4>1, <4>2
    <3>7. Request(t.cmd) \in AllEvents
      BY <3>3 DEF Request, AllEvents, CommandEvents
    <3>8. events' \in Seq(AllEvents) /\ Len(events') <= EventCapacity
      BY <3>1, <3>7, PushedType DEF TypeInv
    <3> QED BY <1>18, <3>1, <3>4, <3>6, <3>8
          DEF HandleTimeout, TypeInv, Tables, TableTypes, PastTypes
  <2>2. ASSUME GiveUp(c) PROVE G
    <3>1. /\ tracked' = tracked \ TrackedOf(c) /\ UNCHANGED pending
          /\ events' = Pushed(TimedOut(c)) /\ DroppedUnlessRoom(c)
      BY <2>2 DEF GiveUp
    <3>2. IsFiniteSet(tracked') /\ Cardinality(tracked') <= MaxPending
      BY <3>1, NoMore, Sizes DEF TypeInv, Tables, TableTypes
    <3>3. TimedOut(c) \in AllEvents
      BY DEF TimedOut, AllEvents, CommandEvents
    <3>4. events' \in Seq(AllEvents) /\ Len(events') <= EventCapacity
      BY <3>1, <3>3, PushedType DEF TypeInv
    <3>5. fate' \in [Commands -> {"new", "refused", "accepted", "dropped"}]
      BY <3>1 DEF DroppedUnlessRoom, TypeInv, PastTypes
    <3> QED BY <1>18, <3>1, <3>2, <3>4, <3>5
          DEF HandleTimeout, TypeInv, Tables, TableTypes
  <2>3. Retry(c) \/ GiveUp(c)
    BY <1>18 DEF HandleTimeout
  <2>6. events' \in Seq(AllEvents) /\ Len(events') <= EventCapacity
    BY <2>1, <2>2, <2>3
  <2>7. Tables'
    BY <2>1, <2>2, <2>3
  <2>8. fate' \in [Commands -> {"new", "refused", "accepted", "dropped"}]
    BY <2>1, <2>2, <2>3
  <2>11. LoopTypes'
    BY <1>18, LoopTypesStay DEF HandleTimeout, TypeInv, loopVars, queueVars, tableVars, pastVars
  <2>12. QueueTypes'
    BY <1>18, <2>6 DEF HandleTimeout, TypeInv, QueueTypes, queueVars, AllEvents, CommandEvents
  <2>13. Tables'
    BY <1>18, <2>7 DEF HandleTimeout, TypeInv, Tables, TableTypes, tableVars
  <2>14. PastTypes'
    BY <1>18, <2>8 DEF HandleTimeout, TypeInv, PastTypes, pastVars
  <2> QED BY <2>11, <2>12, <2>13, <2>14 DEF TypeInv
<1>19. ASSUME EndLoop PROVE TypeInv'
  <2>11. LoopTypes'
    BY <1>19 DEF EndLoop, TypeInv, LoopTypes, loopVars, Times
  <2>12. QueueTypes'
    BY <1>19, QueueTypesStay DEF EndLoop, TypeInv, loopVars, queueVars, tableVars, pastVars
  <2>13. Tables'
    BY <1>19, TablesStay DEF EndLoop, TypeInv, loopVars, queueVars, tableVars, pastVars
  <2>14. PastTypes'
    BY <1>19, PastTypesStay DEF EndLoop, TypeInv, loopVars, queueVars, tableVars, pastVars
  <2> QED BY <2>11, <2>12, <2>13, <2>14 DEF TypeInv
<1>20. ASSUME UNCHANGED vars PROVE TypeInv'
  <2>11. LoopTypes'
    BY <1>20, LoopTypesStay DEF vars, TypeInv, loopVars, queueVars, tableVars, pastVars
  <2>12. QueueTypes'
    BY <1>20, QueueTypesStay DEF vars, TypeInv, loopVars, queueVars, tableVars, pastVars
  <2>13. Tables'
    BY <1>20, TablesStay DEF vars, TypeInv, loopVars, queueVars, tableVars, pastVars
  <2>14. PastTypes'
    BY <1>20, PastTypesStay DEF vars, TypeInv, loopVars, queueVars, tableVars, pastVars
  <2> QED BY <2>11, <2>12, <2>13, <2>14 DEF TypeInv
<1> QED BY <1>1, <1>2, <1>3, <1>4, <1>5, <1>6, <1>7, <1>8, <1>9, <1>10, <1>11, <1>12, <1>13, <1>14, <1>15, <1>16, <1>17, <1>18, <1>19, <1>20
      DEF Next, RuntimeTask, Environment

\* Every variable has its type, and no queue or table exceeds its capacity.
THEOREM TypeCorrect == Spec => []TypeOK
<1>1. TypeInv => TypeOK
  BY DEF TypeInv, TypeOK, Tables
<1> QED BY <1>1, InitType, NextType, PTL DEF Spec

-----------------------------------------------------------------------------
(* Correlation ids: among the commands the dispatcher waits for or has just *)
(* expired, and among the tracked ones, no two share an id.                 *)

PendingIds == \A p, q \in pending : SameId(p.cmd, q.cmd) => p = q
ExpiredIds ==
    /\ \A c, d \in expired : SameId(c, d) => c = d
    /\ \A p \in pending, c \in expired : ~ SameId(p.cmd, c)
TrackedIds == \A t, u \in tracked : SameId(t.cmd, u.cmd) => t = u
ExpiredOnlyInTick == pc # "timeouts" => expired = {}

IdInv == /\ PendingIds /\ ExpiredIds /\ TrackedIds
         /\ ExpiredOnlyInTick /\ TrackedIsPending

LEMMA InitIds == Init => IdInv
  BY DEF Init, IdInv, PendingIds, ExpiredIds, TrackedIds, ExpiredOnlyInTick,
     TrackedIsPending

LEMMA IdsStay ==
    IdInv /\ UNCHANGED tableVars /\ (pc' = "timeouts" => pc = "timeouts")
          /\ (pc = "timeouts" => pc' = "timeouts" \/ expired = {})
      => IdInv'
  BY DEF IdInv, PendingIds, ExpiredIds, TrackedIds, ExpiredOnlyInTick,
     TrackedIsPending, IsPending, SameId, tableVars

\* A command that is re-submitted is the one whose timeout is handled, also
\* when other commands were given the same correlation id.
LEMMA RetriedIsExpired ==
    ASSUME IdInv, NEW c, c \in expired, NEW t \in TrackedOf(c), Admits(c)
    PROVE  t.cmd = c /\ \A u \in tracked : SameId(u.cmd, c) => u = t
<1>1. t \in tracked /\ SameId(t.cmd, c)
  BY DEF TrackedOf
<1>2. ~ IsPending(t.cmd)
  <2> SUFFICES ASSUME NEW p \in pending, p.cmd = t.cmd PROVE FALSE
    BY DEF IsPending
  <2>1. p \in PendingOf(c)
    BY <1>1 DEF PendingOf, SameId
  <2> QED BY <2>1 DEF Admits
<1>3. t.cmd \in expired
  BY <1>1, <1>2 DEF IdInv, TrackedIsPending
<1>4. t.cmd = c
  BY <1>1, <1>3 DEF IdInv, ExpiredIds
<1> QED BY <1>1, <1>4 DEF IdInv, TrackedIds, SameId

LEMMA NextIds == TypeInv /\ IdInv /\ [Next]_vars => IdInv'
<1> SUFFICES ASSUME TypeInv, IdInv, [Next]_vars PROVE IdInv'
  OBVIOUS
<1>1. ASSUME NEW c \in Commands, PostAccepted(c) \/ PostRefused(c) \/ Reply(c)
      PROVE  IdInv'
  BY <1>1, IdsStay DEF PostAccepted, PostRefused, Reply, loopVars, tableVars
<1>2. ASSUME PushOther \/ Advance PROVE IdInv'
  BY <1>2, IdsStay DEF PushOther, Advance, loopVars, tableVars
<1>3. ASSUME BeginLoop \/ DropRequest \/ RequestsDone \/ IgnoreResult
             \/ ResultsDone \/ NoEvent
      PROVE  IdInv'
  BY <1>3, IdsStay DEF BeginLoop, DropRequest, RequestsDone, IgnoreResult,
     ResultsDone, NoEvent, tableVars
<1>4. ASSUME SendCommand \/ CompleteCommand \/ ProcessOther PROVE IdInv'
  BY <1>4, IdsStay DEF SendCommand, CompleteCommand, ProcessOther, PopEvent,
     tableVars
<1>5. ASSUME AdmitRequest PROVE IdInv'
  <2> DEFINE r == Head(ingress)
             new == [cmd |-> r.cmd, retries |-> MaxRetries]
  <2>1. /\ PendingOf(r.cmd) = {} /\ expired = {} /\ expired' = {}
        /\ pending' = pending \cup {r}
        /\ \/ tracked' = (tracked \ TrackedOf(r.cmd)) \cup {new}
           \/ tracked' = tracked
    BY <1>5 DEF AdmitRequest, Admits, IdInv, ExpiredOnlyInTick
  <2>2. \A p \in pending : ~ SameId(p.cmd, r.cmd)
    BY <2>1 DEF PendingOf
  <2>3. PendingIds'
    BY <2>1, <2>2 DEF IdInv, PendingIds, SameId
  <2>4. TrackedIds'
    BY <2>1 DEF IdInv, TrackedIds, TrackedOf, SameId
  <2>5. TrackedIsPending'
    BY <2>1 DEF IdInv, TrackedIsPending, IsPending
  <2> QED BY <2>1, <2>3, <2>4, <2>5 DEF IdInv, ExpiredIds, ExpiredOnlyInTick
<1>6. ASSUME ResolveResult PROVE IdInv'
  <2>1. PICK p \in PendingOf(Head(results)) :
          /\ pending' = pending \ {p}
          /\ tracked' = tracked \ TrackedOf(p.cmd)
    BY <1>6 DEF ResolveResult
  <2>2. expired = {} /\ expired' = {} /\ p \in pending
    BY <1>6 DEF ResolveResult, IdInv, ExpiredOnlyInTick, PendingOf
  <2>3. TrackedIsPending'
    <3> SUFFICES ASSUME NEW t \in tracked' PROVE \E q \in pending' : q.cmd = t.cmd
      BY DEF TrackedIsPending, IsPending
    <3>1. t \in tracked /\ ~ SameId(t.cmd, p.cmd)
      BY <2>1 DEF TrackedOf
    <3>2. PICK q \in pending : q.cmd = t.cmd
      BY <2>2, <3>1 DEF IdInv, TrackedIsPending, IsPending
    <3>3. q # p
      BY <3>1, <3>2 DEF SameId
    <3> QED BY <2>1, <3>2, <3>3
  <2> QED BY <2>1, <2>2, <2>3
        DEF IdInv, PendingIds, ExpiredIds, TrackedIds, ExpiredOnlyInTick
<1>7. ASSUME ExpireTimeouts PROVE IdInv'
  <2>1. /\ expired' = {p.cmd : p \in {q \in pending : Overdue(q)}}
        /\ pending' = {p \in pending : ~ Overdue(p)}
        /\ pc' = "timeouts" /\ tracked' = tracked /\ expired = {}
    BY <1>7 DEF ExpireTimeouts, IdInv, ExpiredOnlyInTick
  <2>2. PendingIds' /\ TrackedIds' /\ ExpiredOnlyInTick'
    BY <2>1 DEF IdInv, PendingIds, TrackedIds, ExpiredOnlyInTick
  <2>3. ExpiredIds'
    <3>1. \A c \in expired' : \E p \in pending : p.cmd = c /\ Overdue(p)
      BY <2>1
    <3>2. \A p \in pending' : p \in pending /\ ~ Overdue(p)
      BY <2>1
    <3> QED BY <3>1, <3>2 DEF IdInv, PendingIds, ExpiredIds, SameId
  <2>4. TrackedIsPending'
    <3> SUFFICES ASSUME NEW t \in tracked'
                 PROVE  IsPending(t.cmd)' \/ t.cmd \in expired'
      BY DEF TrackedIsPending
    <3>1. PICK p \in pending : p.cmd = t.cmd
      BY <2>1 DEF IdInv, TrackedIsPending, IsPending
    <3>2. CASE Overdue(p)
      BY <2>1, <3>1, <3>2
    <3>3. CASE ~ Overdue(p)
      <4>1. p \in pending'
        BY <2>1, <3>3
      <4> QED BY <3>1, <4>1 DEF IsPending
    <3> QED BY <3>2, <3>3
  <2> QED BY <2>2, <2>3, <2>4 DEF IdInv
<1>8. ASSUME NEW c \in Commands, HandleTimeout(c) PROVE IdInv'
  <2>1. /\ pc = "timeouts" /\ pc' = "timeouts" /\ c \in expired
        /\ expired' = expired \ {c}
    BY <1>8 DEF HandleTimeout, loopVars
  <2>2. CASE Retry(c)
    <3>1. PICK t \in TrackedOf(c) :
            /\ Admits(c)
            /\ pending' = pending \cup {[cmd |-> t.cmd, issued |-> loopNow]}
            /\ tracked' = (tracked \ {t})
                 \cup IF Room THEN {[t EXCEPT !.retries = @ - 1]} ELSE {}
      BY <2>2 DEF Retry
    <3> DEFINE p == [cmd |-> t.cmd, issued |-> loopNow]
               u == [t EXCEPT !.retries = @ - 1]
    <3>2. /\ t.cmd = c /\ t \in tracked
          /\ \A v \in tracked : SameId(v.cmd, c) => v = t
      BY <2>1, <3>1, RetriedIsExpired DEF TrackedOf
    <3>3. p.cmd = c /\ (u.cmd = c /\ t \in [cmd : Commands, retries : 0 .. MaxRetries])
      BY <3>2 DEF TypeInv, Tables, TableTypes
    <3>4. /\ pending' = pending \cup {p}
          /\ \A v \in tracked' : v \in tracked \ {t} \/ v = u
      BY <3>1
    <3> HIDE DEF p, u
    <3>5. \A q \in pending : ~ SameId(q.cmd, c)
      BY <3>1 DEF Admits, PendingOf
    <3>6. PendingIds'
      BY <3>3, <3>4, <3>5 DEF IdInv, PendingIds, SameId
    <3>7. ExpiredIds'
      BY <2>1, <3>3, <3>4 DEF IdInv, ExpiredIds, SameId
    <3>8. TrackedIds'
      BY <3>2, <3>3, <3>4 DEF IdInv, TrackedIds, SameId
    <3>9. TrackedIsPending'
      <4> SUFFICES ASSUME NEW v \in tracked'
                   PROVE  IsPending(v.cmd)' \/ v.cmd \in expired'
        BY DEF TrackedIsPending
      <4>1. CASE v.cmd = c
        BY <3>3, <3>4, <4>1 DEF IsPending
      <4>2. CASE v.cmd # c
        <5>1. v \in tracked
          BY <3>3, <3>4, <4>2
        <5> QED BY <2>1, <3>4, <4>2, <5>1 DEF IdInv, TrackedIsPending, IsPending
      <4> QED BY <4>1, <4>2
    <3> QED BY <2>1, <3>6, <3>7, <3>8, <3>9 DEF IdInv, ExpiredOnlyInTick
  <2>3. CASE GiveUp(c)
    <3>1. tracked' = tracked \ TrackedOf(c) /\ pending' = pending
      BY <2>3 DEF GiveUp
    <3>2. TrackedIsPending'
      BY <2>1, <3>1 DEF IdInv, TrackedIsPending, IsPending, TrackedOf, SameId
    <3> QED BY <2>1, <3>1, <3>2
          DEF IdInv, PendingIds, ExpiredIds, TrackedIds, ExpiredOnlyInTick
  <2> QED BY <1>8, <2>2, <2>3 DEF HandleTimeout
<1>9. ASSUME EndLoop PROVE IdInv'
  BY <1>9, IdsStay DEF EndLoop, tableVars
<1>10. ASSUME UNCHANGED vars PROVE IdInv'
  BY <1>10, IdsStay DEF vars, loopVars, tableVars
<1> QED BY <1>1, <1>2, <1>3, <1>4, <1>5, <1>6, <1>7, <1>8, <1>9, <1>10
      DEF Next, RuntimeTask, Environment

\* A tracked entry never outlives the dispatcher's.
THEOREM TrackingFollowsDispatcher == Spec => []TrackedIsPending
<1>1. IdInv => TrackedIsPending
  BY DEF IdInv
<1> QED BY <1>1, InitType, NextType, InitIds, NextIds, PTL DEF Spec

-----------------------------------------------------------------------------
(* Stages: an accepted command is at exactly one.                           *)

QueuedOf(c) == {r \in Requests : r.cmd = c}
CompletionsOf(c) ==
    {e \in CommandEvents : e.kind \in {"answered", "timeout"} /\ e.cmd = c}

InIngress(c)   == Some(ingress, QueuedOf(c))
IsExpired(c)   == c \in expired
IsAnswered(c)  == Some(events, CompletionsOf(c))
IsCompleted(c) == completed[c] = 1

AtNone(c) == /\ ~ InIngress(c) /\ ~ IsPending(c) /\ ~ IsExpired(c)
             /\ ~ IsAnswered(c) /\ ~ IsCompleted(c)
AtOne(c) ==
    /\ InIngress(c) \/ IsPending(c) \/ IsExpired(c) \/ IsAnswered(c)
       \/ IsCompleted(c)
    /\ InIngress(c) => ~ IsPending(c) /\ ~ IsExpired(c) /\ ~ IsAnswered(c)
                       /\ ~ IsCompleted(c)
    /\ IsPending(c) => ~ IsExpired(c) /\ ~ IsAnswered(c) /\ ~ IsCompleted(c)
    /\ IsExpired(c) => ~ IsAnswered(c) /\ ~ IsCompleted(c)
    /\ IsAnswered(c) => ~ IsCompleted(c)

Unique(c) == /\ AtMost(ingress, QueuedOf(c))
             /\ AtMost(events, CompletionsOf(c))
             /\ completed[c] \in {0, 1}

StageOf(c) == /\ Unique(c)
              /\ fate[c] = "accepted" => AtOne(c)
              /\ fate[c] # "accepted" => AtNone(c)

StageInv == \A c \in Commands : StageOf(c)

\* What pushing an event does to the completions in the queue.
LEMMA PushedStage ==
    ASSUME QueueTypes, NEW e \in AllEvents, NEW c, AtMost(events, CompletionsOf(c)),
           e \in CompletionsOf(c) => ~ IsAnswered(c)
    PROVE  /\ Some(Pushed(e), CompletionsOf(c))
                <=> IsAnswered(c) \/ (Room /\ e \in CompletionsOf(c))
           /\ AtMost(Pushed(e), CompletionsOf(c))
<1>1. events \in Seq(AllEvents)
  BY DEF QueueTypes, AllEvents, CommandEvents
<1>2. CASE Room
  BY <1>1, <1>2, SomeAppend, AtMostAppend DEF Pushed, IsAnswered
<1>3. CASE ~ Room
  BY <1>3 DEF Pushed, IsAnswered
<1> QED BY <1>2, <1>3

\* Which events are completions.
LEMMA WhichComplete ==
    ASSUME NEW c \in Commands, NEW d \in Commands, NEW a \in Commands
    PROVE  /\ Request(c) \in AllEvents /\ Request(c) \notin CompletionsOf(d)
           /\ OtherEvent \in AllEvents /\ OtherEvent \notin CompletionsOf(d)
           /\ Answered(c, a) \in AllEvents
           /\ Answered(c, a) \in CompletionsOf(d) <=> c = d
           /\ TimedOut(c) \in AllEvents
           /\ TimedOut(c) \in CompletionsOf(d) <=> c = d
<1>1. OtherEvent \notin CommandEvents
  BY DEF OtherEvent, CommandEvents
<1> QED BY <1>1 DEF AllEvents, CommandEvents, CompletionsOf, Request, Answered,
      TimedOut

\* What draining a request and popping an event do.
LEMMA DrainedStage ==
    ASSUME QueueTypes, ingress # <<>>, NEW d \in Commands,
           AtMost(ingress, QueuedOf(d))
    PROVE  /\ AtMost(Tail(ingress), QueuedOf(d))
           /\ Some(Tail(ingress), QueuedOf(d))
                <=> InIngress(d) /\ d # Head(ingress).cmd
           /\ InIngress(Head(ingress).cmd)
<1>1. ingress \in Seq(Requests) /\ Head(ingress) \in Requests
  BY DrainedTypes DEF QueueTypes, Requests
<1>2. \A c : Head(ingress) \in QueuedOf(c) <=> Head(ingress).cmd = c
  BY <1>1 DEF QueuedOf
<1>3. /\ AtMost(Tail(ingress), QueuedOf(d))
      /\ Head(ingress) \in QueuedOf(d) => ~ Some(Tail(ingress), QueuedOf(d))
  BY <1>1, AtMostTail
<1>4. \A c : InIngress(c) <=> \/ Head(ingress) \in QueuedOf(c)
                              \/ Some(Tail(ingress), QueuedOf(c))
  BY <1>1, SomeTail DEF InIngress
<1> QED BY <1>2, <1>3, <1>4

LEMMA PoppedStage ==
    ASSUME QueueTypes, events # <<>>, NEW d \in Commands,
           AtMost(events, CompletionsOf(d))
    PROVE  /\ AtMost(Tail(events), CompletionsOf(d))
           /\ IsAnswered(d) <=> \/ Head(events) \in CompletionsOf(d)
                                \/ Some(Tail(events), CompletionsOf(d))
           /\ Head(events) \in CompletionsOf(d)
                => ~ Some(Tail(events), CompletionsOf(d))
<1>1. events \in Seq(AllEvents)
  BY DEF QueueTypes, AllEvents, CommandEvents
<1> QED BY <1>1, SomeTail, AtMostTail DEF IsAnswered

LEMMA InitStages == Init => StageInv
<1> SUFFICES ASSUME Init, NEW c \in Commands PROVE StageOf(c)
  BY DEF StageInv
<1>1. AtMost(<<>>, QueuedOf(c)) /\ AtMost(<<>>, CompletionsOf(c))
      /\ ~ Some(<<>>, QueuedOf(c)) /\ ~ Some(<<>>, CompletionsOf(c))
  BY DEF AtMost, Some
<1> QED BY <1>1 DEF Init, StageOf, Unique, AtNone, InIngress, IsPending,
      IsExpired, IsAnswered, IsCompleted

\* What the stage of a command depends on.
stageVars == <<ingress, events, pending, expired, fate, completed>>

LEMMA StagesStay ==
    ASSUME NEW d \in Commands, StageOf(d), UNCHANGED stageVars
    PROVE  StageOf(d)'
  BY DEF stageVars, StageOf, Unique, AtOne, AtNone, InIngress, IsPending,
     IsExpired, IsAnswered, IsCompleted

LEMMA NextStages ==
    TypeInv /\ IdInv /\ StageInv /\ [Next]_vars => StageInv'
<1> SUFFICES ASSUME TypeInv, IdInv, StageInv, [Next]_vars, NEW d \in Commands
             PROVE  StageOf(d)'
  BY DEF StageInv
<1>0. StageOf(d) /\ QueueTypes
  BY DEF StageInv, TypeInv
<1> USE DEF StageOf, Unique
<1>1. ASSUME NEW c \in Commands, PostAccepted(c) PROVE StageOf(d)'
  <2> DEFINE r == [cmd |-> c, issued |-> clock]
  <2>1. /\ ingress' = Append(ingress, r) /\ fate[c] = "new"
        /\ fate' = [fate EXCEPT ![c] = "accepted"]
        /\ UNCHANGED <<events, pending, expired, completed>>
    BY <1>1 DEF PostAccepted, tableVars
  <2>2. r \in Requests /\ ingress \in Seq(Requests)
        /\ (r \in QueuedOf(d) <=> c = d)
    BY DEF TypeInv, LoopTypes, QueueTypes, Requests, QueuedOf
  <2> HIDE DEF r
  <2>3. InIngress(d)' <=> InIngress(d) \/ c = d
    BY <2>1, <2>2, SomeAppend DEF InIngress
  <2>4. c = d => AtNone(d)
    BY <1>0, <2>1
  <2>5. AtMost(ingress', QueuedOf(d))
    BY <1>0, <2>1, <2>2, <2>4, AtMostAppend DEF AtNone, InIngress
  <2>6. fate'[d] = IF c = d THEN "accepted" ELSE fate[d]
    BY <2>1 DEF TypeInv, PastTypes
  <2>7. /\ IsPending(d)' <=> IsPending(d)
        /\ IsExpired(d)' <=> IsExpired(d)
        /\ IsAnswered(d)' <=> IsAnswered(d)
        /\ IsCompleted(d)' <=> IsCompleted(d)
    BY <2>1 DEF IsPending, IsExpired, IsAnswered, IsCompleted
  <2>8. Unique(d)'
    BY <1>0, <2>1, <2>5
  <2> QED BY <1>0, <2>3, <2>4, <2>6, <2>7, <2>8 DEF AtNone, AtOne
<1>2. ASSUME NEW c \in Commands, PostRefused(c) PROVE StageOf(d)'
  <2>1. /\ UNCHANGED <<ingress, events, pending, expired, completed>>
        /\ fate[c] = "new" /\ fate' = [fate EXCEPT ![c] = "refused"]
    BY <1>2 DEF PostRefused, queueVars, tableVars
  <2>2. fate'[d] = IF c = d THEN "refused" ELSE fate[d]
    BY <2>1 DEF TypeInv, PastTypes
  <2> QED BY <1>0, <2>1, <2>2 DEF AtOne, AtNone, InIngress, IsPending,
        IsExpired, IsAnswered, IsCompleted
<1>3. ASSUME NEW c \in Commands, Reply(c) PROVE StageOf(d)'
  BY <1>0, <1>3, StagesStay DEF Reply, stageVars, tableVars, pastVars
<1>4. ASSUME PushOther PROVE StageOf(d)'
  <2>1. /\ UNCHANGED <<ingress, pending, expired, fate, completed>>
        /\ events' = Pushed(OtherEvent)
    BY <1>4 DEF PushOther, tableVars, pastVars
  <2>2. (IsAnswered(d)' <=> IsAnswered(d)) /\ AtMost(events', CompletionsOf(d))
    BY <1>0, <2>1, WhichComplete, PushedStage DEF IsAnswered
  <2> QED BY <1>0, <2>1, <2>2 DEF AtOne, AtNone, InIngress, IsPending,
        IsExpired, IsCompleted
<1>5. ASSUME Advance PROVE StageOf(d)'
  BY <1>0, <1>5, StagesStay DEF Advance, stageVars, queueVars, tableVars, pastVars
<1>6. ASSUME BeginLoop \/ RequestsDone \/ ResultsDone \/ NoEvent \/ EndLoop
             \/ IgnoreResult
      PROVE  StageOf(d)'
  BY <1>0, <1>6, StagesStay DEF BeginLoop, RequestsDone, ResultsDone, NoEvent,
     EndLoop, IgnoreResult, stageVars, queueVars, tableVars, pastVars
<1>7. ASSUME AdmitRequest PROVE StageOf(d)'
  <2> DEFINE r == Head(ingress)
             c == r.cmd
  <2>1. /\ ingress # <<>> /\ ingress' = Tail(ingress)
        /\ pending' = pending \cup {r}
        /\ events' = Pushed(Request(c)) \/ events' = events
        /\ UNCHANGED <<expired, fate, completed>>
    BY <1>7 DEF AdmitRequest, pastVars
  <2>2. c \in Commands /\ InIngress(c) /\ AtMost(ingress', QueuedOf(d))
        /\ (InIngress(d)' <=> InIngress(d) /\ d # c)
    BY <1>0, <2>1, DrainedTypes, DrainedStage DEF InIngress
  <2>3. IsPending(d)' <=> IsPending(d) \/ d = c
    BY <2>1 DEF IsPending
  <2>4. (IsAnswered(d)' <=> IsAnswered(d)) /\ AtMost(events', CompletionsOf(d))
    BY <1>0, <2>1, <2>2, WhichComplete, PushedStage DEF IsAnswered
  <2> HIDE DEF c
  <2>5. /\ IsExpired(d)' <=> IsExpired(d)
        /\ IsCompleted(d)' <=> IsCompleted(d)
        /\ fate'[d] = fate[d] /\ completed'[d] = completed[d]
    BY <2>1 DEF IsExpired, IsCompleted
  <2>6. d = c => fate[d] = "accepted"
    BY <1>0, <2>2 DEF AtNone
  <2> QED BY <1>0, <2>2, <2>3, <2>4, <2>5, <2>6 DEF AtOne, AtNone
<1>8. ASSUME DropRequest PROVE StageOf(d)'
  <2> DEFINE c == Head(ingress).cmd
  <2>1. /\ ingress # <<>> /\ ingress' = Tail(ingress)
        /\ fate' = [fate EXCEPT ![c] = "dropped"]
        /\ UNCHANGED <<events, pending, expired, completed>>
    BY <1>8 DEF DropRequest, tableVars
  <2>2. c \in Commands /\ InIngress(c) /\ AtMost(ingress', QueuedOf(d))
        /\ (InIngress(d)' <=> InIngress(d) /\ d # c)
    BY <1>0, <2>1, DrainedTypes, DrainedStage DEF InIngress
  <2> HIDE DEF c
  <2>3. fate'[d] = IF d = c THEN "dropped" ELSE fate[d]
    BY <2>1, <2>2 DEF TypeInv, PastTypes
  <2>4. /\ IsPending(d)' <=> IsPending(d)
        /\ IsExpired(d)' <=> IsExpired(d)
        /\ IsAnswered(d)' <=> IsAnswered(d)
        /\ IsCompleted(d)' <=> IsCompleted(d)
    BY <2>1 DEF IsPending, IsExpired, IsAnswered, IsCompleted
  <2>5. Unique(d)'
    BY <1>0, <2>1, <2>2
  <2>6. d = c => AtOne(d)
    BY <1>0, <2>2 DEF AtNone
  <2> QED BY <1>0, <2>2, <2>3, <2>4, <2>5, <2>6 DEF AtOne, AtNone
<1>9. ASSUME ResolveResult PROVE StageOf(d)'
  <2>1. PICK p \in PendingOf(Head(results)) :
          /\ pending' = pending \ {p}
          /\ events' = Pushed(Answered(p.cmd, Head(results)))
          /\ DroppedUnlessRoom(p.cmd)
    BY <1>9 DEF ResolveResult
  <2>2. UNCHANGED <<ingress, expired, completed>> /\ Head(results) \in Commands
    BY <1>0, <1>9, DrainedTypes DEF ResolveResult
  <2>3. p \in pending /\ p \in [cmd : Commands, issued : Times]
    BY DEF PendingOf, TypeInv, Tables, TableTypes
  <2> DEFINE c == p.cmd
  <2>4. c \in Commands /\ IsPending(c)
    BY <2>3 DEF IsPending
  <2>5. IsPending(d)' <=> IsPending(d) /\ d # c
    <3>1. \A q \in pending : q.cmd = c => q = p
      BY <2>3 DEF IdInv, PendingIds, SameId
    <3> QED BY <2>1, <2>3, <3>1 DEF IsPending
  <2>6. c = d => AtOne(d)
    BY <1>0, <2>4 DEF AtNone
  <2>7. /\ IsAnswered(d)' <=> IsAnswered(d) \/ (Room /\ c = d)
        /\ AtMost(events', CompletionsOf(d))
    BY <1>0, <2>1, <2>2, <2>4, <2>6, WhichComplete, PushedStage
       DEF AtOne, IsAnswered
  <2>8. fate'[d] = IF ~ Room /\ d = c THEN "dropped" ELSE fate[d]
    BY <2>1, <2>4 DEF DroppedUnlessRoom, TypeInv, PastTypes
  <2> HIDE DEF c
  <2>9. /\ InIngress(d)' <=> InIngress(d)
        /\ IsExpired(d)' <=> IsExpired(d)
        /\ IsCompleted(d)' <=> IsCompleted(d)
    BY <2>2 DEF InIngress, IsExpired, IsCompleted
  <2>10. Unique(d)'
    BY <1>0, <2>2, <2>7
  <2>11. c = d => fate[d] = "accepted" /\ IsPending(d)
    BY <1>0, <2>4 DEF AtNone
  <2> QED BY <1>0, <2>5, <2>6, <2>7, <2>8, <2>9, <2>10, <2>11 DEF AtOne, AtNone
<1>10. ASSUME SendCommand \/ ProcessOther PROVE StageOf(d)'
  <2>1. /\ events # <<>> /\ events' = Tail(events)
        /\ Head(events).kind \in {"request", "other"}
        /\ UNCHANGED <<ingress, pending, expired, fate, completed>>
    BY <1>10 DEF SendCommand, ProcessOther, PopEvent, tableVars
  <2>2. Head(events) \notin CompletionsOf(d)
    BY <2>1 DEF CompletionsOf
  <2>3. (IsAnswered(d)' <=> IsAnswered(d)) /\ AtMost(events', CompletionsOf(d))
    BY <1>0, <2>1, <2>2, PoppedStage DEF IsAnswered
  <2> QED BY <1>0, <2>1, <2>3 DEF AtOne, AtNone, InIngress, IsPending,
        IsExpired, IsCompleted
<1>11. ASSUME CompleteCommand PROVE StageOf(d)'
  <2> DEFINE c == Head(events).cmd
  <2>1. /\ events # <<>> /\ events' = Tail(events)
        /\ Head(events).kind \in {"answered", "timeout"}
        /\ completed' = [completed EXCEPT ![c] = @ + 1]
        /\ UNCHANGED <<ingress, pending, expired, fate>>
    BY <1>11 DEF CompleteCommand, PopEvent, tableVars
  <2>2. c \in Commands /\ (Head(events) \in CompletionsOf(d) <=> c = d)
    BY <1>0, <2>1, PoppedType DEF CompletionsOf, CommandEvents
  <2>3. /\ IsAnswered(d)' <=> IsAnswered(d) /\ c # d
        /\ AtMost(events', CompletionsOf(d))
        /\ c = d => IsAnswered(d)
    BY <1>0, <2>1, <2>2, PoppedStage DEF IsAnswered
  <2>4. c = d => fate[d] = "accepted" /\ completed[d] = 0
    BY <1>0, <2>3 DEF AtOne, AtNone, IsCompleted
  <2>5. completed'[d] = IF c = d THEN 1 ELSE completed[d]
    BY <2>1, <2>2, <2>4 DEF TypeInv, PastTypes
  <2> HIDE DEF c
  <2>6. /\ InIngress(d)' <=> InIngress(d)
        /\ IsPending(d)' <=> IsPending(d)
        /\ IsExpired(d)' <=> IsExpired(d)
        /\ IsCompleted(d)' <=> IsCompleted(d) \/ c = d
        /\ fate'[d] = fate[d]
    BY <2>1, <2>5 DEF InIngress, IsPending, IsExpired, IsCompleted
  <2>7. Unique(d)'
    BY <1>0, <2>1, <2>3, <2>5
  <2> QED BY <1>0, <2>3, <2>4, <2>6, <2>7 DEF AtOne, AtNone
<1>12. ASSUME ExpireTimeouts PROVE StageOf(d)'
  <2>1. /\ expired' = {p.cmd : p \in {q \in pending : Overdue(q)}}
        /\ pending' = {p \in pending : ~ Overdue(p)}
        /\ expired = {}
        /\ UNCHANGED <<ingress, events, fate, completed>>
    BY <1>12 DEF ExpireTimeouts, queueVars, pastVars, IdInv, ExpiredOnlyInTick
  <2>2. IsPending(d) <=> IsPending(d)' \/ IsExpired(d)'
    BY <2>1 DEF IsPending, IsExpired
  <2>3. ~ (IsPending(d)' /\ IsExpired(d)')
    <3> SUFFICES ASSUME NEW p \in pending, NEW q \in pending,
                        p.cmd = d, q.cmd = d, Overdue(p), ~ Overdue(q)
                 PROVE  FALSE
      BY <2>1 DEF IsPending, IsExpired
    <3>1. p = q
      BY DEF IdInv, PendingIds, SameId
    <3> QED BY <3>1
  <2>4. /\ InIngress(d)' <=> InIngress(d)
        /\ IsAnswered(d)' <=> IsAnswered(d)
        /\ IsCompleted(d)' <=> IsCompleted(d)
        /\ ~ IsExpired(d)
    BY <2>1 DEF InIngress, IsAnswered, IsCompleted, IsExpired
  <2>5. Unique(d)' /\ fate'[d] = fate[d]
    BY <1>0, <2>1
  <2> QED BY <1>0, <2>2, <2>3, <2>4, <2>5 DEF AtOne, AtNone
<1>13. ASSUME NEW c \in Commands, HandleTimeout(c) PROVE StageOf(d)'
  <2>1. /\ c \in expired /\ expired' = expired \ {c}
        /\ UNCHANGED <<ingress, completed>>
    BY <1>13 DEF HandleTimeout
  <2>2. /\ IsExpired(d)' <=> IsExpired(d) /\ c # d
        /\ InIngress(d)' <=> InIngress(d)
        /\ IsCompleted(d)' <=> IsCompleted(d)
        /\ c = d => IsExpired(d)
    BY <2>1 DEF IsExpired, InIngress, IsCompleted
  <2>3. c = d => fate[d] = "accepted" /\ AtOne(d)
    BY <1>0, <2>2 DEF AtNone
  <2>4. CASE Retry(c)
    <3>1. PICK t \in TrackedOf(c) :
            /\ Admits(c)
            /\ pending' = pending \cup {[cmd |-> t.cmd, issued |-> loopNow]}
            /\ events' = Pushed(Request(t.cmd))
            /\ UNCHANGED fate
      BY <2>4 DEF Retry
    <3>2. t.cmd = c
      BY <2>1, <3>1, RetriedIsExpired
    <3>3. IsPending(d)' <=> IsPending(d) \/ c = d
      <4> DEFINE new == [cmd |-> t.cmd, issued |-> loopNow]
      <4>1. pending' = pending \cup {new} /\ new.cmd = c
        BY <3>1, <3>2
      <4> HIDE DEF new
      <4> QED BY <4>1 DEF IsPending
    <3>4. (IsAnswered(d)' <=> IsAnswered(d)) /\ AtMost(events', CompletionsOf(d))
      BY <1>0, <3>1, <3>2, WhichComplete, PushedStage DEF IsAnswered
    <3>5. Unique(d)' /\ fate'[d] = fate[d]
      BY <1>0, <2>1, <3>1, <3>4
    <3> QED BY <1>0, <2>2, <2>3, <3>3, <3>4, <3>5 DEF AtOne, AtNone
  <2>5. CASE GiveUp(c)
    <3>1. /\ events' = Pushed(TimedOut(c)) /\ pending' = pending
          /\ DroppedUnlessRoom(c)
      BY <2>5 DEF GiveUp
    <3>2. /\ IsAnswered(d)' <=> IsAnswered(d) \/ (Room /\ c = d)
          /\ AtMost(events', CompletionsOf(d))
      <4>1. c = d => ~ IsAnswered(d)
        BY <2>2, <2>3 DEF AtOne
      <4>2. TimedOut(c) \in AllEvents /\ (TimedOut(c) \in CompletionsOf(d) <=> c = d)
        BY WhichComplete
      <4>3. AtMost(events, CompletionsOf(d))
        BY <1>0
      <4> QED BY <1>0, <3>1, <4>1, <4>2, <4>3, PushedStage DEF IsAnswered
    <3>3. fate'[d] = IF ~ Room /\ d = c THEN "dropped" ELSE fate[d]
      BY <3>1 DEF DroppedUnlessRoom, TypeInv, PastTypes
    <3>4. Unique(d)' /\ (IsPending(d)' <=> IsPending(d))
      BY <1>0, <2>1, <3>1, <3>2 DEF IsPending
    <3> QED BY <1>0, <2>2, <2>3, <3>2, <3>3, <3>4 DEF AtOne, AtNone
  <2> QED BY <1>13, <2>4, <2>5 DEF HandleTimeout
<1>14. ASSUME UNCHANGED vars PROVE StageOf(d)'
  BY <1>0, <1>14, StagesStay DEF vars, stageVars, queueVars, tableVars, pastVars
<1> QED BY <1>1, <1>2, <1>3, <1>4, <1>5, <1>6, <1>7, <1>8, <1>9, <1>10, <1>11,
      <1>12, <1>13, <1>14 DEF Next, RuntimeTask, Environment

-----------------------------------------------------------------------------
(* The theorems.                                                           *)

CommandInv == TypeInv /\ IdInv /\ StageInv

LEMMA CommandInvariant == Spec => []CommandInv
<1>1. Init => CommandInv
  BY InitType, InitIds, InitStages DEF CommandInv
<1>2. CommandInv /\ [Next]_vars => CommandInv'
  BY NextType, NextIds, NextStages DEF CommandInv
<1> QED BY <1>1, <1>2, PTL DEF Spec

\* The sets the properties speak of, in terms of the queues.
LEMMA QueueSets ==
    ASSUME QueueTypes, NEW c \in Commands
    PROVE  /\ Queued(c) # {} <=> InIngress(c)
           /\ Completing(c) # {} <=> IsAnswered(c)
           /\ Completing(c)
                = {i \in 1 .. Len(events) : events[i] \in CompletionsOf(c)}
<1>1. /\ ingress \in Seq(Requests) /\ DOMAIN ingress = 1 .. Len(ingress)
      /\ \A i \in DOMAIN ingress : ingress[i] \in Requests
  <2>1. ingress \in Seq(Requests)
    BY DEF QueueTypes, Requests
  <2> QED BY <2>1
<1>2. /\ events \in Seq(AllEvents) /\ DOMAIN events = 1 .. Len(events)
      /\ \A i \in DOMAIN events : events[i] \in AllEvents
  BY DEF QueueTypes, AllEvents, CommandEvents
<1>3. Queued(c) # {} <=> InIngress(c)
  BY <1>1 DEF Queued, InIngress, Some, QueuedOf
<1>4. \A e \in AllEvents : e \in CompletionsOf(c)
        <=> e.kind \in {"answered", "timeout"} /\ e.cmd = c
  <2> SUFFICES ASSUME NEW e \in AllEvents, e.kind \in {"answered", "timeout"}
               PROVE  e \in CommandEvents
    BY DEF CompletionsOf
  <2>1. e # OtherEvent
    BY DEF OtherEvent
  <2> QED BY <2>1 DEF AllEvents
<1>5. Completing(c) = {i \in 1 .. Len(events) : events[i] \in CompletionsOf(c)}
  BY <1>2, <1>4 DEF Completing
<1>6. Completing(c) # {} <=> IsAnswered(c)
  BY <1>5 DEF IsAnswered, Some
<1> QED BY <1>3, <1>5, <1>6

\* An accepted command is at exactly one stage of its life, and a dropped one
\* at none, whatever answers, retries and full queues it meets.
THEOREM AcceptedIsAtOneStage == Spec => []OneStage
<1>1. CommandInv => OneStage
  <2> SUFFICES ASSUME CommandInv, NEW c \in Commands
               PROVE  IF fate[c] = "accepted"
                      THEN \E s \in StageNames : Stages(c) = {s}
                      ELSE Stages(c) = {}
    BY DEF OneStage
  <2>1. /\ Queued(c) # {} <=> InIngress(c)
        /\ Completing(c) # {} <=> IsAnswered(c)
        /\ c \in expired <=> IsExpired(c)
        /\ completed[c] > 0 <=> IsCompleted(c)
    BY QueueSets DEF CommandInv, TypeInv, StageInv, StageOf, Unique, IsExpired,
       IsCompleted
  <2>2. \A s \in StageNames : s \in Stages(c) <=>
          \/ s = "queued"     /\ InIngress(c)
          \/ s = "pending"    /\ IsPending(c)
          \/ s = "expired"    /\ IsExpired(c)
          \/ s = "completing" /\ IsAnswered(c)
          \/ s = "completed"  /\ IsCompleted(c)
    BY <2>1 DEF Stages
  <2>3. CASE fate[c] # "accepted"
    <3>1. AtNone(c)
      BY <2>3 DEF CommandInv, StageInv, StageOf
    <3>2. Stages(c) = {}
      BY <2>2, <3>1 DEF AtNone, Stages
    <3> QED BY <2>3, <3>2
  <2>4. CASE fate[c] = "accepted"
    <3>1. AtOne(c)
      BY <2>4 DEF CommandInv, StageInv, StageOf
    <3> DEFINE s == IF InIngress(c) THEN "queued"
                    ELSE IF IsPending(c) THEN "pending"
                    ELSE IF IsExpired(c) THEN "expired"
                    ELSE IF IsAnswered(c) THEN "completing" ELSE "completed"
    <3>2. s \in StageNames
      BY DEF StageNames
    <3>3. \A r \in StageNames : r \in Stages(c) <=> r = s
      BY <2>2, <3>1 DEF AtOne, StageNames
    <3>4. Stages(c) \subseteq StageNames
      BY DEF Stages
    <3>5. Stages(c) = {s}
      BY <3>2, <3>3, <3>4
    <3> QED BY <2>4, <3>2, <3>5
  <2> QED BY <2>3, <2>4
<1> QED BY <1>1, CommandInvariant, PTL

\* No command is completed twice, counting the completions still queued.
THEOREM CompletedAtMostOnce == Spec => []AtMostOneCompletion
<1>1. CommandInv => AtMostOneCompletion
  <2> SUFFICES ASSUME CommandInv, NEW c \in Commands
               PROVE  Cardinality(Completing(c)) + completed[c] <= 1
    BY DEF AtMostOneCompletion
  <2>1. /\ AtMost(events, CompletionsOf(c)) /\ completed[c] \in {0, 1}
        /\ IsAnswered(c) => completed[c] = 0
    BY DEF CommandInv, StageInv, StageOf, Unique, AtOne, AtNone, IsCompleted
  <2>2. /\ Completing(c)
             = {i \in 1 .. Len(events) : events[i] \in CompletionsOf(c)}
        /\ Completing(c) # {} <=> IsAnswered(c)
    BY QueueSets DEF CommandInv, TypeInv
  <2>3. CASE Completing(c) = {}
    BY <2>1, <2>3, FS_EmptySet
  <2>4. CASE Completing(c) # {}
    <3>1. PICK i \in Completing(c) : TRUE
      BY <2>4
    <3>2. Completing(c) = {i}
      BY <2>1, <2>2, <3>1 DEF AtMost
    <3>3. Cardinality(Completing(c)) = 1
      BY <3>2, FS_Singleton
    <3> QED BY <2>1, <2>2, <2>4, <3>3
  <2> QED BY <2>3, <2>4
<1> QED BY <1>1, CommandInvariant, PTL

\* What the dispatcher waits for, what is tracked and what is completed agree.
THEOREM CommandTablesAgree == Spec => []TablesAgree
BY TypeCorrect, TrackingFollowsDispatcher, CompletedAtMostOnce, PTL DEF TablesAgree

-----------------------------------------------------------------------------
(* How many elements of a sequence lie in a set, and whether those of one   *)
(* set come before those of another.                                        *)

Count(s, P)     == Cardinality({i \in 1 .. Len(s) : s[i] \in P})
Before(s, R, C) == \A i, j \in 1 .. Len(s) : s[i] \in C /\ s[j] \in R => j < i

\* What appending an element adds to the count.
LEMMA CountAppend ==
    ASSUME NEW S, NEW s \in Seq(S), NEW e \in S, NEW P
    PROVE  /\ Count(s, P) \in Nat
           /\ Count(Append(s, e), P) = Count(s, P) + IF e \in P THEN 1 ELSE 0
<1> DEFINE t == Append(s, e)
           A == {i \in 1 .. Len(s) : s[i] \in P}
           B == {i \in 1 .. Len(t) : t[i] \in P}
<1>1. /\ Len(t) = Len(s) + 1 /\ Len(s) \in Nat
      /\ \A i \in 1 .. Len(s) : t[i] = s[i]
      /\ t[Len(s) + 1] = e
  OBVIOUS
<1>2. IsFiniteSet(A) /\ Cardinality(A) \in Nat
  <2>1. IsFiniteSet(1 .. Len(s))
    BY <1>1, FS_Interval
  <2> QED BY <2>1, FS_Subset, FS_CardinalityType
<1>3. Len(s) + 1 \notin A
  BY <1>1
<1>4. B = IF e \in P THEN A \cup {Len(s) + 1} ELSE A
  BY <1>1
<1> HIDE DEF A, B
<1>5. Cardinality(A \cup {Len(s) + 1}) = Cardinality(A) + 1
  BY <1>2, <1>3, FS_AddElement
<1>6. Cardinality(B) = Cardinality(A) + IF e \in P THEN 1 ELSE 0
  BY <1>2, <1>4, <1>5
<1> QED BY <1>2, <1>6 DEF Count, A, B

\* What a tail takes from the count.
LEMMA CountTail ==
    ASSUME NEW S, NEW s \in Seq(S), s # <<>>, NEW P
    PROVE  /\ Count(s, P) \in Nat /\ Count(Tail(s), P) \in Nat
           /\ Count(s, P) = Count(Tail(s), P) + IF Head(s) \in P THEN 1 ELSE 0
<1> DEFINE t == Tail(s)
           A == {i \in 1 .. Len(t) : t[i] \in P}
           B == {i \in 1 .. Len(s) : s[i] \in P}
           C == {i \in B : i > 1}
           f == [i \in C |-> i - 1]
<1>1. /\ Len(t) = Len(s) - 1 /\ Len(s) \in Nat \ {0} /\ Head(s) = s[1]
      /\ \A i \in 1 .. Len(t) : t[i] = s[i + 1]
  OBVIOUS
<1>2. IsFiniteSet(C) /\ Cardinality(C) \in Nat
  <2>1. IsFiniteSet(1 .. Len(s))
    BY <1>1, FS_Interval
  <2> QED BY <2>1, FS_Subset, FS_CardinalityType
<1>3. f \in Bijection(C, A)
  <2>1. \A i \in C : i \in 2 .. Len(s) /\ s[i] \in P
    BY <1>1
  <2>2. \A i \in C : f[i] = i - 1 /\ i - 1 \in 1 .. Len(t) /\ t[i - 1] = s[i]
    BY <1>1, <2>1
  <2>3. f \in [C -> A]
    BY <2>1, <2>2
  <2>4. \A i, j \in C : f[i] = f[j] => i = j
    BY <2>1, <2>2
  <2>5. \A k \in A : k + 1 \in C /\ f[k + 1] = k
    BY <1>1
  <2> HIDE DEF f, A, C
  <2>6. f \in Surjection(C, A)
    BY <2>3, <2>5 DEF Surjection
  <2>7. f \in Injection(C, A)
    BY <2>3, <2>4 DEF Injection, IsInjective
  <2> QED BY <2>6, <2>7 DEF Bijection
<1>4. Cardinality(A) = Cardinality(C)
  <2> HIDE DEF f, A, C
  <2> QED BY <1>2, <1>3, FS_Bijection DEF ExistsBijection
<1>5. 1 \notin C /\ B = IF Head(s) \in P THEN C \cup {1} ELSE C
  BY <1>1
<1> HIDE DEF A, B, C
<1>6. Cardinality(C \cup {1}) = Cardinality(C) + 1
  BY <1>2, <1>5, FS_AddElement
<1>7. Cardinality(B) = Cardinality(A) + IF Head(s) \in P THEN 1 ELSE 0
  BY <1>2, <1>4, <1>5, <1>6
<1>8. Cardinality(A) \in Nat /\ Cardinality(B) \in Nat
  BY <1>2, <1>4, <1>7
<1> QED BY <1>7, <1>8 DEF Count, A, B

\* Appending keeps the order, unless an element of R follows one of C.
LEMMA BeforeAppend ==
    ASSUME NEW S, NEW s \in Seq(S), NEW e \in S, NEW R, NEW C,
           Before(s, R, C), e \in R => ~ Some(s, C) /\ e \notin C
    PROVE  Before(Append(s, e), R, C)
<1> DEFINE t == Append(s, e)
<1>1. /\ Len(t) = Len(s) + 1 /\ Len(s) \in Nat
      /\ \A i \in 1 .. Len(s) : t[i] = s[i]
      /\ t[Len(s) + 1] = e
  OBVIOUS
<1> SUFFICES ASSUME NEW i \in 1 .. Len(t), NEW j \in 1 .. Len(t),
                    t[i] \in C, t[j] \in R
             PROVE  j < i
  BY DEF Before
<1>2. CASE i \in 1 .. Len(s) /\ j \in 1 .. Len(s)
  BY <1>1, <1>2 DEF Before
<1>3. CASE j = Len(s) + 1
  BY <1>1, <1>3 DEF Some
<1>4. CASE i = Len(s) + 1 /\ j \in 1 .. Len(s)
  BY <1>1, <1>4
<1> QED BY <1>1, <1>2, <1>3, <1>4

\* A tail keeps the order; no element of R is left behind one of C.
LEMMA BeforeTail ==
    ASSUME NEW S, NEW s \in Seq(S), s # <<>>, NEW R, NEW C, Before(s, R, C)
    PROVE  /\ Before(Tail(s), R, C)
           /\ Head(s) \in C => ~ Some(Tail(s), R)
<1> DEFINE t == Tail(s)
<1>1. /\ Len(t) = Len(s) - 1 /\ Len(s) \in Nat \ {0} /\ Head(s) = s[1]
      /\ \A i \in 1 .. Len(t) : t[i] = s[i + 1]
  OBVIOUS
<1>2. Before(t, R, C)
  <2> SUFFICES ASSUME NEW i \in 1 .. Len(t), NEW j \in 1 .. Len(t),
                      t[i] \in C, t[j] \in R
               PROVE  j < i
    BY DEF Before
  <2>1. /\ i + 1 \in 1 .. Len(s) /\ j + 1 \in 1 .. Len(s)
        /\ s[i + 1] \in C /\ s[j + 1] \in R
    BY <1>1
  <2>2. j + 1 < i + 1
    BY <2>1 DEF Before
  <2> QED BY <2>2
<1>3. ASSUME Head(s) \in C, NEW j \in 1 .. Len(t), t[j] \in R PROVE FALSE
  <2>1. /\ j + 1 \in 1 .. Len(s) /\ 1 \in 1 .. Len(s)
        /\ s[j + 1] \in R /\ s[1] \in C
    BY <1>1, <1>3
  <2>2. j + 1 < 1
    BY <2>1 DEF Before
  <2> QED BY <2>2
<1> QED BY <1>2, <1>3 DEF Some

-----------------------------------------------------------------------------
(* Requests on their way to the HAL: how many there may be, and that none   *)
(* is left when the command has been completed.                             *)

RequestsOf(c) == {e \in CommandEvents : e.kind = "request" /\ e.cmd = c}
Waiting(c)    == InIngress(c) \/ IsExpired(c)

\* What a step does to the event queue: it pushes an event or pops one.
Pushes(e) ==
    /\ events' = Pushed(e)
    /\ UNCHANGED <<attempts, completed>>
Pops ==
    /\ events # <<>> /\ events' = Tail(events)
    /\ \A c \in Commands :
         /\ attempts'[c] = attempts[c]
              + IF Head(events) \in RequestsOf(c) THEN 1 ELSE 0
         /\ completed'[c] = completed[c]
              + IF Head(events) \in CompletionsOf(c) THEN 1 ELSE 0

\* Which events are requests.
LEMMA WhichRequest ==
    ASSUME NEW c \in Commands, NEW d \in Commands, NEW a \in Commands
    PROVE  /\ Request(c) \in AllEvents /\ (Request(c) \in RequestsOf(d) <=> c = d)
           /\ OtherEvent \in AllEvents /\ OtherEvent \notin RequestsOf(d)
           /\ Answered(c, a) \in AllEvents /\ Answered(c, a) \notin RequestsOf(d)
           /\ TimedOut(c) \in AllEvents /\ TimedOut(c) \notin RequestsOf(d)
<1>1. OtherEvent \notin CommandEvents
  BY DEF OtherEvent, CommandEvents
<1> QED BY <1>1 DEF AllEvents, CommandEvents, RequestsOf, Request, Answered,
      TimedOut

\* A popped event counts as a sending or as a completion of its command.
LEMMA PopSteps ==
    ASSUME TypeInv, SendCommand \/ CompleteCommand \/ ProcessOther
    PROVE  Pops
<1> DEFINE e == Head(events)
<1>1. /\ events # <<>> /\ events' = Tail(events)
      /\ e \in AllEvents /\ (e.kind # "other" => e \in CommandEvents)
  BY PoppedType DEF SendCommand, CompleteCommand, ProcessOther, PopEvent, TypeInv
<1>2. /\ attempts \in [Commands -> Nat] /\ completed \in [Commands -> Nat]
      /\ \A c \in Commands : attempts[c] \in Nat /\ completed[c] \in Nat
  BY DEF TypeInv, PastTypes
<1> SUFFICES ASSUME NEW c \in Commands
             PROVE  /\ attempts'[c] = attempts[c]
                         + IF e \in RequestsOf(c) THEN 1 ELSE 0
                    /\ completed'[c] = completed[c]
                         + IF e \in CompletionsOf(c) THEN 1 ELSE 0
  BY <1>1 DEF Pops
<1>3. CASE SendCommand
  <2>1. /\ e.kind = "request" /\ completed' = completed
        /\ attempts' = [attempts EXCEPT ![e.cmd] = @ + 1]
    BY <1>3 DEF SendCommand, PopEvent
  <2>2. e \in CommandEvents /\ e.cmd \in Commands
    BY <1>1, <2>1 DEF CommandEvents
  <2>3. (e \in RequestsOf(c) <=> e.cmd = c) /\ e \notin CompletionsOf(c)
    BY <2>1, <2>2 DEF RequestsOf, CompletionsOf
  <2> HIDE DEF e
  <2> QED BY <1>2, <2>1, <2>2, <2>3
<1>4. CASE CompleteCommand
  <2>1. /\ e.kind \in {"answered", "timeout"} /\ attempts' = attempts
        /\ completed' = [completed EXCEPT ![e.cmd] = @ + 1]
    BY <1>4 DEF CompleteCommand, PopEvent
  <2>2. e \in CommandEvents /\ e.cmd \in Commands
    BY <1>1, <2>1 DEF CommandEvents
  <2>3. (e \in CompletionsOf(c) <=> e.cmd = c) /\ e \notin RequestsOf(c)
    BY <2>1, <2>2 DEF RequestsOf, CompletionsOf
  <2> HIDE DEF e
  <2> QED BY <1>2, <2>1, <2>2, <2>3
<1>5. CASE ProcessOther
  <2>1. e.kind = "other" /\ attempts' = attempts /\ completed' = completed
    BY <1>5 DEF ProcessOther, PopEvent
  <2>2. e \notin RequestsOf(c) /\ e \notin CompletionsOf(c)
    BY <2>1 DEF RequestsOf, CompletionsOf
  <2> HIDE DEF e
  <2> QED BY <1>2, <2>1, <2>2
<1> QED BY <1>3, <1>4, <1>5

\* Requests are pushed for commands that wait for it only: newly admitted
\* ones, and those whose timeout is being handled.
LEMMA EventSteps ==
    ASSUME TypeInv, IdInv, StageInv, [Next]_vars
    PROVE  \/ UNCHANGED <<events, attempts, completed>>
           \/ \E e \in AllEvents :
                /\ Pushes(e)
                /\ \A c \in Commands : e \in RequestsOf(c) => Waiting(c)
           \/ Pops
<1> DEFINE G == \/ UNCHANGED <<events, attempts, completed>>
                \/ \E e \in AllEvents :
                     /\ Pushes(e)
                     /\ \A c \in Commands : e \in RequestsOf(c) => Waiting(c)
                \/ Pops
<1>1. ASSUME NEW c \in Commands, PostAccepted(c) \/ PostRefused(c) \/ Reply(c)
      PROVE  G
  BY <1>1 DEF PostAccepted, PostRefused, Reply, queueVars, pastVars
<1>2. ASSUME Advance \/ BeginLoop \/ DropRequest \/ RequestsDone \/ IgnoreResult
             \/ ResultsDone \/ NoEvent \/ ExpireTimeouts \/ EndLoop
             \/ UNCHANGED vars
      PROVE  G
  BY <1>2 DEF Advance, BeginLoop, DropRequest, RequestsDone, IgnoreResult,
     ResultsDone, NoEvent, ExpireTimeouts, EndLoop, vars, queueVars, pastVars
<1>3. ASSUME PushOther PROVE G
  <2>1. Pushes(OtherEvent)
    BY <1>3 DEF PushOther, Pushes, pastVars
  <2>2. /\ OtherEvent \in AllEvents
        /\ \A c \in Commands : OtherEvent \notin RequestsOf(c)
    BY WhichRequest DEF AllEvents
  <2> QED BY <2>1, <2>2
<1>4. ASSUME AdmitRequest PROVE G
  <2> DEFINE c == Head(ingress).cmd
  <2>1. /\ events' = Pushed(Request(c)) \/ events' = events
        /\ UNCHANGED <<attempts, completed>>
        /\ ingress # <<>>
    BY <1>4 DEF AdmitRequest, pastVars
  <2>2. c \in Commands /\ InIngress(c)
    BY <2>1, DrainedTypes, DrainedStage DEF TypeInv, StageInv, StageOf, Unique
  <2> HIDE DEF c
  <2>3. /\ Request(c) \in AllEvents
        /\ \A d \in Commands : Request(c) \in RequestsOf(d) => Waiting(d)
    BY <2>2, WhichRequest DEF Waiting
  <2> QED BY <2>1, <2>3 DEF Pushes
<1>5. ASSUME ResolveResult PROVE G
  <2>1. PICK p \in PendingOf(Head(results)) :
          events' = Pushed(Answered(p.cmd, Head(results)))
    BY <1>5 DEF ResolveResult
  <2>2. p.cmd \in Commands /\ Head(results) \in Commands
    BY <1>5, DrainedTypes
       DEF ResolveResult, PendingOf, TypeInv, Tables, TableTypes
  <2>3. Pushes(Answered(p.cmd, Head(results)))
    BY <1>5, <2>1 DEF ResolveResult, Pushes
  <2>4. /\ Answered(p.cmd, Head(results)) \in AllEvents
        /\ \A c \in Commands : Answered(p.cmd, Head(results)) \notin RequestsOf(c)
    BY <2>2, WhichRequest
  <2> QED BY <2>3, <2>4
<1>6. ASSUME NEW c \in Commands, HandleTimeout(c) PROVE G
  <2>1. c \in expired /\ UNCHANGED <<attempts, completed>>
    BY <1>6 DEF HandleTimeout
  <2>2. CASE Retry(c)
    <3>1. PICK t \in TrackedOf(c) : Admits(c) /\ events' = Pushed(Request(t.cmd))
      BY <2>2 DEF Retry
    <3>2. t.cmd = c
      BY <2>1, <3>1, RetriedIsExpired
    <3>3. /\ Request(c) \in AllEvents
          /\ \A d \in Commands : Request(c) \in RequestsOf(d) => Waiting(d)
      BY <2>1, WhichRequest DEF Waiting, IsExpired
    <3> QED BY <2>1, <3>1, <3>2, <3>3 DEF Pushes
  <2>3. CASE GiveUp(c)
    <3>1. Pushes(TimedOut(c))
      BY <2>1, <2>3 DEF GiveUp, Pushes
    <3>2. /\ TimedOut(c) \in AllEvents
          /\ \A d \in Commands : TimedOut(c) \notin RequestsOf(d)
      BY WhichRequest
    <3> QED BY <3>1, <3>2
  <2> QED BY <1>6, <2>2, <2>3 DEF HandleTimeout
<1>7. ASSUME SendCommand \/ CompleteCommand \/ ProcessOther PROVE G
  BY <1>7, PopSteps
<1> QED BY <1>1, <1>2, <1>3, <1>4, <1>5, <1>6, <1>7
      DEF Next, RuntimeTask, Environment

\* No request of a command comes after its completion, in the queue or later.
Quiet(c) ==
    /\ Before(events, RequestsOf(c), CompletionsOf(c))
    /\ IsCompleted(c) => ~ Some(events, RequestsOf(c))
QuietInv == \A c \in Commands : Quiet(c)

LEMMA InitQuiet == Init => QuietInv
  BY DEF Init, QuietInv, Quiet, Before, Some

LEMMA NextQuiet ==
    TypeInv /\ IdInv /\ StageInv /\ QuietInv /\ [Next]_vars => QuietInv'
<1> SUFFICES ASSUME TypeInv, IdInv, StageInv, QuietInv, [Next]_vars,
                    NEW c \in Commands
             PROVE  Quiet(c)'
  BY DEF QuietInv
<1>1. Quiet(c) /\ events \in Seq(AllEvents)
  BY DEF QuietInv, TypeInv, QueueTypes, AllEvents, CommandEvents
<1>2. CASE UNCHANGED <<events, attempts, completed>>
  BY <1>1, <1>2 DEF Quiet, IsCompleted
<1>3. ASSUME NEW e \in AllEvents, Pushes(e), e \in RequestsOf(c) => Waiting(c)
      PROVE  Quiet(c)'
  <2>1. Waiting(c) => ~ IsAnswered(c) /\ ~ IsCompleted(c)
    BY DEF StageInv, StageOf, AtOne, AtNone, Waiting
  <2>2. IsCompleted(c)' <=> IsCompleted(c)
    BY <1>3 DEF Pushes, IsCompleted
  <2>3. e \in RequestsOf(c) => ~ Some(events, CompletionsOf(c))
                              /\ e \notin CompletionsOf(c)
    BY <1>3, <2>1 DEF RequestsOf, CompletionsOf, IsAnswered
  <2>4. CASE Room
    <3>1. events' = Append(events, e)
      BY <1>3, <2>4 DEF Pushes, Pushed
    <3>2. Before(events', RequestsOf(c), CompletionsOf(c))
      BY <1>1, <2>3, <3>1, BeforeAppend DEF Quiet
    <3>3. Some(events', RequestsOf(c))
            <=> Some(events, RequestsOf(c)) \/ e \in RequestsOf(c)
      BY <1>1, <3>1, SomeAppend
    <3> QED BY <1>1, <1>3, <2>1, <2>2, <3>2, <3>3 DEF Quiet
  <2>5. CASE ~ Room
    <3>1. events' = events
      BY <1>3, <2>5 DEF Pushes, Pushed
    <3> QED BY <1>1, <2>2, <3>1 DEF Quiet
  <2> QED BY <2>4, <2>5
<1>4. CASE Pops
  <2>1. /\ events # <<>> /\ events' = Tail(events)
        /\ completed'[c] = completed[c]
             + IF Head(events) \in CompletionsOf(c) THEN 1 ELSE 0
    BY <1>4 DEF Pops
  <2>2. /\ Before(events', RequestsOf(c), CompletionsOf(c))
        /\ Head(events) \in CompletionsOf(c) => ~ Some(events', RequestsOf(c))
    BY <1>1, <2>1, BeforeTail DEF Quiet
  <2>3. Some(events', RequestsOf(c)) => Some(events, RequestsOf(c))
    BY <1>1, <2>1, SomeTail
  <2>4. completed[c] \in Nat
    BY DEF TypeInv, PastTypes
  <2>5. IsCompleted(c)' => IsCompleted(c) \/ Head(events) \in CompletionsOf(c)
    BY <2>1, <2>4 DEF IsCompleted
  <2> QED BY <1>1, <2>2, <2>3, <2>5 DEF Quiet
<1> QED BY <1>2, <1>3, <1>4, EventSteps

\* Once a completion of a command has been reduced, the command is not sent
\* to its device again, by whatever retry was under way.
THEOREM CompletedIsNotSent == Spec => NoSendAfterCompletion
<1>1. CommandInv /\ QuietInv /\ [Next]_vars
        => [\A c \in Commands : completed[c] > 0 => attempts'[c] = attempts[c]]_vars
  <2> SUFFICES ASSUME CommandInv, QuietInv, [Next]_vars,
                      NEW c \in Commands, completed[c] > 0
               PROVE  attempts'[c] = attempts[c]
    OBVIOUS
  <2>1. IsCompleted(c)
    BY DEF CommandInv, StageInv, StageOf, Unique, IsCompleted
  <2>2. events \in Seq(AllEvents) /\ attempts[c] \in Nat
    BY DEF CommandInv, TypeInv, PastTypes, QueueTypes, AllEvents, CommandEvents
  <2>3. events # <<>> => Head(events) \notin RequestsOf(c)
    BY <2>1, <2>2, SomeTail DEF QuietInv, Quiet
  <2>4. Pops => attempts'[c] = attempts[c]
    BY <2>2, <2>3 DEF Pops
  <2> QED BY <2>4, EventSteps DEF CommandInv, Pushes
<1>2. Init => QuietInv
  BY InitQuiet
<1>3. CommandInv /\ QuietInv /\ [Next]_vars => QuietInv'
  BY NextQuiet DEF CommandInv
<1> QED BY <1>1, <1>2, <1>3, CommandInvariant, PTL DEF Spec, NoSendAfterCompletion

-----------------------------------------------------------------------------
(* How often a command is sent: what was handed to the HAL, what is in the  *)
(* queue and the retries left never exceed the first sending and its        *)
(* retries.                                                                 *)

Used(c) == attempts[c] + Count(events, RequestsOf(c))

Budget(c) ==
    /\ fate[c] = "new" \/ InIngress(c) => Used(c) = 0
    /\ Used(c) <= MaxRetries + 1
    /\ \A t \in tracked : t.cmd = c => Used(c) + t.retries <= MaxRetries + 1
BudgetInv == \A c \in Commands : Budget(c)

LEMMA InitBudget == Init => BudgetInv
<1> SUFFICES ASSUME Init, NEW c \in Commands PROVE Budget(c)
  BY DEF BudgetInv
<1>1. Count(<<>>, RequestsOf(c)) = 0
  BY FS_EmptySet DEF Count
<1> QED BY <1>1, Sizes DEF Init, Budget, Used

\* Sending moves a request out of the queue, and pushing one uses one.
LEMMA UsedSteps ==
    ASSUME TypeInv, NEW c \in Commands
    PROVE  /\ Used(c) \in Nat
           /\ UNCHANGED <<events, attempts>> => Used(c)' = Used(c)
           /\ Pops => Used(c)' = Used(c)
           /\ \A e \in AllEvents : Pushes(e) =>
                Used(c)' = Used(c) + IF Room /\ e \in RequestsOf(c) THEN 1 ELSE 0
<1>1. events \in Seq(AllEvents) /\ attempts[c] \in Nat
  BY DEF TypeInv, PastTypes, QueueTypes, AllEvents, CommandEvents
<1>2. Count(events, RequestsOf(c)) \in Nat
  <2>1. OtherEvent \in AllEvents
    BY DEF AllEvents
  <2> QED BY <1>1, <2>1, CountAppend
<1>3. ASSUME UNCHANGED <<events, attempts>> PROVE Used(c)' = Used(c)
  BY <1>3 DEF Used, RequestsOf, CommandEvents
<1>4. ASSUME Pops PROVE Used(c)' = Used(c)
  <2>1. /\ events # <<>> /\ events' = Tail(events)
        /\ attempts'[c] = attempts[c]
             + IF Head(events) \in RequestsOf(c) THEN 1 ELSE 0
    BY <1>4 DEF Pops
  <2>2. /\ Count(Tail(events), RequestsOf(c)) \in Nat
        /\ Count(events, RequestsOf(c)) = Count(Tail(events), RequestsOf(c))
             + IF Head(events) \in RequestsOf(c) THEN 1 ELSE 0
    BY <1>1, <2>1, CountTail
  <2> QED BY <1>1, <2>1, <2>2 DEF Used
<1>5. ASSUME NEW e \in AllEvents, Pushes(e)
      PROVE  Used(c)' = Used(c) + IF Room /\ e \in RequestsOf(c) THEN 1 ELSE 0
  <2>1. CASE Room
    <3>1. events' = Append(events, e) /\ attempts' = attempts
      BY <1>5, <2>1 DEF Pushes, Pushed
    <3>2. Count(events', RequestsOf(c))
            = Count(events, RequestsOf(c)) + IF e \in RequestsOf(c) THEN 1 ELSE 0
      BY <1>1, <3>1, CountAppend
    <3> QED BY <1>1, <1>2, <2>1, <3>1, <3>2 DEF Used
  <2>2. CASE ~ Room
    <3>1. events' = events /\ attempts' = attempts
      BY <1>5, <2>2 DEF Pushes, Pushed
    <3> QED BY <1>1, <1>2, <1>3, <2>2, <3>1 DEF Used
  <2> QED BY <2>1, <2>2
<1> QED BY <1>1, <1>2, <1>3, <1>4, <1>5 DEF Used

\* A step that uses nothing, and neither tracks nor takes up a command anew.
LEMMA BudgetStays ==
    ASSUME NEW c \in Commands, Budget(c), Used(c)' = Used(c), tracked' \subseteq tracked,
           fate'[c] = "new" \/ InIngress(c)' => fate[c] = "new" \/ InIngress(c)
    PROVE  Budget(c)'
  BY DEF Budget

LEMMA NextBudget ==
    TypeInv /\ IdInv /\ StageInv /\ BudgetInv /\ [Next]_vars => BudgetInv'
<1> SUFFICES ASSUME TypeInv, IdInv, StageInv, BudgetInv, [Next]_vars,
                    NEW d \in Commands
             PROVE  Budget(d)'
  BY DEF BudgetInv
<1>0. /\ Budget(d) /\ QueueTypes /\ Used(d) \in Nat
      /\ fate \in [Commands -> {"new", "refused", "accepted", "dropped"}]
      /\ \A t \in tracked : t.retries \in 0 .. MaxRetries /\ t.cmd \in Commands
  BY UsedSteps DEF BudgetInv, TypeInv, PastTypes, Tables, TableTypes
<1>1. ASSUME NEW c \in Commands, PostAccepted(c) PROVE Budget(d)'
  <2> DEFINE r == [cmd |-> c, issued |-> clock]
  <2>1. /\ ingress' = Append(ingress, r)
        /\ fate[c] = "new" /\ fate' = [fate EXCEPT ![c] = "accepted"]
        /\ UNCHANGED <<events, attempts, tracked>>
    BY <1>1 DEF PostAccepted, tableVars
  <2>2. /\ r \in Requests /\ ingress \in Seq(Requests)
        /\ r \in QueuedOf(d) => c = d
    BY DEF TypeInv, LoopTypes, QueueTypes, Requests, QueuedOf
  <2> HIDE DEF r
  <2>3. InIngress(d)' => InIngress(d) \/ c = d
    BY <2>1, <2>2, SomeAppend DEF InIngress
  <2>4. fate'[d] = "new" => fate[d] = "new"
    BY <1>0, <2>1
  <2>5. Used(d)' = Used(d)
    BY <2>1, UsedSteps
  <2> QED BY <1>0, <2>1, <2>3, <2>4, <2>5, BudgetStays
<1>2. ASSUME NEW c \in Commands, PostRefused(c) PROVE Budget(d)'
  <2>1. /\ fate' = [fate EXCEPT ![c] = "refused"]
        /\ UNCHANGED <<ingress, events, attempts, tracked>>
    BY <1>2 DEF PostRefused, queueVars, tableVars
  <2>2. fate'[d] = "new" => fate[d] = "new"
    BY <1>0, <2>1
  <2>3. Used(d)' = Used(d) /\ (InIngress(d)' => InIngress(d))
    BY <2>1, UsedSteps DEF InIngress
  <2> QED BY <1>0, <2>1, <2>2, <2>3, BudgetStays
<1>3. ASSUME (\E c \in Commands : Reply(c)) \/ Advance \/ BeginLoop \/ RequestsDone
             \/ IgnoreResult \/ ResultsDone \/ NoEvent \/ ExpireTimeouts
             \/ EndLoop \/ UNCHANGED vars
      PROVE  Budget(d)'
  <2>1. UNCHANGED <<ingress, events, attempts, tracked, fate>>
    BY <1>3 DEF Reply, Advance, BeginLoop, RequestsDone, IgnoreResult,
       ResultsDone, NoEvent, ExpireTimeouts, EndLoop, vars, queueVars,
       tableVars, pastVars
  <2>2. Used(d)' = Used(d) /\ (InIngress(d)' => InIngress(d))
    BY <2>1, UsedSteps DEF InIngress
  <2> QED BY <1>0, <2>1, <2>2, BudgetStays
<1>4. ASSUME PushOther PROVE Budget(d)'
  <2>1. /\ Pushes(OtherEvent) /\ UNCHANGED <<ingress, tracked, fate>>
    BY <1>4 DEF PushOther, Pushes, tableVars, pastVars
  <2>2. Used(d)' = Used(d) /\ (InIngress(d)' => InIngress(d))
    BY <1>0, <2>1, UsedSteps, WhichRequest DEF InIngress
  <2> QED BY <1>0, <2>1, <2>2, BudgetStays
<1>5. ASSUME AdmitRequest PROVE Budget(d)'
  <2> DEFINE c == Head(ingress).cmd
             tracks == TrackedOf(c) # {} \/ Cardinality(tracked) < MaxPending
             new == [cmd |-> c, retries |-> MaxRetries]
  <2>1. /\ ingress # <<>> /\ ingress' = Tail(ingress) /\ fate' = fate
        /\ UNCHANGED <<attempts, completed>>
        /\ tracked' = IF tracks THEN (tracked \ TrackedOf(c)) \cup {new} ELSE tracked
        /\ events' = IF tracks THEN Pushed(Request(c)) ELSE events
    BY <1>5 DEF AdmitRequest, pastVars
  <2>2. c \in Commands /\ InIngress(c) /\ (InIngress(d)' <=> InIngress(d) /\ d # c)
    BY <1>0, <2>1, DrainedTypes, DrainedStage
       DEF StageInv, StageOf, Unique, InIngress
  <2> HIDE DEF c
  <2>3. Used(d)' = Used(d) \/ (d = c /\ Used(d)' = Used(d) + 1)
    <3>1. CASE tracks
      BY <1>0, <2>1, <2>2, <3>1, UsedSteps, WhichRequest DEF Pushes
    <3>2. CASE ~ tracks
      BY <2>1, <3>2, UsedSteps
    <3> QED BY <3>1, <3>2
  <2>4. CASE d # c
    <3>1. \A t \in tracked' : t.cmd = d => t \in tracked
      BY <2>1, <2>4
    <3> QED BY <1>0, <2>1, <2>2, <2>3, <2>4, <3>1 DEF Budget
  <2>5. CASE d = c
    <3>1. Used(d) = 0 /\ fate[d] = "accepted"
      BY <1>0, <2>2, <2>5 DEF Budget, StageInv, StageOf, AtNone
    <3>2. Used(d)' \in {0, 1} /\ ~ InIngress(d)'
      BY <2>2, <2>3, <2>5, <3>1
    <3>3. \A t \in tracked' : t.retries \in 0 .. MaxRetries
      BY <1>0, <2>1, Sizes
    <3>4. \A t \in tracked' : Used(d)' + t.retries <= MaxRetries + 1
      BY <3>2, <3>3, Sizes
    <3> QED BY <2>1, <3>1, <3>2, <3>4, Sizes DEF Budget
  <2> QED BY <2>4, <2>5
<1>6. ASSUME DropRequest PROVE Budget(d)'
  <2> DEFINE c == Head(ingress).cmd
  <2>1. /\ ingress # <<>> /\ ingress' = Tail(ingress)
        /\ fate' = [fate EXCEPT ![c] = "dropped"]
        /\ UNCHANGED <<events, attempts, tracked>>
    BY <1>6 DEF DropRequest, tableVars
  <2>2. c \in Commands /\ (InIngress(d)' => InIngress(d))
    BY <1>0, <2>1, DrainedTypes, DrainedStage
       DEF StageInv, StageOf, Unique, InIngress
  <2> HIDE DEF c
  <2>3. fate'[d] = "new" => fate[d] = "new"
    BY <1>0, <2>1
  <2>4. Used(d)' = Used(d)
    BY <2>1, UsedSteps
  <2> QED BY <1>0, <2>1, <2>2, <2>3, <2>4, BudgetStays
<1>7. ASSUME ResolveResult PROVE Budget(d)'
  <2>1. PICK p \in PendingOf(Head(results)) :
          /\ tracked' = tracked \ TrackedOf(p.cmd)
          /\ events' = Pushed(Answered(p.cmd, Head(results)))
          /\ DroppedUnlessRoom(p.cmd)
    BY <1>7 DEF ResolveResult
  <2>2. p.cmd \in Commands /\ Head(results) \in Commands
    BY <1>7, DrainedTypes
       DEF ResolveResult, PendingOf, TypeInv, Tables, TableTypes
  <2>3. Pushes(Answered(p.cmd, Head(results))) /\ ingress' = ingress
    BY <1>7, <2>1 DEF ResolveResult, Pushes
  <2>4. Used(d)' = Used(d) /\ (InIngress(d)' => InIngress(d))
    BY <1>0, <2>2, <2>3, UsedSteps, WhichRequest DEF InIngress
  <2>5. fate'[d] = "new" => fate[d] = "new"
    BY <1>0, <2>1 DEF DroppedUnlessRoom
  <2> QED BY <1>0, <2>1, <2>4, <2>5, BudgetStays
<1>8. ASSUME SendCommand \/ CompleteCommand \/ ProcessOther PROVE Budget(d)'
  <2>1. UNCHANGED <<ingress, tracked, fate>>
    BY <1>8 DEF SendCommand, CompleteCommand, ProcessOther, PopEvent, tableVars
  <2>2. Used(d)' = Used(d) /\ (InIngress(d)' => InIngress(d))
    BY <1>8, <2>1, PopSteps, UsedSteps DEF InIngress
  <2> QED BY <1>0, <2>1, <2>2, BudgetStays
<1>9. ASSUME NEW c \in Commands, HandleTimeout(c) PROVE Budget(d)'
  <2>1. c \in expired /\ UNCHANGED <<ingress, attempts, completed>>
    BY <1>9 DEF HandleTimeout
  <2>2. InIngress(d)' => InIngress(d)
    BY <2>1 DEF InIngress
  <2>3. CASE Retry(c)
    <3>1. PICK t \in TrackedOf(c) :
            /\ t.retries > 0
            /\ Admits(c)
            /\ tracked' = (tracked \ {t})
                 \cup IF Room THEN {[t EXCEPT !.retries = @ - 1]} ELSE {}
            /\ events' = Pushed(Request(t.cmd))
            /\ UNCHANGED fate
      BY <2>3 DEF Retry
    <3>2. /\ t.cmd = c /\ t \in tracked
          /\ t \in [cmd : Commands, retries : 0 .. MaxRetries]
      BY <2>1, <3>1, RetriedIsExpired
         DEF TrackedOf, TypeInv, Tables, TableTypes
    <3>3. Used(d)' = Used(d) + IF Room /\ c = d THEN 1 ELSE 0
      BY <1>0, <2>1, <3>1, <3>2, UsedSteps, WhichRequest DEF Pushes
    <3>4. \A u \in tracked' : u \in tracked
            \/ (Room /\ u.cmd = c /\ u.retries = t.retries - 1)
      BY <3>1, <3>2
    <3>5. CASE d # c \/ ~ Room
      <4>1. Used(d)' = Used(d)
        BY <1>0, <3>3, <3>5
      <4> QED BY <1>0, <2>2, <3>1, <3>4, <3>5, <4>1 DEF Budget
    <3>6. CASE d = c /\ Room
      <4>1. Used(d)' = Used(d) + 1 /\ Used(d) + t.retries <= MaxRetries + 1
        BY <1>0, <3>2, <3>3, <3>6 DEF Budget
      <4>2. \A u \in tracked' : u.cmd = d => u.retries = t.retries - 1
        <5>1. \A u \in tracked : u.cmd = d => u = t
          BY <2>1, <3>1, <3>6, RetriedIsExpired DEF SameId
        <5> QED BY <3>1, <3>2, <5>1
      <4>3. fate[d] = "accepted" /\ ~ InIngress(d)
        BY <2>1, <3>6 DEF StageInv, StageOf, AtNone, AtOne, IsExpired
      <4>4. t.retries \in Nat /\ t.retries > 0
        BY <3>1, <3>2, Sizes
      <4> QED BY <1>0, <2>2, <3>1, <4>1, <4>2, <4>3, <4>4, Sizes DEF Budget
    <3> QED BY <3>5, <3>6
  <2>4. CASE GiveUp(c)
    <3>1. /\ tracked' \subseteq tracked /\ Pushes(TimedOut(c))
          /\ DroppedUnlessRoom(c)
      BY <2>1, <2>4 DEF GiveUp, Pushes
    <3>2. Used(d)' = Used(d)
      BY <1>0, <3>1, UsedSteps, WhichRequest
    <3>3. fate'[d] = "new" => fate[d] = "new"
      BY <1>0, <3>1 DEF DroppedUnlessRoom
    <3> QED BY <1>0, <2>2, <3>1, <3>2, <3>3, BudgetStays
  <2> QED BY <1>9, <2>3, <2>4 DEF HandleTimeout
<1> QED BY <1>1, <1>2, <1>3, <1>4, <1>5, <1>6, <1>7, <1>8, <1>9
      DEF Next, RuntimeTask, Environment

-----------------------------------------------------------------------------
(* The ages of what the dispatcher waits for.                               *)

\* The difference of two times, which wraps.
LEMMA SinceOf ==
    ASSUME NEW a \in Times, NEW b \in Times
    PROVE  /\ Since(a, b) = IF a >= b THEN a - b ELSE a - b + TimeRange
           /\ Since(a, b) \in Times
<1>1. /\ TimeRange \in Nat \ {0} /\ a \in Nat /\ b \in Nat
      /\ a < TimeRange /\ b < TimeRange
  BY Sizes DEF Times
<1>2. CASE a >= b
  <2>1. a - b \in Nat /\ a - b < TimeRange
    BY <1>1, <1>2
  <2>2. (a - b) % TimeRange = a - b
    BY <1>1, <2>1
  <2> QED BY <1>1, <1>2, <2>1, <2>2 DEF Since, Times
<1>3. CASE a < b
  <2> DEFINE r == a - b + TimeRange
  <2>1. r \in Nat /\ r < TimeRange /\ a - b \in Int
    BY <1>1, <1>3
  <2>2. (a - b) % TimeRange = r
    BY <1>1, <2>1
  <2> QED BY <1>1, <1>3, <2>1, <2>2 DEF Since, Times
<1> QED BY <1>1, <1>2, <1>3

\* Ages add up, at most, and grow by one as the clock advances.
LEMMA AgesAdd ==
    ASSUME NEW a \in Times, NEW b \in Times, NEW c \in Times
    PROVE  Since(a, c) <= Since(a, b) + Since(b, c) /\ Since(a, a) = 0
<1>1. /\ Since(a, b) = IF a >= b THEN a - b ELSE a - b + TimeRange
      /\ Since(b, c) = IF b >= c THEN b - c ELSE b - c + TimeRange
      /\ Since(a, c) = IF a >= c THEN a - c ELSE a - c + TimeRange
      /\ Since(a, a) = IF a >= a THEN a - a ELSE a - a + TimeRange
  BY SinceOf
<1>2. /\ TimeRange \in Nat /\ a \in Nat /\ b \in Nat /\ c \in Nat
      /\ a < TimeRange /\ b < TimeRange /\ c < TimeRange
  BY Sizes DEF Times
<1> QED BY <1>1, <1>2

LEMMA AgesGrow ==
    ASSUME NEW a \in Times, NEW b \in Times
    PROVE  /\ Since((a + 1) % TimeRange, b) <= Since(a, b) + 1
           /\ Since(a, b) + 1 < TimeRange
                => Since((a + 1) % TimeRange, b) = Since(a, b) + 1
<1> DEFINE n == IF a + 1 = TimeRange THEN 0 ELSE a + 1
<1>1. /\ TimeRange \in Nat \ {0} /\ a \in Nat /\ b \in Nat
      /\ a < TimeRange /\ b < TimeRange
  BY Sizes DEF Times
<1>2. (a + 1) % TimeRange = n
  <2>1. CASE a + 1 = TimeRange
    <3>1. TimeRange % TimeRange = 0
      BY <1>1
    <3> QED BY <2>1, <3>1
  <2>2. CASE a + 1 < TimeRange
    <3>1. (a + 1) % TimeRange = a + 1
      BY <1>1, <2>2
    <3> QED BY <1>1, <2>2, <3>1
  <2> QED BY <1>1, <2>1, <2>2
<1>3. n \in Times
  BY <1>1 DEF Times
<1>4. /\ Since(n, b) = IF n >= b THEN n - b ELSE n - b + TimeRange
      /\ Since(a, b) = IF a >= b THEN a - b ELSE a - b + TimeRange
  BY <1>3, SinceOf
<1> QED BY <1>1, <1>2, <1>4

\* All times the model compares are times of the clock.
LEMMA AllTimes ==
    ASSUME TypeInv
    PROVE  /\ clock \in Times /\ loopNow \in Times
           /\ \A p \in pending : p.issued \in Times
           /\ ingress \in Seq(Requests) /\ Len(ingress) \in Nat
           /\ \A i \in 1 .. Len(ingress) : ingress[i].issued \in Times
           /\ \A a, b \in Times : Since(a, b) \in Nat
<1>1. clock \in Times /\ loopNow \in Times
  BY DEF TypeInv, LoopTypes
<1>2. \A p \in pending : p.issued \in Times
  <2>1. pending \subseteq [cmd : Commands, issued : Times]
    BY DEF TypeInv, Tables, TableTypes
  <2> QED BY <2>1
<1>3. ingress \in Seq(Requests) /\ Len(ingress) \in Nat
  BY DEF TypeInv, QueueTypes, Requests
<1>4. \A i \in 1 .. Len(ingress) : ingress[i].issued \in Times
  <2>1. \A i \in 1 .. Len(ingress) : ingress[i] \in Requests
    BY <1>3
  <2>2. \A r \in Requests : r.issued \in Times
    BY DEF Requests
  <2> QED BY <2>1, <2>2
<1>5. ASSUME NEW a \in Times, NEW b \in Times PROVE Since(a, b) \in Nat
  <2>1. Since(a, b) \in Times
    BY SinceOf
  <2> QED BY <2>1, Sizes DEF Times
<1> QED BY <1>1, <1>2, <1>3, <1>4, <1>5

\* How far the clock is ahead of the runtime task's reading of it
Lag == Since(clock, loopNow)

\* A command is overlooked by tick for a lag of the loop that admitted it and
\* for one of the next loop; a request waits in the queue for one lag before it
\* is drained.  Without room for events in a loop, nothing is ever admitted.
PendingAges ==
    \A p \in pending :
      Since(clock, p.issued)
        < Timeout + Lag + IF pc \in {"timeouts", "sleep"} THEN 0 ELSE MaxLag
IngressAges ==
    \A i \in 1 .. Len(ingress) :
      Since(clock, ingress[i].issued)
        <= Lag + IF pc = "requests" THEN MaxLag ELSE 0
NothingAdmitted ==
    pending = {} /\ expired = {} /\ pc \in {"sleep", "tick", "timeouts"}

AgeInv ==
    /\ Lag <= MaxLag
    /\ PendingAges
    /\ IF EventsPerCycle > 0 THEN IngressAges ELSE NothingAdmitted

LEMMA InitAges == Init => AgeInv
<1> SUFFICES ASSUME Init PROVE AgeInv
  OBVIOUS
<1>1. Lag = 0
  <2>1. 0 \in Times
    BY Sizes DEF Times
  <2> QED BY <2>1, AgesAdd DEF Init, Lag
<1> QED BY <1>1, Sizes, TimeAssumption
      DEF Init, AgeInv, PendingAges, IngressAges, NothingAdmitted

\* A step at one time that takes up nothing, and goes where the bounds are no
\* tighter or comes from where they were as tight.
LEMMA AgesStay ==
    ASSUME TypeInv, AgeInv, UNCHANGED <<clock, loopNow>>, pending' \subseteq pending,
           ingress' = ingress, expired' \subseteq expired,
           pc \in {"timeouts", "sleep"} \/ pc' \notin {"timeouts", "sleep"},
           pc' = "requests" => EventsPerCycle > 0,
           pc = "requests" => pc' = "requests" \/ ingress = <<>>,
           EventsPerCycle > 0 \/ pc' \in {"sleep", "tick", "timeouts"}
    PROVE  AgeInv'
<1>1. Lag \in Nat /\ MaxLag \in Nat /\ Timeout \in Nat /\ EventsPerCycle \in Nat
  BY AllTimes, Sizes DEF Lag
<1>2. Lag' = Lag
  BY DEF Lag, Since
<1>3. \A p \in pending : Since(clock, p.issued) \in Nat
  BY AllTimes
<1>4. /\ Len(ingress) \in Nat
      /\ \A i \in 1 .. Len(ingress) : Since(clock, ingress[i].issued) \in Nat
  BY AllTimes
<1>5. PendingAges'
  BY <1>1, <1>2, <1>3 DEF AgeInv, PendingAges, Since
<1>6. EventsPerCycle > 0 => IngressAges'
  BY <1>1, <1>2, <1>4 DEF AgeInv, IngressAges, Since
<1>7. EventsPerCycle = 0 => NothingAdmitted'
  BY <1>1 DEF AgeInv, NothingAdmitted
<1> QED BY <1>1, <1>2, <1>5, <1>6, <1>7 DEF AgeInv

\* The oldest request may go, and one posted just now may come.
LEMMA IngressSteps ==
    ASSUME TypeInv, IngressAges, UNCHANGED <<clock, loopNow, pc>>,
           \/ ingress # <<>> /\ ingress' = Tail(ingress)
           \/ \E c \in Commands : ingress' = Append(ingress, [cmd |-> c, issued |-> clock])
    PROVE  IngressAges'
<1> DEFINE b == Lag + IF pc = "requests" THEN MaxLag ELSE 0
<1>1. /\ Lag \in Nat /\ MaxLag \in Nat /\ b \in Nat
      /\ ingress \in Seq(Requests) /\ Len(ingress) \in Nat
  BY AllTimes, Sizes DEF Lag
<1>2. \A i \in 1 .. Len(ingress) : Since(clock, ingress[i].issued) <= b
  BY DEF IngressAges
<1>3. b' = b
  BY DEF Lag, Since
<1> SUFFICES ASSUME NEW i \in 1 .. Len(ingress')
             PROVE  Since(clock, ingress'[i].issued) <= b
  BY <1>3 DEF IngressAges, Since
<1> HIDE DEF b
<1>4. CASE ingress # <<>> /\ ingress' = Tail(ingress)
  <2>1. i + 1 \in 1 .. Len(ingress) /\ ingress'[i] = ingress[i + 1]
    BY <1>1, <1>4
  <2> QED BY <1>2, <2>1
<1>5. ASSUME NEW c \in Commands,
             ingress' = Append(ingress, [cmd |-> c, issued |-> clock])
      PROVE  Since(clock, ingress'[i].issued) <= b
  <2> DEFINE r == [cmd |-> c, issued |-> clock]
  <2>1. r.issued = clock /\ ingress' = Append(ingress, r)
    BY <1>5
  <2> HIDE DEF r
  <2>2. CASE i \in 1 .. Len(ingress)
    <3>1. ingress'[i] = ingress[i]
      BY <1>1, <2>1, <2>2
    <3> QED BY <1>2, <2>2, <3>1
  <2>3. CASE i = Len(ingress) + 1
    <3>1. ingress'[i] = r
      BY <1>1, <2>1, <2>3
    <3>2. Since(clock, clock) = 0
      BY AllTimes, AgesAdd
    <3> QED BY <1>1, <2>1, <3>1, <3>2
  <2> QED BY <1>1, <2>1, <2>2, <2>3
<1> QED BY <1>4, <1>5

LEMMA NextAges == TypeInv /\ IdInv /\ AgeInv /\ [Next]_vars => AgeInv'
<1> SUFFICES ASSUME TypeInv, IdInv, AgeInv, [Next]_vars PROVE AgeInv'
  OBVIOUS
<1>0. /\ Lag \in Nat /\ Lag <= MaxLag /\ MaxLag \in Nat /\ Timeout \in Nat \ {0}
      /\ EventsPerCycle \in Nat
      /\ \A p \in pending : Since(clock, p.issued) \in Nat
      /\ \A i \in 1 .. Len(ingress) : Since(clock, ingress[i].issued) \in Nat
  BY AllTimes, Sizes, TimeAssumption DEF Lag, AgeInv
<1>1. ASSUME NEW c \in Commands, PostAccepted(c) PROVE AgeInv'
  <2>1. /\ UNCHANGED <<clock, loopNow, pc, pending, expired>>
        /\ ingress' = Append(ingress, [cmd |-> c, issued |-> clock])
    BY <1>1 DEF PostAccepted, loopVars, tableVars
  <2>2. Lag' = Lag
    BY <2>1 DEF Lag, Since
  <2>3. PendingAges'
    BY <2>1, <2>2 DEF AgeInv, PendingAges, Since
  <2>4. IngressAges => IngressAges'
    BY <2>1, IngressSteps
  <2> QED BY <1>0, <2>1, <2>2, <2>3, <2>4 DEF AgeInv, NothingAdmitted
<1>2. ASSUME NEW c \in Commands, PostRefused(c) \/ Reply(c) PROVE AgeInv'
  BY <1>0, <1>2, AgesStay
     DEF PostRefused, Reply, loopVars, queueVars, tableVars, AgeInv, NothingAdmitted
<1>3. ASSUME PushOther \/ UNCHANGED vars PROVE AgeInv'
  BY <1>0, <1>3, AgesStay
     DEF PushOther, vars, loopVars, queueVars, tableVars, AgeInv, NothingAdmitted
<1>4. ASSUME RequestsDone \/ ResolveResult \/ IgnoreResult \/ ResultsDone
             \/ NoEvent \/ SendCommand \/ CompleteCommand \/ ProcessOther
      PROVE  AgeInv'
  <2>1. pc \in {"requests", "results", "event"}
    BY <1>4 DEF RequestsDone, ResolveResult, IgnoreResult, ResultsDone, NoEvent,
       SendCommand, CompleteCommand, ProcessOther, PopEvent
  <2>2. EventsPerCycle > 0
    BY <1>0, <2>1 DEF AgeInv, NothingAdmitted
  <2>3. /\ UNCHANGED <<clock, loopNow, ingress, expired>>
        /\ pending' \subseteq pending
        /\ pc' \in {"requests", "results", "event", "tick"}
        /\ pc = "requests" => ingress = <<>>
    BY <1>4 DEF RequestsDone, ResolveResult, IgnoreResult, ResultsDone, NoEvent,
       SendCommand, CompleteCommand, ProcessOther, PopEvent, queueVars, tableVars
  <2> QED BY <2>2, <2>3, AgesStay
<1>5. ASSUME EndLoop PROVE AgeInv'
  BY <1>0, <1>5, AgesStay DEF EndLoop, queueVars, tableVars
<1>6. ASSUME Advance PROVE AgeInv'
  <2>1. /\ Lag < MaxLag /\ clock' = (clock + 1) % TimeRange
        /\ UNCHANGED <<loopNow, pc, ingress, pending, expired>>
    BY <1>6 DEF Advance, Lag, loopVars, queueVars, tableVars
  <2>2. /\ clock \in Times /\ loopNow \in Times
        /\ \A p \in pending : p.issued \in Times
        /\ \A i \in 1 .. Len(ingress) : ingress[i].issued \in Times
        /\ TimeRange \in Nat /\ TimeRange > MaxLag
    BY AllTimes, Sizes, TimeAssumption
  <2>3. clock' \in Times
    BY NextType DEF TypeInv, LoopTypes
  <2>4. Lag' = Lag + 1
    BY <1>0, <2>1, <2>2, AgesGrow DEF Lag
  <2>5. /\ \A t \in Times : Since(clock', t) <= Since(clock, t) + 1
        /\ \A t \in Times : Since(clock', t) \in Nat
    <3>1. \A t \in Times : Since(clock', t) <= Since(clock, t) + 1
      BY <2>1, <2>2, AgesGrow
    <3> QED BY <2>3, <3>1, AllTimes
  <2>6. PendingAges'
    <3> SUFFICES ASSUME NEW p \in pending
                 PROVE  Since(clock', p.issued) < Timeout + Lag'
                          + IF pc \in {"timeouts", "sleep"} THEN 0 ELSE MaxLag
      BY <2>1 DEF PendingAges, Lag, Since
    <3>1. Since(clock, p.issued) < Timeout + Lag
            + IF pc \in {"timeouts", "sleep"} THEN 0 ELSE MaxLag
      BY DEF AgeInv, PendingAges
    <3>2. p.issued \in Times
      BY <2>2
    <3> QED BY <1>0, <2>4, <2>5, <3>1, <3>2
  <2>7. IngressAges => IngressAges'
    <3> SUFFICES ASSUME IngressAges, NEW i \in 1 .. Len(ingress)
                 PROVE  Since(clock', ingress[i].issued)
                          <= Lag' + IF pc = "requests" THEN MaxLag ELSE 0
      BY <2>1 DEF IngressAges, Lag, Since
    <3>1. Since(clock, ingress[i].issued)
            <= Lag + IF pc = "requests" THEN MaxLag ELSE 0
      BY DEF IngressAges
    <3>2. ingress[i].issued \in Times
      BY <2>2
    <3> QED BY <1>0, <2>4, <2>5, <3>1, <3>2
  <2> QED BY <1>0, <2>1, <2>4, <2>6, <2>7 DEF AgeInv, NothingAdmitted
<1>7. ASSUME BeginLoop PROVE AgeInv'
  <2>1. /\ pc = "sleep" /\ loopNow' = clock
        /\ pc' = IF EventsPerCycle > 0 THEN "requests" ELSE "tick"
        /\ UNCHANGED <<clock, ingress, pending, expired>>
    BY <1>7 DEF BeginLoop, queueVars, tableVars
  <2>2. Lag' = 0
    BY <2>1, AllTimes, AgesAdd DEF Lag
  <2>3. PendingAges'
    BY <1>0, <2>1, <2>2 DEF AgeInv, PendingAges, Since
  <2>4. IngressAges /\ EventsPerCycle > 0 => IngressAges'
    BY <1>0, <2>1, <2>2 DEF IngressAges, Since
  <2> QED BY <1>0, <2>1, <2>2, <2>3, <2>4 DEF AgeInv, NothingAdmitted
<1>8. ASSUME AdmitRequest \/ DropRequest PROVE AgeInv'
  <2>1. /\ pc = "requests" /\ ingress # <<>> /\ ingress' = Tail(ingress)
        /\ pending' \subseteq pending \cup {Head(ingress)}
        /\ UNCHANGED <<clock, loopNow, pc>>
    BY <1>8 DEF AdmitRequest, DropRequest, tableVars
  <2>2. EventsPerCycle > 0 /\ IngressAges
    BY <1>0, <2>1 DEF AgeInv, NothingAdmitted
  <2>3. Lag' = Lag
    BY <2>1 DEF Lag, Since
  <2>4. IngressAges'
    BY <2>1, <2>2, IngressSteps
  <2>5. Since(clock, Head(ingress).issued) < Timeout + Lag + MaxLag
    <3>1. 1 \in 1 .. Len(ingress) /\ Head(ingress) = ingress[1]
      BY <2>1, AllTimes
    <3>2. Since(clock, ingress[1].issued) <= Lag + MaxLag
      BY <2>1, <2>2, <3>1 DEF IngressAges
    <3>3. Since(clock, ingress[1].issued) \in Nat
      BY <1>0, <3>1
    <3> QED BY <1>0, <3>1, <3>2, <3>3
  <2>6. PendingAges'
    BY <2>1, <2>3, <2>5 DEF AgeInv, PendingAges, Since
  <2> QED BY <1>0, <2>2, <2>3, <2>4, <2>6 DEF AgeInv
<1>9. ASSUME ExpireTimeouts PROVE AgeInv'
  <2>1. /\ pc = "tick" /\ pc' = "timeouts"
        /\ pending' = {p \in pending : ~ Overdue(p)}
        /\ expired' = {p.cmd : p \in {q \in pending : Overdue(q)}}
        /\ UNCHANGED <<clock, loopNow, ingress>>
    BY <1>9 DEF ExpireTimeouts, queueVars
  <2>2. Lag' = Lag
    BY <2>1 DEF Lag, Since
  <2>3. PendingAges'
    <3> SUFFICES ASSUME NEW p \in pending, ~ Overdue(p)
                 PROVE  Since(clock, p.issued) < Timeout + Lag
      BY <1>0, <2>1, <2>2 DEF PendingAges, Since
    <3>1. /\ Since(clock, p.issued) <= Lag + Since(loopNow, p.issued)
          /\ Since(loopNow, p.issued) \in Nat
      BY AllTimes, AgesAdd DEF Lag
    <3>2. Since(loopNow, p.issued) < Timeout
      BY <1>0, <3>1 DEF Overdue
    <3> QED BY <1>0, <3>1, <3>2
  <2>4. IngressAges => IngressAges'
    BY <2>1, <2>2 DEF IngressAges, Since
  <2>5. NothingAdmitted => NothingAdmitted'
    BY <2>1 DEF NothingAdmitted
  <2> QED BY <1>0, <2>2, <2>3, <2>4, <2>5 DEF AgeInv
<1>10. ASSUME NEW c \in Commands, HandleTimeout(c) PROVE AgeInv'
  <2>1. /\ pc = "timeouts" /\ c \in expired /\ expired' \subseteq expired
        /\ UNCHANGED <<clock, loopNow, pc, ingress>>
    BY <1>10 DEF HandleTimeout, loopVars
  <2>2. EventsPerCycle > 0 /\ IngressAges
    BY <1>0, <2>1 DEF AgeInv, NothingAdmitted
  <2>3. CASE Retry(c)
    <3>1. PICK t \in TrackedOf(c) :
            pending' = pending \cup {[cmd |-> t.cmd, issued |-> loopNow]}
      BY <2>3 DEF Retry
    <3>2. Lag' = Lag
      BY <2>1 DEF Lag, Since
    <3>3. \A p \in pending' : p \in pending \/ p.issued = loopNow
      BY <3>1
    <3>4. Since(clock, loopNow) < Timeout + Lag
      BY <1>0 DEF Lag
    <3>5. PendingAges'
      BY <1>0, <2>1, <3>2, <3>3, <3>4 DEF AgeInv, PendingAges, Since
    <3>6. IngressAges'
      BY <2>1, <2>2, <3>2 DEF IngressAges, Since
    <3> QED BY <1>0, <2>2, <3>2, <3>5, <3>6 DEF AgeInv
  <2>4. CASE GiveUp(c)
    <3>1. pending' = pending
      BY <2>4 DEF GiveUp
    <3> QED BY <2>1, <2>2, <3>1, AgesStay
  <2> QED BY <1>10, <2>3, <2>4 DEF HandleTimeout
<1> QED BY <1>1, <1>2, <1>3, <1>4, <1>5, <1>6, <1>7, <1>8, <1>9, <1>10
      DEF Next, RuntimeTask, Environment

\* No command is sent more often than its retries allow, and none is forgotten
\* by tick for longer than its timeout and a lag of two loops.
THEOREM RetriesStayInLimits == Spec => []RetriesKeepLimits
<1>1. Init => BudgetInv /\ AgeInv
  BY InitBudget, InitAges
<1>2. CommandInv /\ BudgetInv /\ AgeInv /\ [Next]_vars => BudgetInv' /\ AgeInv'
  BY NextBudget, NextAges DEF CommandInv
<1>3. CommandInv /\ BudgetInv /\ AgeInv => RetriesKeepLimits
  <2> SUFFICES ASSUME CommandInv, BudgetInv, AgeInv PROVE RetriesKeepLimits
    OBVIOUS
  <2>1. TypeInv
    BY DEF CommandInv
  <2>2. ASSUME NEW c \in Commands PROVE attempts[c] <= MaxRetries + 1
    <3>1. events \in Seq(AllEvents) /\ attempts[c] \in Nat
      BY <2>1 DEF TypeInv, PastTypes, QueueTypes, AllEvents, CommandEvents
    <3>2. Count(events, RequestsOf(c)) \in Nat
      <4>1. OtherEvent \in AllEvents
        BY DEF AllEvents
      <4> QED BY <3>1, <4>1, CountAppend
    <3>3. attempts[c] + Count(events, RequestsOf(c)) <= MaxRetries + 1
      BY DEF BudgetInv, Budget, Used
    <3> QED BY <3>1, <3>2, <3>3, Sizes
  <2>3. ASSUME NEW p \in pending
        PROVE  Since(clock, p.issued) < Timeout + 2 * MaxLag
    <3>1. Lag \in Nat /\ Lag <= MaxLag /\ Since(clock, p.issued) \in Nat
      BY <2>1, AllTimes DEF Lag, AgeInv
    <3>2. Since(clock, p.issued)
            < Timeout + Lag + IF pc \in {"timeouts", "sleep"} THEN 0 ELSE MaxLag
      BY DEF AgeInv, PendingAges
    <3> QED BY <3>1, <3>2, Sizes
  <2> QED BY <2>2, <2>3 DEF RetriesKeepLimits, AttemptsBounded, PendingIsYoung
<1> QED BY <1>1, <1>2, <1>3, CommandInvariant, PTL DEF Spec

-----------------------------------------------------------------------------
(* Answers.  A result carries the correlation id only, so it completes         *)
(* whichever command with that id is pending.                                 *)

OwnIds == \A c, d \in Commands : SameId(c, d) => c = d

LEMMA AnswersPushed ==
    ASSUME TypeInv, AnswerIsItsOwn, NEW e \in AllEvents, events' = Pushed(e),
           e.kind = "answered" => e.by = e.cmd
    PROVE  AnswerIsItsOwn'
<1>1. events \in Seq(AllEvents)
  BY DEF TypeInv, QueueTypes, AllEvents, CommandEvents
<1>2. CASE Room
  <2>1. events' = Append(events, e)
    BY <1>2 DEF Pushed
  <2>2. /\ DOMAIN events' = 1 .. Len(events) + 1 /\ DOMAIN events = 1 .. Len(events)
        /\ \A i \in DOMAIN events : events'[i] = events[i]
        /\ events'[Len(events) + 1] = e
    BY <1>1, <2>1
  <2>3. \A i \in DOMAIN events' : i \in DOMAIN events \/ i = Len(events) + 1
    BY <1>1, <2>2
  <2> QED BY <2>2, <2>3 DEF AnswerIsItsOwn
<1>3. CASE ~ Room
  <2>1. events' = events
    BY <1>3 DEF Pushed
  <2> QED BY <2>1 DEF AnswerIsItsOwn
<1> QED BY <1>2, <1>3

LEMMA AnswersPopped ==
    ASSUME TypeInv, AnswerIsItsOwn, Pops
    PROVE  AnswerIsItsOwn'
<1>1. events \in Seq(AllEvents) /\ events # <<>> /\ events' = Tail(events)
  BY DEF TypeInv, QueueTypes, AllEvents, CommandEvents, Pops
<1>2. \A i \in DOMAIN events' : i + 1 \in DOMAIN events /\ events'[i] = events[i + 1]
  BY <1>1
<1> QED BY <1>2 DEF AnswerIsItsOwn

LEMMA NextAnswers ==
    ASSUME OwnIds, TypeInv, IdInv, StageInv, AnswerIsItsOwn, [Next]_vars
    PROVE  AnswerIsItsOwn'
<1>1. ASSUME UNCHANGED events PROVE AnswerIsItsOwn'
  BY <1>1 DEF AnswerIsItsOwn
<1>2. ASSUME NEW c \in Commands, PostAccepted(c) \/ PostRefused(c) \/ Reply(c)
      PROVE  UNCHANGED events
  BY <1>2 DEF PostAccepted, PostRefused, Reply, queueVars
<1>3. ASSUME Advance \/ BeginLoop \/ DropRequest \/ RequestsDone \/ IgnoreResult
             \/ ResultsDone \/ NoEvent \/ ExpireTimeouts \/ EndLoop
             \/ UNCHANGED vars
      PROVE  UNCHANGED events
  BY <1>3 DEF Advance, BeginLoop, DropRequest, RequestsDone, IgnoreResult,
     ResultsDone, NoEvent, ExpireTimeouts, EndLoop, vars, queueVars
<1>4. ASSUME PushOther PROVE AnswerIsItsOwn'
  <2>1. events' = Pushed(OtherEvent) /\ OtherEvent \in AllEvents
    BY <1>4 DEF PushOther, AllEvents
  <2>2. OtherEvent.kind # "answered"
    BY DEF OtherEvent
  <2> QED BY <2>1, <2>2, AnswersPushed
<1>5. ASSUME AdmitRequest PROVE AnswerIsItsOwn'
  <2> DEFINE c == Head(ingress).cmd
  <2>1. /\ events' = Pushed(Request(c)) \/ UNCHANGED events
        /\ ingress # <<>>
    BY <1>5 DEF AdmitRequest
  <2>2. c \in Commands
    BY <2>1, DrainedTypes DEF TypeInv
  <2> HIDE DEF c
  <2>3. Request(c) \in AllEvents /\ Request(c).kind # "answered"
    BY <2>2, WhichRequest DEF Request
  <2> QED BY <1>1, <2>1, <2>3, AnswersPushed
<1>6. ASSUME ResolveResult PROVE AnswerIsItsOwn'
  <2> DEFINE a == Head(results)
  <2>1. PICK p \in PendingOf(a) : events' = Pushed(Answered(p.cmd, a))
    BY <1>6 DEF ResolveResult
  <2>2. p.cmd \in Commands /\ a \in Commands /\ SameId(p.cmd, a)
    BY <1>6, <2>1, DrainedTypes
       DEF ResolveResult, PendingOf, TypeInv, Tables, TableTypes
  <2> HIDE DEF a
  <2>3. p.cmd = a
    BY <2>2 DEF OwnIds
  <2>4. Answered(a, a) \in AllEvents /\ Answered(a, a).by = Answered(a, a).cmd
    BY <2>2, WhichRequest DEF Answered
  <2> QED BY <2>1, <2>3, <2>4, AnswersPushed
<1>7. ASSUME NEW c \in Commands, HandleTimeout(c) PROVE AnswerIsItsOwn'
  <2>1. CASE Retry(c)
    <3>1. PICK t \in TrackedOf(c) : events' = Pushed(Request(t.cmd))
      BY <2>1 DEF Retry
    <3>2. t.cmd \in Commands
      BY <3>1 DEF TrackedOf, TypeInv, Tables, TableTypes
    <3>3. Request(t.cmd) \in AllEvents /\ Request(t.cmd).kind # "answered"
      BY <3>2, WhichRequest DEF Request
    <3> QED BY <3>1, <3>3, AnswersPushed
  <2>2. CASE GiveUp(c)
    <3>1. events' = Pushed(TimedOut(c)) /\ TimedOut(c) \in AllEvents
      BY <2>2, WhichRequest DEF GiveUp
    <3>2. TimedOut(c).kind # "answered"
      BY DEF TimedOut
    <3> QED BY <3>1, <3>2, AnswersPushed
  <2> QED BY <1>7, <2>1, <2>2 DEF HandleTimeout
<1>8. ASSUME SendCommand \/ CompleteCommand \/ ProcessOther PROVE AnswerIsItsOwn'
  BY <1>8, PopSteps, AnswersPopped
<1> QED BY <1>1, <1>2, <1>3, <1>4, <1>5, <1>6, <1>7, <1>8
      DEF Next, RuntimeTask, Environment

\* Of commands that have ids of their own none is completed by the answer to another
\* (CommandManager::resolve_command_result); of two that share an id, one may be.
THEOREM OwnIdsOwnAnswers ==
    ASSUME OwnIds
    PROVE  Spec => []AnswerIsItsOwn
<1>1. Init => AnswerIsItsOwn
  BY DEF Init, AnswerIsItsOwn
<1>2. CommandInv /\ AnswerIsItsOwn /\ [Next]_vars => AnswerIsItsOwn'
  BY NextAnswers DEF CommandInv
<1> QED BY <1>1, <1>2, CommandInvariant, PTL DEF Spec

=============================================================================
