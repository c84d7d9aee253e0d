-------------------------- MODULE MqttBridgeProofs --------------------------
(***************************************************************************)
(* Theorems about MqttBridge, for any devices, capacities and bounds: what *)
(* the bridge has cached as told is on its way to the broker, a command    *)
(* under way overrides the snapshots, and a connection that counts as one  *)
(* is subscribed.  The last part is about MatterBridge, whose comparison   *)
(* of snapshot and cache needs the same lemmas on sequences.               *)
(***************************************************************************)
EXTENDS MqttBridge, FiniteSetTheorems, SequenceTheorems, WellFoundedInduction, TLAPS

-----------------------------------------------------------------------------
(* Sequences: the members of what FlattenSeq and SetToSeq return           *)

Members(q) == {q[i] : i \in DOMAIN q}

LEMMA SeqIs ==
    ASSUME NEW S, NEW q \in Seq(S)
    PROVE  /\ Len(q) \in Nat /\ DOMAIN q = 1 .. Len(q)
           /\ \A i \in DOMAIN q : q[i] \in S
           /\ Members(q) \subseteq S
  BY DEF Members

LEMMA ConcatMembers ==
    ASSUME NEW S, NEW p \in Seq(S), NEW q \in Seq(S)
    PROVE  p \o q \in Seq(S) /\ Members(p \o q) = Members(p) \cup Members(q)
<1> DEFINE r == p \o q
<1>1. /\ Len(p) \in Nat /\ DOMAIN p = 1 .. Len(p) /\ Len(q) \in Nat /\ DOMAIN q = 1 .. Len(q)
  BY SeqIs
<1>2. /\ r \in Seq(S) /\ Len(r) = Len(p) + Len(q)
      /\ \A i \in 1 .. Len(p) + Len(q) : r[i] = IF i <= Len(p) THEN p[i] ELSE q[i - Len(p)]
  BY ConcatProperties
<1>3. DOMAIN r = 1 .. Len(p) + Len(q)
  BY <1>2, SeqIs
<1> HIDE DEF r
<1>4. \A i \in DOMAIN p : i \in DOMAIN r /\ r[i] = p[i]
  BY <1>1, <1>2, <1>3
<1>5. \A i \in DOMAIN q : i + Len(p) \in DOMAIN r /\ r[i + Len(p)] = q[i]
  BY <1>1, <1>2, <1>3
<1>6. \A i \in DOMAIN r : \/ i \in DOMAIN p /\ r[i] = p[i]
                          \/ i - Len(p) \in DOMAIN q /\ r[i] = q[i - Len(p)]
  BY <1>1, <1>2, <1>3
<1>7. Members(p) \subseteq Members(r)
  BY <1>4 DEF Members
<1>8. Members(q) \subseteq Members(r)
  BY <1>5 DEF Members
<1>9. Members(r) \subseteq Members(p) \cup Members(q)
  BY <1>6 DEF Members
<1> QED BY <1>2, <1>7, <1>8, <1>9 DEF r

\* The function that FlattenSeq defines, up to n, and that it exists
Flattens(f, seqs, n) == f = [i \in 1 .. n |-> IF i = 1 THEN seqs[i] ELSE f[i - 1] \o seqs[i]]

LEMMA FlattenExists ==
    ASSUME NEW seqs, NEW n \in Nat
    PROVE  \E f : Flattens(f, seqs, n)
<1> DEFINE Bad == {m \in Nat : ~ \E f : Flattens(f, seqs, m)}
           less == OpToRel(<, Nat)
<1>1. IsWellFoundedOn(less, Nat)
  BY NatLessThanWellFounded
<1>2. \A x, y \in Nat : <<y, x>> \in less <=> y < x
  BY DEF OpToRel
<1> HIDE DEF less
<1>3. ASSUME Bad # {} PROVE FALSE
  <2>1. Bad \subseteq Nat
    OBVIOUS
  <2>2. PICK m \in Bad : \A y \in Bad : ~ (<<y, m>> \in less)
    <3> HIDE DEF Bad
    <3> QED BY <1>1, <1>3, <2>1, WFMin
  <2>3. m \in Nat /\ ~ \E f : Flattens(f, seqs, m)
    BY <2>2
  <2>4. CASE m = 0
    <3> DEFINE f == [i \in 1 .. 0 |-> i]
    <3>1. 1 .. 0 = {}
      OBVIOUS
    <3>2. f = [i \in 1 .. 0 |-> IF i = 1 THEN seqs[i] ELSE f[i - 1] \o seqs[i]]
      BY <3>1
    <3>3. Flattens(f, seqs, m)
      BY <2>4, <3>2 DEF Flattens
    <3> QED BY <2>3, <3>3
  <2>5. CASE m # 0
    <3>1. m - 1 \in Nat /\ m - 1 < m
      BY <2>3, <2>5
    <3>2. m - 1 \notin Bad
      BY <1>2, <2>2, <2>3, <3>1
    <3>3. PICK f : Flattens(f, seqs, m - 1)
      BY <3>1, <3>2
    <3> DEFINE g == [i \in 1 .. m |-> IF i = 1 THEN seqs[i] ELSE f[i - 1] \o seqs[i]]
    <3>4. \A i \in 1 .. m - 1 : g[i] = f[i]
      <4>1. f = [i \in 1 .. m - 1 |-> IF i = 1 THEN seqs[i] ELSE f[i - 1] \o seqs[i]]
        BY <3>3 DEF Flattens
      <4>2. \A i \in 1 .. m - 1 : f[i] = IF i = 1 THEN seqs[i] ELSE f[i - 1] \o seqs[i]
        BY <4>1
      <4>3. \A i \in 1 .. m - 1 : i \in 1 .. m
        BY <2>3
      <4>4. \A i \in 1 .. m : g[i] = IF i = 1 THEN seqs[i] ELSE f[i - 1] \o seqs[i]
        OBVIOUS
      <4> HIDE DEF g
      <4> QED BY <4>2, <4>3, <4>4
    <3>5. \A i \in 1 .. m : i # 1 => g[i - 1] = f[i - 1]
      <4>1. \A i \in 1 .. m : i # 1 => i - 1 \in 1 .. m - 1
        BY <2>3
      <4> HIDE DEF g
      <4> QED BY <3>4, <4>1
    <3>6. g = [i \in 1 .. m |-> IF i = 1 THEN seqs[i] ELSE g[i - 1] \o seqs[i]]
      BY <3>5
    <3>7. Flattens(g, seqs, m)
      BY <3>6 DEF Flattens
    <3> QED BY <2>3, <3>7
  <2> QED BY <2>4, <2>5
<1> QED BY <1>3

\* FlattenSeq returns a sequence of the members of all the sequences.
LEMMA FlattenIs ==
    ASSUME NEW S, NEW seqs \in Seq(Seq(S))
    PROVE  /\ FlattenSeq(seqs) \in Seq(S)
           /\ Members(FlattenSeq(seqs)) = UNION {Members(q) : q \in Members(seqs)}
<1> DEFINE n == Len(seqs)
<1>1. n \in Nat /\ DOMAIN seqs = 1 .. n /\ \A i \in 1 .. n : seqs[i] \in Seq(S)
  <2> DEFINE T == Seq(S)
  <2>1. seqs \in Seq(T)
    OBVIOUS
  <2> HIDE DEF T
  <2>2. n \in Nat /\ DOMAIN seqs = 1 .. n /\ \A i \in DOMAIN seqs : seqs[i] \in T
    BY <2>1, SeqIs
  <2> QED BY <2>2 DEF T
<1>2. CASE n = 0
  <2>1. DOMAIN seqs = {}
    BY <1>1, <1>2
  <2>2. FlattenSeq(seqs) = seqs
    BY <1>2 DEF FlattenSeq
  <2>3. seqs = <<>>
    BY <1>2
  <2>4. Members(seqs) = {}
    BY <2>1 DEF Members
  <2> QED BY <2>2, <2>3, <2>4
<1>3. CASE n # 0
  <2>1. \E f : Flattens(f, seqs, n)
    BY <1>1, FlattenExists
  <2>2. PICK f : Flattens(f, seqs, n) /\ FlattenSeq(seqs) = f[n]
    BY <1>3, <2>1 DEF FlattenSeq, Flattens
  <2>3. \A i \in 1 .. n : f[i] = IF i = 1 THEN seqs[i] ELSE f[i - 1] \o seqs[i]
    BY <2>2 DEF Flattens
  <2> DEFINE Until(k) == UNION {Members(seqs[i]) : i \in 1 .. k}
             Good(k) == f[k] \in Seq(S) /\ Members(f[k]) = Until(k)
             Bad == {k \in Nat : k \in 1 .. n /\ ~ Good(k)}
             less == OpToRel(<, Nat)
  <2>4. IsWellFoundedOn(less, Nat)
    BY NatLessThanWellFounded
  <2>5. \A x, y \in Nat : <<y, x>> \in less <=> y < x
    BY DEF OpToRel
  <2> HIDE DEF n, less
  <2>6. ASSUME Bad # {} PROVE FALSE
    <3>1. PICK k \in Bad : \A y \in Bad : ~ (<<y, k>> \in less)
      <4>1. Bad \subseteq Nat
        OBVIOUS
      <4> HIDE DEF Bad
      <4> QED BY <2>4, <2>6, <4>1, WFMin
    <3>2. k \in Nat /\ k \in 1 .. n /\ ~ Good(k)
      BY <3>1
    <3>3. CASE k = 1
      <4>1. 1 .. k = {1}
        BY <3>3
      <4>2. Until(k) = Members(seqs[1])
        BY <4>1
      <4>3. f[k] = seqs[1] /\ seqs[1] \in Seq(S)
        BY <1>1, <2>3, <3>2, <3>3
      <4> QED BY <3>2, <4>2, <4>3
    <3>4. CASE k # 1
      <4>1. k - 1 \in Nat /\ k - 1 \in 1 .. n /\ k - 1 < k
        BY <1>1, <3>2, <3>4
      <4>2. k - 1 \notin Bad
        BY <2>5, <3>1, <3>2, <4>1
      <4>3. Good(k - 1)
        BY <4>1, <4>2
      <4>4. f[k] = f[k - 1] \o seqs[k] /\ seqs[k] \in Seq(S)
        BY <1>1, <2>3, <3>2, <3>4
      <4>5. f[k] \in Seq(S) /\ Members(f[k]) = Until(k - 1) \cup Members(seqs[k])
        BY <4>3, <4>4, ConcatMembers
      <4>6. 1 .. k = (1 .. k - 1) \cup {k}
        BY <3>2, <4>1
      <4>7. Until(k) = Until(k - 1) \cup Members(seqs[k])
        BY <4>6
      <4> QED BY <3>2, <4>5, <4>7
    <3> QED BY <3>3, <3>4
  <2>7. n \in Nat /\ n \in 1 .. n
    BY <1>1, <1>3
  <2>8. Good(n)
    BY <2>6, <2>7
  <2>9. Until(n) = UNION {Members(q) : q \in Members(seqs)}
    <3>1. Members(seqs) = {seqs[i] : i \in 1 .. n}
      BY <1>1 DEF Members
    <3> QED BY <3>1
  <2> QED BY <2>2, <2>8, <2>9
<1> QED BY <1>2, <1>3

\* SetToSeq returns a sequence whose members are those of the set.
LEMMA SetToSeqIs ==
    ASSUME NEW S, IsFiniteSet(S)
    PROVE  SetToSeq(S) \in Seq(S) /\ Members(SetToSeq(S)) = S
<1> DEFINE n == Cardinality(S)
           f == SetToSeq(S)
<1>1. n \in Nat /\ ExistsBijection(1 .. n, S)
  BY FS_CardinalityType
<1>2. \E g \in [1 .. n -> S] : IsInjective(g)
  BY <1>1 DEF ExistsBijection, Bijection, Injection
<1>3. f \in [1 .. n -> S] /\ IsInjective(f)
  BY <1>2 DEF SetToSeq
<1>4. f \in Injection(1 .. n, S)
  BY <1>3 DEF Injection
<1>5. Cardinality(1 .. n) = n
  <2>1. 1 \in Int /\ n \in Int
    BY <1>1
  <2>2. Cardinality(1 .. n) = IF 1 > n THEN 0 ELSE n - 1 + 1
    BY <2>1, FS_Interval
  <2> HIDE DEF n
  <2> QED BY <1>1, <2>2
<1> HIDE DEF f
<1>6. f \in Surjection(1 .. n, S)
  BY <1>4, <1>5, FS_Injection
<1>7. \A s \in S : \E i \in 1 .. n : f[i] = s
  BY <1>6 DEF Surjection
<1> HIDE DEF n
<1>8. f \in Seq(S) /\ DOMAIN f = 1 .. n
  BY <1>1, <1>3
<1>9. Members(f) = S
  BY <1>3, <1>7, <1>8 DEF Members
<1> QED BY <1>8, <1>9 DEF f

-----------------------------------------------------------------------------
(* The value under a topic, when there was another and messages came       *)

Values == BOOLEAN \cup Readings \cup {NoReading} \cup SUBSET {"power", "sensor"}
Messages == [topic : Topics, value : Values]

After(value, messages, topic) ==
    LET about == {i \in DOMAIN messages : messages[i].topic = topic}
    IN IF about = {} THEN value ELSE messages[Max(about)].value

LEMMA LatestIsAfter ==
    ASSUME NEW messages, NEW topic
    PROVE  Latest(messages, topic) = After(retained[topic], messages, topic)
  BY DEF Latest, After

\* The last message about a topic
LEMMA LastExists ==
    ASSUME NEW S \in SUBSET Nat, IsFiniteSet(S), S # {}
    PROVE  Max(S) \in S /\ \A i \in S : Max(S) >= i
<1> DEFINE Largest(m, T) == m \in T /\ \A i \in T : m >= i
           Sizes == {n \in Nat : \E T \in SUBSET S :
                        T # {} /\ Cardinality(T) = n /\ ~ \E m : Largest(m, T)}
           less == OpToRel(<, Nat)
<1>1. IsWellFoundedOn(less, Nat)
  BY NatLessThanWellFounded
<1>2. \A x, y \in Nat : <<y, x>> \in less <=> y < x
  BY DEF OpToRel
<1>3. \A T \in SUBSET S : IsFiniteSet(T) /\ Cardinality(T) \in Nat
  BY FS_Subset, FS_CardinalityType
<1> HIDE DEF less
<1>4. ASSUME Sizes # {} PROVE FALSE
  <2>1. PICK n \in Sizes : \A y \in Sizes : ~ (<<y, n>> \in less)
    <3>1. Sizes \subseteq Nat
      OBVIOUS
    <3> HIDE DEF Sizes
    <3> QED BY <1>1, <1>4, <3>1, WFMin
  <2>2. PICK T \in SUBSET S : T # {} /\ Cardinality(T) = n /\ ~ \E m : Largest(m, T)
    OBVIOUS
  <2>3. PICK x \in T : x \in Nat
    BY <2>2
  <2> DEFINE U == T \ {x}
  <2>4. U \in SUBSET S /\ Cardinality(U) = n - 1 /\ n \in Nat /\ n - 1 \in Nat
    <3>1. IsFiniteSet(T) /\ U \in SUBSET S
      BY <1>3, <2>2
    <3>2. Cardinality(U) = Cardinality(T) - 1
      BY <2>3, <3>1, FS_RemoveElement
    <3>3. Cardinality(U) \in Nat /\ Cardinality(T) \in Nat
      BY <1>3, <2>2, <3>1
    <3> QED BY <2>2, <3>1, <3>2, <3>3
  <2>5. CASE U = {}
    <3>1. Largest(x, T)
      BY <2>3, <2>5
    <3> QED BY <2>2, <3>1
  <2>6. CASE U # {}
    <3>1. n - 1 < n
      BY <2>4
    <3>2. n - 1 \notin Sizes
      BY <1>2, <2>1, <2>4, <3>1
    <3>3. PICK m : Largest(m, U)
      BY <2>4, <2>6, <3>2
    <3>4. m \in T /\ m \in Nat /\ \A i \in U : m >= i /\ i \in Nat
      BY <2>4, <3>3
    <3>5. Largest(m, T) \/ Largest(x, T)
      <4>1. CASE m >= x
        BY <3>4, <4>1
      <4>2. CASE x > m
        <5>1. \A i \in U : x >= i
          BY <2>3, <3>4, <4>2
        <5> QED BY <2>3, <5>1
      <4> QED BY <2>3, <3>4, <4>1, <4>2
    <3> QED BY <2>2, <3>5
  <2> QED BY <2>5, <2>6
<1>5. Cardinality(S) \in Nat
  BY <1>3
<1>6. \E m : Largest(m, S)
  BY <1>4, <1>5
<1> QED BY <1>6 DEF Max

IsLastAbout(q, i, topic) ==
    /\ i \in DOMAIN q /\ q[i].topic = topic
    /\ \A j \in DOMAIN q : q[j].topic = topic => j <= i

\* Silence leaves the value; otherwise the last message about the topic says it.
LEMMA AfterIs ==
    ASSUME NEW q \in Seq(Messages), NEW value, NEW topic
    PROVE  /\ topic \notin TopicsOf(q) => After(value, q, topic) = value
           /\ topic \in TopicsOf(q) =>
                 \E i : IsLastAbout(q, i, topic) /\ After(value, q, topic) = q[i].value
<1> DEFINE about == {i \in DOMAIN q : q[i].topic = topic}
<1>1. Len(q) \in Nat /\ DOMAIN q = 1 .. Len(q)
  BY SeqIs
<1>2. topic \in TopicsOf(q) <=> about # {}
  BY DEF TopicsOf
<1>3. about \in SUBSET Nat /\ IsFiniteSet(about)
  <2>1. about \subseteq 1 .. Len(q) /\ about \subseteq Nat
    BY <1>1
  <2>2. IsFiniteSet(1 .. Len(q))
    <3>1. 1 \in Int /\ Len(q) \in Int
      BY <1>1
    <3> QED BY <3>1, FS_Interval
  <2> HIDE DEF about
  <2> QED BY <2>1, <2>2, FS_Subset
<1>4. ASSUME about # {}
      PROVE  /\ Max(about) \in about /\ \A i \in about : i <= Max(about)
             /\ After(value, q, topic) = q[Max(about)].value
  <2>1. Max(about) \in about /\ \A i \in about : Max(about) >= i
    <3> HIDE DEF about
    <3> QED BY <1>3, <1>4, LastExists
  <2>2. \A i \in about : i <= Max(about)
    BY <2>1, <1>3
  <2>3. After(value, q, topic) = q[Max(about)].value
    BY <1>4 DEF After
  <2> QED BY <2>1, <2>2, <2>3
<1>5. about = {} => After(value, q, topic) = value
  BY DEF After
<1>6. ASSUME about # {} PROVE IsLastAbout(q, Max(about), topic)
  BY <1>4, <1>6 DEF IsLastAbout
<1> QED BY <1>2, <1>4, <1>5, <1>6

\* ... and it is the only one that does.
LEMMA AfterSays ==
    ASSUME NEW q \in Seq(Messages), NEW value, NEW topic, NEW i, IsLastAbout(q, i, topic)
    PROVE  After(value, q, topic) = q[i].value
<1>0. /\ i \in DOMAIN q /\ q[i].topic = topic
      /\ \A j \in DOMAIN q : q[j].topic = topic => j <= i
  BY DEF IsLastAbout
<1>1. topic \in TopicsOf(q)
  BY <1>0 DEF TopicsOf
<1>2. PICK k : IsLastAbout(q, k, topic) /\ After(value, q, topic) = q[k].value
  BY <1>1, AfterIs
<1>3. k \in Nat /\ i \in Nat
  BY <1>0, <1>2, SeqIs DEF IsLastAbout
<1>4. k <= i /\ i <= k
  BY <1>0, <1>2 DEF IsLastAbout
<1>5. k = i
  BY <1>3, <1>4
<1> QED BY <1>2, <1>5

LEMMA TopicsOfConcat ==
    ASSUME NEW p \in Seq(Messages), NEW q \in Seq(Messages)
    PROVE  /\ p \o q \in Seq(Messages)
           /\ TopicsOf(p \o q) = TopicsOf(p) \cup TopicsOf(q)
<1>1. \A r : TopicsOf(r) = {m.topic : m \in Members(r)}
  BY DEF TopicsOf, Members
<1> DEFINE S == Messages
<1>2. p \in Seq(S) /\ q \in Seq(S)
  OBVIOUS
<1> HIDE DEF S
<1>3. p \o q \in Seq(S) /\ Members(p \o q) = Members(p) \cup Members(q)
  BY <1>2, ConcatMembers
<1>4. TopicsOf(p \o q) = TopicsOf(p) \cup TopicsOf(q)
  BY <1>1, <1>3
<1> QED BY <1>3, <1>4 DEF S

\* Messages that come one after the other
LEMMA AfterConcat ==
    ASSUME NEW p \in Seq(Messages), NEW q \in Seq(Messages), NEW value, NEW topic
    PROVE  After(value, p \o q, topic) = After(After(value, p, topic), q, topic)
<1> DEFINE r == p \o q
           S == Messages
<1>0. p \in Seq(S) /\ q \in Seq(S)
  OBVIOUS
<1> HIDE DEF S
<1>1. /\ Len(p) \in Nat /\ DOMAIN p = 1 .. Len(p) /\ Len(q) \in Nat /\ DOMAIN q = 1 .. Len(q)
  BY <1>0, SeqIs
<1>2. /\ r \in Seq(S) /\ Len(r) = Len(p) + Len(q)
      /\ \A i \in 1 .. Len(p) + Len(q) : r[i] = IF i <= Len(p) THEN p[i] ELSE q[i - Len(p)]
  BY <1>0, ConcatProperties
<1>3. DOMAIN r = 1 .. Len(p) + Len(q)
  BY <1>2, SeqIs
<1>4. r \in Seq(Messages)
  BY <1>2 DEF S
<1>5. TopicsOf(r) = TopicsOf(p) \cup TopicsOf(q)
  BY TopicsOfConcat
<1> HIDE DEF r
<1>6. CASE topic \in TopicsOf(q)
  <2>0. PICK i : /\ IsLastAbout(q, i, topic)
                 /\ After(After(value, p, topic), q, topic) = q[i].value
    BY <1>6, AfterIs
  <2>1. /\ i \in DOMAIN q
        /\ q[i].topic = topic /\ After(After(value, p, topic), q, topic) = q[i].value
        /\ \A j \in DOMAIN q : q[j].topic = topic => j <= i
    BY <2>0 DEF IsLastAbout
  <2>2. i + Len(p) \in DOMAIN r /\ r[i + Len(p)] = q[i]
    BY <1>1, <2>1, <1>2, <1>3
  <2>3. \A j \in DOMAIN r : r[j].topic = topic => j <= i + Len(p)
    <3> SUFFICES ASSUME NEW j \in DOMAIN r, r[j].topic = topic PROVE j <= i + Len(p)
      OBVIOUS
    <3>1. CASE j <= Len(p)
      BY <1>1, <2>1, <1>3, <3>1
    <3>2. CASE ~ (j <= Len(p))
      <4>1. j - Len(p) \in DOMAIN q /\ r[j] = q[j - Len(p)]
        BY <1>1, <1>2, <1>3, <3>2
      <4>2. j - Len(p) <= i
        BY <2>1, <4>1
      <4> QED BY <1>1, <2>1, <1>3, <4>2
    <3> QED BY <3>1, <3>2
  <2>4. After(value, r, topic) = r[i + Len(p)].value
    <3> DEFINE k == i + Len(p)
    <3>1. k \in DOMAIN r /\ r[k].topic = topic /\ r \in Seq(Messages)
      BY <1>4, <2>1, <2>2
    <3>2. \A j \in DOMAIN r : r[j].topic = topic => j <= k
      BY <2>3
    <3> HIDE DEF r, k
    <3>3. After(value, r, topic) = r[k].value
      <4>1. IsLastAbout(r, k, topic)
        BY <3>1, <3>2 DEF IsLastAbout
      <4> QED BY <3>1, <4>1, AfterSays
    <3> QED BY <3>3 DEF k
  <2> QED BY <2>1, <2>2, <2>4 DEF r
<1>7. CASE topic \notin TopicsOf(q) /\ topic \in TopicsOf(p)
  <2>0. PICK i : IsLastAbout(p, i, topic) /\ After(value, p, topic) = p[i].value
    BY <1>7, AfterIs
  <2>1. /\ i \in DOMAIN p
        /\ p[i].topic = topic /\ After(value, p, topic) = p[i].value
        /\ \A j \in DOMAIN p : p[j].topic = topic => j <= i
    BY <2>0 DEF IsLastAbout
  <2>2. i \in DOMAIN r /\ r[i] = p[i]
    BY <1>1, <2>1, <1>2, <1>3
  <2>3. \A j \in DOMAIN q : q[j].topic # topic
    BY <1>7 DEF TopicsOf
  <2>4. \A j \in DOMAIN r : r[j].topic = topic => j <= i
    <3> SUFFICES ASSUME NEW j \in DOMAIN r, r[j].topic = topic PROVE j <= i
      OBVIOUS
    <3>1. CASE j <= Len(p)
      <4>1. j \in DOMAIN p /\ r[j] = p[j]
        BY <1>1, <1>2, <1>3, <3>1
      <4> QED BY <2>1, <4>1
    <3>2. CASE ~ (j <= Len(p))
      <4>1. j - Len(p) \in DOMAIN q /\ r[j] = q[j - Len(p)]
        BY <1>1, <1>2, <1>3, <3>2
      <4> QED BY <2>3, <4>1
    <3> QED BY <3>1, <3>2
  <2>5. After(value, r, topic) = r[i].value
    <3>1. i \in DOMAIN r /\ r[i].topic = topic /\ r \in Seq(Messages)
      BY <1>4, <2>1, <2>2
    <3> HIDE DEF r
    <3>2. IsLastAbout(r, i, topic)
      BY <2>4, <3>1 DEF IsLastAbout
    <3> QED BY <3>1, <3>2, AfterSays
  <2>6. After(After(value, p, topic), q, topic) = After(value, p, topic)
    BY <1>7, AfterIs
  <2> QED BY <2>1, <2>2, <2>5, <2>6 DEF r
<1>8. CASE topic \notin TopicsOf(q) /\ topic \notin TopicsOf(p)
  <2>1. After(After(value, p, topic), q, topic) = After(value, p, topic)
    BY <1>8, AfterIs
  <2>2. After(value, p, topic) = value
    BY <1>8, AfterIs
  <2>3. After(value, r, topic) = value
    BY <1>4, <1>5, <1>8, AfterIs
  <2> QED BY <2>1, <2>2, <2>3 DEF r
<1> QED BY <1>6, <1>7, <1>8

\* What came before is forgotten when there is a message about the topic.
LEMMA AfterTold ==
    ASSUME NEW q \in Seq(Messages), NEW topic \in TopicsOf(q), NEW x, NEW y
    PROVE  After(x, q, topic) = After(y, q, topic)
  BY DEF After, TopicsOf

\* One of the messages says it.
LEMMA AfterIsSaid ==
    ASSUME NEW q \in Seq(Messages), NEW topic \in TopicsOf(q), NEW x
    PROVE  \E m \in Members(q) : m.topic = topic /\ After(x, q, topic) = m.value
<1>1. PICK i : IsLastAbout(q, i, topic) /\ After(x, q, topic) = q[i].value
  BY AfterIs
<1> QED BY <1>1 DEF IsLastAbout, Members

-----------------------------------------------------------------------------
(* What the bridge publishes                                               *)

Snapshots == [Devices -> Present \cup {None}]

Said(kind, d, value) == [topic |-> <<kind, d>>, value |-> value]

LEMMA OneMessage ==
    ASSUME NEW m \in Messages
    PROVE  /\ <<m>> \in Seq(Messages) /\ Members(<<m>>) = {m} /\ TopicsOf(<<m>>) = {m.topic}
           /\ \A x : After(x, <<m>>, m.topic) = m.value
<1> DEFINE q == <<m>>
<1>1. q \in Seq(Messages) /\ DOMAIN q = {1} /\ q[1] = m
  OBVIOUS
<1> HIDE DEF q
<1>2. Members(q) = {m} /\ TopicsOf(q) = {m.topic}
  BY <1>1 DEF Members, TopicsOf
<1>3. \A x : After(x, q, m.topic) = m.value
  <2>1. m.topic \in TopicsOf(q)
    BY <1>2
  <2> QED BY <1>1, <1>2, <2>1, AfterIsSaid
<1> QED BY <1>1, <1>2, <1>3 DEF q

LEMMA SaidIs ==
    ASSUME NEW kind \in Kinds, NEW d \in Devices, NEW value \in Values
    PROVE  /\ Said(kind, d, value) \in Messages /\ Said(kind, d, value).topic \in Topics
           /\ Said(kind, d, value).topic = <<kind, d>> /\ Said(kind, d, value).value = value
           /\ Message(kind, d, value) = <<Said(kind, d, value)>>
  BY DEF Said, Messages, Message, Topics

LEMMA MessageIs ==
    ASSUME NEW kind \in Kinds, NEW d \in Devices, NEW value \in Values
    PROVE  /\ Message(kind, d, value) \in Seq(Messages)
           /\ Members(Message(kind, d, value)) = {Said(kind, d, value)}
           /\ TopicsOf(Message(kind, d, value)) = {<<kind, d>>}
           /\ \A x : After(x, Message(kind, d, value), <<kind, d>>) = value
<1> DEFINE m == Said(kind, d, value)
<1>1. /\ m \in Messages /\ m.topic = <<kind, d>> /\ m.value = value
      /\ Message(kind, d, value) = <<m>>
  BY SaidIs
<1> HIDE DEF m
<1>2. /\ <<m>> \in Seq(Messages) /\ Members(<<m>>) = {m} /\ TopicsOf(<<m>>) = {m.topic}
      /\ \A x : After(x, <<m>>, m.topic) = m.value
  BY <1>1, OneMessage
<1> QED BY <1>1, <1>2 DEF m

LEMMA NoneIsOther ==
    /\ None \notin Present
    /\ None \notin {"connected", "subscribe", "error", "disconnected"}
    /\ IsFiniteSet(Devices) /\ NoReading \notin Readings
    /\ MaxDevices \in Nat \ {0} /\ BatchBound \in Nat \ {0} /\ Window \in Nat \ {0}
    /\ MaxChanges \in Nat /\ MaxCommands \in Nat /\ MaxFaults \in Nat
    /\ QueueBound \in Nat
    /\ Restored \subseteq Snapshots
  BY MqttBridgeBounds DEF QueueBound, Snapshots

LEMMA DeviceIs ==
    ASSUME NEW device \in Present
    PROVE  /\ device # None
           /\ device.power \in BOOLEAN /\ device.power \in Values
           /\ device.reading \in Readings \cup {NoReading} /\ device.reading \in Values
           /\ Entities(device) \in Values
  BY NoneIsOther DEF Present, Values, Entities, PowerEntity, SensorEntity

\* The messages about a device of the snapshot
UpdateOf(d, previous, current) ==
    IF previous = None
    THEN {Said("availability", d, TRUE), Said("state", d, current.power),
          Said("telemetry", d, current.reading)}
    ELSE {m \in {Said("state", d, current.power)} : previous.power # current.power}
         \cup {m \in {Said("telemetry", d, current.reading)} : previous.reading # current.reading}

LEMMA UpdatesAre ==
    ASSUME NEW d \in Devices, NEW previous \in Present \cup {None}, NEW current \in Present
    PROVE  /\ Updates(d, previous, current) \in Seq(Messages)
           /\ Members(Updates(d, previous, current)) = UpdateOf(d, previous, current)
<1> DEFINE S == Messages
           a == Availability(d, TRUE)
           s == State(d, current)
           t == Telemetry(d, current)
           ma == Said("availability", d, TRUE)
           ms == Said("state", d, current.power)
           mt == Said("telemetry", d, current.reading)
<1>1. a \in Seq(S) /\ Members(a) = {ma}
  <2>1. "availability" \in Kinds /\ TRUE \in Values
    BY DEF Kinds, Values
  <2>2. /\ Message("availability", d, TRUE) \in Seq(Messages)
        /\ Members(Message("availability", d, TRUE)) = {Said("availability", d, TRUE)}
    BY <2>1, MessageIs
  <2> QED BY <2>2 DEF Availability
<1>2. s \in Seq(S) /\ Members(s) = {ms}
  <2>1. "state" \in Kinds /\ current.power \in Values
    BY DeviceIs DEF Kinds
  <2>2. /\ Message("state", d, current.power) \in Seq(Messages)
        /\ Members(Message("state", d, current.power)) = {Said("state", d, current.power)}
    BY <2>1, MessageIs
  <2> QED BY <2>2 DEF State
<1>3. t \in Seq(S) /\ Members(t) = {mt}
  <2>1. "telemetry" \in Kinds /\ current.reading \in Values
    BY DeviceIs DEF Kinds
  <2>2. /\ Message("telemetry", d, current.reading) \in Seq(Messages)
        /\ Members(Message("telemetry", d, current.reading)) = {Said("telemetry", d, current.reading)}
    BY <2>1, MessageIs
  <2> QED BY <2>2 DEF Telemetry
<1>4. <<>> \in Seq(S) /\ Members(<<>>) = {}
  BY DEF Members
<1>5. CASE previous = None
  <2>1. Updates(d, previous, current) = a \o s \o t
    BY <1>5 DEF Updates
  <2> HIDE DEF S, a, s, t, ma, ms, mt
  <2>2. a \o s \in Seq(S) /\ Members(a \o s) = {ma, ms}
    BY <1>1, <1>2, ConcatMembers
  <2>3. (a \o s) \o t \in Seq(S) /\ Members((a \o s) \o t) = {ma, ms, mt}
    <3> DEFINE p == a \o s
    <3>1. p \in Seq(S) /\ Members(p) = {ma, ms}
      BY <2>2
    <3> HIDE DEF p
    <3>2. p \o t \in Seq(S) /\ Members(p \o t) = Members(p) \cup Members(t)
      BY <1>3, <3>1, ConcatMembers
    <3>3. p \o t \in Seq(S) /\ Members(p \o t) = {ma, ms, mt}
      BY <1>3, <3>1, <3>2
    <3> QED BY <3>3 DEF p
  <2>4. UpdateOf(d, previous, current) = {ma, ms, mt}
    BY <1>5 DEF UpdateOf, ma, ms, mt
  <2> QED BY <2>1, <2>3, <2>4 DEF S
<1>6. CASE previous # None
  <2> DEFINE p == When(previous.power # current.power, s)
             r == When(previous.reading # current.reading, t)
             ps == {m \in {ms} : previous.power # current.power}
             rs == {m \in {mt} : previous.reading # current.reading}
  <2>1. Updates(d, previous, current) = p \o r
    BY <1>6 DEF Updates
  <2>2. UpdateOf(d, previous, current) = ps \cup rs
    BY <1>6 DEF UpdateOf
  <2> HIDE DEF S, a, s, t, ma, ms, mt
  <2>3. p \in Seq(S) /\ Members(p) = ps
    <3>1. CASE previous.power # current.power
      BY <1>2, <3>1 DEF When
    <3>2. CASE previous.power = current.power
      BY <1>4, <3>2 DEF When
    <3> QED BY <3>1, <3>2
  <2>4. r \in Seq(S) /\ Members(r) = rs
    <3>1. CASE previous.reading # current.reading
      BY <1>3, <3>1 DEF When
    <3>2. CASE previous.reading = current.reading
      BY <1>4, <3>2 DEF When
    <3> QED BY <3>1, <3>2
  <2> HIDE DEF p, r, ps, rs
  <2>5. p \o r \in Seq(S) /\ Members(p \o r) = ps \cup rs
    BY <2>3, <2>4, ConcatMembers
  <2> QED BY <2>1, <2>2, <2>5 DEF S
<1> QED BY <1>5, <1>6

LEMMA OnlineIs ==
    ASSUME NEW snapshot \in Snapshots
    PROVE  /\ IsFiniteSet(Online(snapshot)) /\ Online(snapshot) \subseteq Devices
           /\ \A d \in Online(snapshot) : snapshot[d] \in Present
<1>1. Online(snapshot) \in SUBSET Devices
  BY DEF Online
<1>2. IsFiniteSet(Online(snapshot))
  BY <1>1, NoneIsOther, FS_Subset
<1> QED BY <1>1, <1>2 DEF Online, Snapshots

LEMMA AllUpdates ==
    ASSUME NEW snapshot \in Snapshots, cache \in Snapshots
    PROVE  LET q == ForEach(Online(snapshot), LAMBDA d : Updates(d, cache[d], snapshot[d]))
           IN /\ q \in Seq(Messages)
              /\ Members(q) = UNION {UpdateOf(d, cache[d], snapshot[d]) : d \in Online(snapshot)}
<1> DEFINE ds == Online(snapshot)
           order == SetToSeq(ds)
           seqs == [i \in DOMAIN order |->
                      Updates(order[i], cache[order[i]], snapshot[order[i]])]
           S == Messages
<1>1. order \in Seq(ds) /\ Members(order) = ds
  BY OnlineIs, SetToSeqIs
<1>2. Len(order) \in Nat /\ DOMAIN order = 1 .. Len(order)
      /\ \A i \in DOMAIN order : order[i] \in ds
  <2> HIDE DEF ds, order
  <2> QED BY <1>1, SeqIs
<1>3. \A d \in ds : /\ Updates(d, cache[d], snapshot[d]) \in Seq(S)
                    /\ Members(Updates(d, cache[d], snapshot[d]))
                          = UpdateOf(d, cache[d], snapshot[d])
  BY OnlineIs, UpdatesAre DEF Snapshots
<1>4. ForEach(ds, LAMBDA d : Updates(d, cache[d], snapshot[d])) = FlattenSeq(seqs)
  BY DEF ForEach
<1> HIDE DEF ds, order, S
<1>5. seqs \in Seq(Seq(S))
  BY <1>2, <1>3
<1>6. Members(seqs) = {Updates(d, cache[d], snapshot[d]) : d \in ds}
  BY <1>1 DEF Members
<1> HIDE DEF seqs
<1>7. /\ FlattenSeq(seqs) \in Seq(S)
      /\ Members(FlattenSeq(seqs)) = UNION {Members(q) : q \in Members(seqs)}
  BY <1>5, FlattenIs
<1>8. UNION {Members(q) : q \in Members(seqs)}
        = UNION {UpdateOf(d, cache[d], snapshot[d]) : d \in ds}
  BY <1>3, <1>6
<1> QED BY <1>4, <1>7, <1>8 DEF ds, S

LEMMA AllDepartures ==
    ASSUME NEW snapshot \in Snapshots, cache \in Snapshots
    PROVE  LET ds == Online(cache) \ Online(snapshot)
               q == ForEach(ds, Departure)
           IN q \in Seq(Messages) /\ Members(q) = {Said("availability", d, FALSE) : d \in ds}
<1> DEFINE ds == Online(cache) \ Online(snapshot)
           order == SetToSeq(ds)
           seqs == [i \in DOMAIN order |-> Departure(order[i])]
           S == Messages
           Gone == {Said("availability", d, FALSE) : d \in ds}
           q0 == ForEach(ds, Departure)
<1>0. IsFiniteSet(ds) /\ ds \subseteq Devices
  <2>1. IsFiniteSet(Online(cache)) /\ Online(cache) \subseteq Devices
    BY OnlineIs
  <2> QED BY <2>1, FS_Difference
<1>1. order \in Seq(ds) /\ Members(order) = ds
  BY <1>0, SetToSeqIs
<1>2. Len(order) \in Nat /\ DOMAIN order = 1 .. Len(order)
      /\ \A i \in DOMAIN order : order[i] \in ds
  <2> HIDE DEF ds, order
  <2> QED BY <1>1, SeqIs
<1>3. \A d \in ds : /\ Departure(d) \in Seq(S)
                    /\ Members(Departure(d)) = {Said("availability", d, FALSE)}
  <2>1. "availability" \in Kinds /\ FALSE \in Values
    BY DEF Kinds, Values
  <2>2. \A d \in Devices :
            /\ Message("availability", d, FALSE) \in Seq(Messages)
            /\ Members(Message("availability", d, FALSE)) = {Said("availability", d, FALSE)}
    BY <2>1, MessageIs
  <2> QED BY <1>0, <2>2 DEF Departure, Availability
<1>4. q0 = FlattenSeq(seqs)
  BY DEF ForEach
<1> HIDE DEF ds, order, S
<1>5. seqs \in Seq(Seq(S))
  <2> DEFINE T == Seq(S)
  <2>1. \A i \in DOMAIN order : Departure(order[i]) \in T
    BY <1>2, <1>3
  <2> HIDE DEF T
  <2>2. seqs \in Seq(T)
    BY <1>2, <2>1
  <2> QED BY <2>2 DEF T
<1>6. Members(seqs) = {Departure(d) : d \in ds}
  BY <1>1 DEF Members
<1> HIDE DEF seqs
<1>7. /\ FlattenSeq(seqs) \in Seq(S)
      /\ Members(FlattenSeq(seqs)) = UNION {Members(q) : q \in Members(seqs)}
  BY <1>5, FlattenIs
<1>8. UNION {Members(q) : q \in Members(seqs)} = Gone
  <2>1. \A d \in ds : Departure(d) \in Members(seqs)
    BY <1>6
  <2>2. \A q \in Members(seqs) : \E d \in ds : q = Departure(d)
    BY <1>6
  <2>3. \A d \in ds : Members(Departure(d)) = {Said("availability", d, FALSE)}
    BY <1>3
  <2>4. ASSUME NEW q \in Members(seqs), NEW m \in Members(q) PROVE m \in Gone
    <3>1. PICK d \in ds : q = Departure(d)
      BY <2>2
    <3>2. m = Said("availability", d, FALSE)
      BY <2>3, <2>4, <3>1
    <3> QED BY <3>2
  <2>5. ASSUME NEW d \in ds
        PROVE  Said("availability", d, FALSE) \in UNION {Members(q) : q \in Members(seqs)}
    BY <2>1, <2>3
  <2> QED BY <2>4, <2>5
<1> HIDE DEF q0, Gone
<1>9. q0 \in Seq(S) /\ Members(q0) = Gone
  BY <1>4, <1>7, <1>8
<1> QED BY <1>9 DEF ds, S, Gone, q0

LEMMA PublicationsAre ==
    ASSUME NEW snapshot \in Snapshots, cache \in Snapshots
    PROVE  /\ Publications(snapshot) \in Seq(Messages)
           /\ Members(Publications(snapshot)) =
                (UNION {UpdateOf(d, cache[d], snapshot[d]) : d \in Online(snapshot)})
                \cup {Said("availability", d, FALSE) : d \in Online(cache) \ Online(snapshot)}
<1> DEFINE S == Messages
           p == ForEach(Online(snapshot), LAMBDA d : Updates(d, cache[d], snapshot[d]))
           q == ForEach(Online(cache) \ Online(snapshot), Departure)
           A == UNION {UpdateOf(d, cache[d], snapshot[d]) : d \in Online(snapshot)}
           B == {Said("availability", d, FALSE) : d \in Online(cache) \ Online(snapshot)}
<1>1. p \in Seq(S) /\ Members(p) = A
  BY AllUpdates
<1>2. q \in Seq(S) /\ Members(q) = B
  BY AllDepartures
<1>3. Publications(snapshot) = p \o q
  BY DEF Publications
<1> HIDE DEF S, p, q, A, B
<1>4. p \o q \in Seq(S) /\ Members(p \o q) = Members(p) \cup Members(q)
  BY <1>1, <1>2, ConcatMembers
<1>5. Publications(snapshot) \in Seq(S) /\ Members(Publications(snapshot)) = A \cup B
  BY <1>1, <1>2, <1>3, <1>4
<1> QED BY <1>5 DEF S, A, B

\* The messages of the discovery, for a snapshot
Discoveries(snapshot) == ForEach(Rediscovered(snapshot), LAMBDA d : Discovery(d, snapshot[d]))

LEMMA DiscoveriesAre ==
    ASSUME NEW snapshot \in Snapshots
    PROVE  /\ Discoveries(snapshot) \in Seq(Messages)
           /\ Members(Discoveries(snapshot)) =
                {Said("discovery", d, Entities(snapshot[d])) : d \in Rediscovered(snapshot)}
<1> DEFINE ds == Rediscovered(snapshot)
           order == SetToSeq(ds)
           seqs == [i \in DOMAIN order |-> Discovery(order[i], snapshot[order[i]])]
           S == Messages
           Found == {Said("discovery", d, Entities(snapshot[d])) : d \in ds}
<1>0. /\ IsFiniteSet(ds) /\ ds \subseteq Devices
      /\ \A d \in ds : snapshot[d] \in Present
  <2>1. ds \subseteq Online(snapshot)
    BY DEF Rediscovered
  <2>2. IsFiniteSet(Online(snapshot)) /\ Online(snapshot) \subseteq Devices
        /\ \A d \in Online(snapshot) : snapshot[d] \in Present
    BY OnlineIs
  <2>3. IsFiniteSet(ds)
    BY <2>1, <2>2, FS_Subset
  <2> QED BY <2>1, <2>2, <2>3
<1>1. order \in Seq(ds) /\ Members(order) = ds
  BY <1>0, SetToSeqIs
<1>2. Len(order) \in Nat /\ DOMAIN order = 1 .. Len(order)
      /\ \A i \in DOMAIN order : order[i] \in ds
  <2> HIDE DEF ds, order
  <2> QED BY <1>1, SeqIs
<1>3. \A d \in ds : /\ Discovery(d, snapshot[d]) \in Seq(S)
                    /\ Members(Discovery(d, snapshot[d]))
                         = {Said("discovery", d, Entities(snapshot[d]))}
  <2> SUFFICES ASSUME NEW d \in ds
               PROVE  /\ Discovery(d, snapshot[d]) \in Seq(S)
                      /\ Members(Discovery(d, snapshot[d]))
                           = {Said("discovery", d, Entities(snapshot[d]))}
    OBVIOUS
  <2> DEFINE v == Entities(snapshot[d])
  <2>1. "discovery" \in Kinds /\ v \in Values /\ d \in Devices
    BY <1>0, DeviceIs DEF Kinds
  <2> HIDE DEF v
  <2>2. /\ Message("discovery", d, v) \in Seq(Messages)
        /\ Members(Message("discovery", d, v)) = {Said("discovery", d, v)}
    BY <2>1, MessageIs
  <2> QED BY <2>2 DEF Discovery, v
<1>4. Discoveries(snapshot) = FlattenSeq(seqs)
  BY DEF Discoveries, ForEach
<1> HIDE DEF ds, order, S
<1>5. seqs \in Seq(Seq(S))
  BY <1>2, <1>3
<1>6. Members(seqs) = {Discovery(d, snapshot[d]) : d \in ds}
  BY <1>1 DEF Members
<1> HIDE DEF seqs
<1>7. /\ FlattenSeq(seqs) \in Seq(S)
      /\ Members(FlattenSeq(seqs)) = UNION {Members(q) : q \in Members(seqs)}
  BY <1>5, FlattenIs
<1>8. UNION {Members(q) : q \in Members(seqs)} = Found
  <2>1. \A d \in ds : Discovery(d, snapshot[d]) \in Members(seqs)
    BY <1>6
  <2>2. \A q \in Members(seqs) : \E d \in ds : q = Discovery(d, snapshot[d])
    BY <1>6
  <2>3. \A d \in ds : Members(Discovery(d, snapshot[d])) = {Said("discovery", d, Entities(snapshot[d]))}
    BY <1>3
  <2>4. ASSUME NEW q \in Members(seqs), NEW m \in Members(q) PROVE m \in Found
    <3>1. PICK d \in ds : q = Discovery(d, snapshot[d])
      BY <2>2
    <3>2. m = Said("discovery", d, Entities(snapshot[d]))
      BY <2>3, <2>4, <3>1
    <3> QED BY <3>2
  <2>5. ASSUME NEW d \in ds
        PROVE  Said("discovery", d, Entities(snapshot[d])) \in UNION {Members(q) : q \in Members(seqs)}
    BY <2>1, <2>3
  <2> QED BY <2>4, <2>5
<1> HIDE DEF Found
<1>9. Discoveries(snapshot) \in Seq(S) /\ Members(Discoveries(snapshot)) = Found
  BY <1>4, <1>7, <1>8
<1> QED BY <1>9 DEF ds, S, Found

\* What the bridge publishes of a snapshot is an image of it.
LEMMA MessagesMirror ==
    ASSUME NEW snapshot \in Snapshots, cache \in Snapshots,
           NEW m \in Members(Publications(snapshot)) \cup Members(Discoveries(snapshot))
    PROVE  Mirrors(m.topic, m.value, snapshot)
<1>1. ASSUME NEW d \in Online(snapshot), m \in UpdateOf(d, cache[d], snapshot[d])
      PROVE  Mirrors(m.topic, m.value, snapshot)
  <2>1. snapshot[d] # None
    BY DEF Online
  <2>2. \/ m = Said("availability", d, TRUE)
        \/ m = Said("state", d, snapshot[d].power)
        \/ m = Said("telemetry", d, snapshot[d].reading)
    BY <1>1 DEF UpdateOf
  <2>3. CASE m = Said("availability", d, TRUE)
    BY <2>1, <2>3 DEF Mirrors, Said
  <2>4. CASE m = Said("state", d, snapshot[d].power)
    BY <2>1, <2>4 DEF Mirrors, Said
  <2>5. CASE m = Said("telemetry", d, snapshot[d].reading)
    BY <2>1, <2>5 DEF Mirrors, Said
  <2> QED BY <2>2, <2>3, <2>4, <2>5
<1>2. ASSUME NEW d \in Online(cache) \ Online(snapshot), m = Said("availability", d, FALSE)
      PROVE  Mirrors(m.topic, m.value, snapshot)
  <2>1. snapshot[d] = None
    BY OnlineIs DEF Online
  <2> QED BY <1>2, <2>1 DEF Mirrors, Said
<1>3. ASSUME NEW d \in Rediscovered(snapshot),
             m = Said("discovery", d, Entities(snapshot[d]))
      PROVE  Mirrors(m.topic, m.value, snapshot)
  <2>1. snapshot[d] # None
    BY DEF Online, Rediscovered
  <2> QED BY <1>3, <2>1 DEF Mirrors, Said
<1>4. CASE m \in Members(Publications(snapshot))
  <2>1. \/ m \in UNION {UpdateOf(d, cache[d], snapshot[d]) : d \in Online(snapshot)}
        \/ m \in {Said("availability", d, FALSE) : d \in Online(cache) \ Online(snapshot)}
    BY <1>4, PublicationsAre
  <2>2. CASE \E d \in Online(snapshot) : m \in UpdateOf(d, cache[d], snapshot[d])
    BY <1>1, <2>2
  <2>3. CASE \E d \in Online(cache) \ Online(snapshot) : m = Said("availability", d, FALSE)
    BY <1>2, <2>3
  <2> QED BY <2>1, <2>2, <2>3
<1>5. CASE m \in Members(Discoveries(snapshot))
  <2>1. \E d \in Rediscovered(snapshot) : m = Said("discovery", d, Entities(snapshot[d]))
    BY <1>5, DiscoveriesAre
  <2> QED BY <1>3, <2>1
<1> QED BY <1>4, <1>5

LEMMA TopicsAre ==
    ASSUME NEW q
    PROVE  TopicsOf(q) = {m.topic : m \in Members(q)}
  BY DEF TopicsOf, Members

\* What it says nothing about is unchanged.
LEMMA SilentIsSame ==
    ASSUME NEW snapshot \in Snapshots, cache \in Snapshots, NEW topic \in Topics, NEW value,
           topic \notin TopicsOf(Publications(snapshot)),
           topic \notin TopicsOf(Discoveries(snapshot)),
           Mirrors(topic, value, cache)
    PROVE  Mirrors(topic, value, snapshot)
<1>1. PICK kind \in Kinds, d \in Devices : topic = <<kind, d>>
  BY DEF Topics
<1>2. \A m \in Members(Publications(snapshot)) \cup Members(Discoveries(snapshot)) :
          m.topic # topic
  BY TopicsAre
<1>3. \A k, v : Said(k, d, v).topic = <<k, d>>
  BY DEF Said
<1>4. topic[1] = kind /\ topic[2] = d
  BY <1>1
<1>5. CASE snapshot[d] = None
  <2>1. CASE cache[d] = None
    BY <1>4, <1>5, <2>1 DEF Mirrors
  <2>2. CASE cache[d] # None
    <3>1. d \in Online(cache) \ Online(snapshot)
      BY <1>5, <2>2 DEF Online
    <3>2. Said("availability", d, FALSE) \in Members(Publications(snapshot))
      <4>1. Said("availability", d, FALSE) \in
               {Said("availability", e, FALSE) : e \in Online(cache) \ Online(snapshot)}
        BY <3>1
      <4> QED BY <4>1, PublicationsAre
    <3>3. kind # "availability"
      BY <1>1, <1>2, <1>3, <3>2
    <3> QED BY <1>4, <1>5, <3>3 DEF Mirrors
  <2> QED BY <2>1, <2>2
<1>6. CASE snapshot[d] # None
  <2>1. d \in Online(snapshot)
    BY <1>6 DEF Online
  <2>2. \A m \in UpdateOf(d, cache[d], snapshot[d]) : m.topic # topic
    BY <1>2, <2>1, PublicationsAre
  <2>3. d \in Rediscovered(snapshot) => kind # "discovery"
    <3>1. d \in Rediscovered(snapshot) =>
             Said("discovery", d, Entities(snapshot[d])) \in Members(Discoveries(snapshot))
      BY DiscoveriesAre
    <3> QED BY <1>1, <1>2, <1>3, <3>1
  <2>4. CASE cache[d] = None
    <3>1. kind \notin {"availability", "state", "telemetry"}
      <4>1. {Said("availability", d, TRUE), Said("state", d, snapshot[d].power),
             Said("telemetry", d, snapshot[d].reading)} = UpdateOf(d, cache[d], snapshot[d])
        BY <2>4 DEF UpdateOf
      <4> QED BY <1>1, <1>3, <2>2, <4>1
    <3>2. d \in Rediscovered(snapshot)
      BY <2>1, <2>4 DEF Rediscovered
    <3> QED BY <2>3, <3>1, <3>2 DEF Kinds
  <2>5. CASE cache[d] # None
    <3>1. kind = "state" => cache[d].power = snapshot[d].power
      <4>1. cache[d].power # snapshot[d].power =>
               Said("state", d, snapshot[d].power) \in UpdateOf(d, cache[d], snapshot[d])
        BY <2>5 DEF UpdateOf
      <4> QED BY <1>1, <1>3, <2>2, <4>1
    <3>2. kind = "telemetry" => cache[d].reading = snapshot[d].reading
      <4>1. cache[d].reading # snapshot[d].reading =>
               Said("telemetry", d, snapshot[d].reading) \in UpdateOf(d, cache[d], snapshot[d])
        BY <2>5 DEF UpdateOf
      <4> QED BY <1>1, <1>3, <2>2, <4>1
    <3>3. kind = "discovery" => Entities(cache[d]) = Entities(snapshot[d])
      BY <2>1, <2>3 DEF Rediscovered, SchemaChanged
    <3> QED BY <1>4, <1>6, <2>5, <3>1, <3>2, <3>3 DEF Mirrors, Kinds
  <2> QED BY <2>4, <2>5
<1> QED BY <1>5, <1>6

-----------------------------------------------------------------------------
(***************************************************************************)
(* The inductive invariant                                                 *)
(***************************************************************************)

\* The devices, and what is held against them: no more overrides than places
Tables ==
    /\ devices \in Snapshots /\ cache \in Snapshots /\ taken \in Snapshots
    /\ overrides \in [Devices -> [on : BOOLEAN, left : 0 .. Window] \cup {None}]
    /\ Cardinality(Active) <= MaxDevices

\* The messages, from the queue to the broker
Queues ==
    /\ pending \in Seq(Messages) /\ batch \in Seq(Messages) /\ outbox \in Seq(Messages)
    /\ Len(pending) <= QueueBound /\ Len(batch) <= BatchBound
    /\ retained = [topic \in Topics |-> retained[topic]]
    /\ lost \subseteq Topics

Flags ==
    /\ republish \in BOOLEAN /\ subscribed \in BOOLEAN /\ enabled \in BOOLEAN
    /\ connected \in BOOLEAN /\ link \in BOOLEAN /\ listening \in BOOLEAN
    /\ renewed \in BOOLEAN /\ overtaken \in BOOLEAN
    /\ status \in Statuses
    /\ at \in {"first", "fetch", "sync", "second", "delay"}
    /\ client \in {"none", "made", "started"}
    /\ event \in {None, "connected", "subscribe", "error", "disconnected"}
    /\ boot \in {"init", "noting", "done"} /\ ota \in {"idle", "stopped", "released"}
    /\ changes \in 0 .. MaxChanges /\ commands \in 0 .. MaxCommands /\ faults \in 0 .. MaxFaults

\* A client with a session owes the broker nothing, the task publishes a batch before it
\* goes on, and before the start there is nothing
Places ==
    /\ link => outbox = <<>>
    /\ batch # <<>> => at \in {"first", "second"}
    /\ boot = "init" =>
          client = "none" /\ ~ connected /\ ~ link /\ event = None /\ ota = "idle"

\* What the bridge takes for a subscription is one, until the client's task reports that
\* the session is gone, or the client was replaced
Subscriptions ==
    subscribed /\ event \notin {"error", "disconnected"} => listening \/ renewed

IInv ==
    /\ Tables /\ Queues /\ Flags /\ Places
    /\ CacheIsOnItsWay /\ CommandHolds
    /\ Subscriptions /\ ConnectedIsSubscribed

LEMMA InitIInv == Init => IInv
<1> SUFFICES ASSUME Init PROVE IInv
  OBVIOUS
<1>1. Tables
  <2>1. devices \in Snapshots /\ cache \in Snapshots /\ taken \in Snapshots
    BY NoneIsOther DEF Init, Snapshots
  <2>2. overrides \in [Devices -> [on : BOOLEAN, left : 0 .. Window] \cup {None}]
    BY DEF Init
  <2>3. Active = {}
    BY DEF Init, Active
  <2>4. Cardinality(Active) = 0
    BY <2>3, FS_EmptySet
  <2> QED BY <2>1, <2>2, <2>4, NoneIsOther DEF Tables
<1>2. Queues
  <2>1. <<>> \in Seq(Messages) /\ Len(<<>>) = 0
    OBVIOUS
  <2> QED BY <2>1, NoneIsOther DEF Init, Queues
<1>3. Flags
  <2>1. Disconnected \in Statuses /\ Connected \in Statuses
    BY DEF Disconnected, Connected, Statuses
  <2>2. changes \in 0 .. MaxChanges /\ commands \in 0 .. MaxCommands /\ faults \in 0 .. MaxFaults
    BY NoneIsOther DEF Init
  <2> QED BY <2>1, <2>2 DEF Init, Flags
<1>4. Places
  BY DEF Init, Places
<1>5. CacheIsOnItsWay
  <2> SUFFICES ASSUME NEW topic \in Topics
               PROVE  Mirrors(topic, Latest(outbox \o batch \o pending, topic), cache)
    BY DEF CacheIsOnItsWay
  <2>1. topic[2] \in Devices
    BY DEF Topics
  <2>2. Latest(outbox \o batch \o pending, topic) = None
    <3>1. outbox \o batch \o pending = <<>>
      <4>1. <<>> \in Seq(Messages)
        OBVIOUS
      <4>2. <<>> \o <<>> = <<>>
        BY <4>1, ConcatEmptySeq
      <4> QED BY <4>2 DEF Init
    <3>2. DOMAIN <<>> = {}
      OBVIOUS
    <3>3. retained[topic] = None
      BY DEF Init
    <3> QED BY <3>1, <3>2, <3>3 DEF Latest
  <2>3. cache[topic[2]] = None
    BY <2>1 DEF Init
  <2> QED BY <2>2, <2>3 DEF Mirrors
<1>6. CommandHolds
  BY DEF Init, CommandHolds, Active
<1>7. Subscriptions /\ ConnectedIsSubscribed
  BY DEF Init, Subscriptions, ConnectedIsSubscribed
<1> QED BY <1>1, <1>2, <1>3, <1>4, <1>5, <1>6, <1>7 DEF IInv

\* The steps, one by one
LEMMA NextIs ==
    ASSUME [Next]_vars
    PROVE  \/ TakeBatch \/ PublishOne \/ Published \/ Fetch \/ Sync \/ Delay
           \/ HandleError \/ HandleDisconnected \/ HandleConnected
           \/ AlreadySubscribed \/ Subscribe \/ SubscribeFails
           \/ StartTransport \/ StartTransportFails \/ TransportStarted
           \/ OtaReleases \/ OtaResumes
           \/ Connect \/ LinkFails
           \/ \E d \in Devices, on \in BOOLEAN : HandlePowerCommand(d, on)
           \/ OtaStops \/ DevicesChange
           \/ UNCHANGED vars
  BY DEF Next, Task, Handler, Main, Worker

LEMMA StatusesAre ==
    /\ Disconnected \in Statuses /\ Connected \in Statuses
    /\ \A error \in {"init_failed", "start_failed", "subscribe_failed"} :
          [connected |-> FALSE, error |-> error] \in Statuses
    /\ \A s \in Statuses : [s EXCEPT !.connected = FALSE] \in Statuses
  BY DEF Disconnected, Connected, Statuses

LEMMA FewerFaults ==
    ASSUME NEW n \in Nat, NEW k \in 0 .. n, k > 0
    PROVE  k - 1 \in 0 .. n
  OBVIOUS

\* The bridge's task leaves the connection to the others.
LEMMA TaskKeeps ==
    ASSUME TakeBatch \/ PublishOne \/ Published \/ Fetch \/ Sync \/ Delay
    PROVE  UNCHANGED <<devices, enabled, client, connected, link, event, listening, boot, ota,
                       subscribed, status, changes, commands, faults, renewed, overtaken>>
<1>1. taskUnchanged
  BY DEF TakeBatch, PublishOne, Published, Fetch, Sync, Delay
<1> QED BY <1>1 DEF taskUnchanged, halVars, workerVars, statusVars, budgetVars

Booleans ==
    /\ republish \in BOOLEAN /\ subscribed \in BOOLEAN /\ enabled \in BOOLEAN
    /\ connected \in BOOLEAN /\ link \in BOOLEAN /\ listening \in BOOLEAN
    /\ renewed \in BOOLEAN /\ overtaken \in BOOLEAN

Modes ==
    /\ status \in Statuses
    /\ at \in {"first", "fetch", "sync", "second", "delay"}
    /\ client \in {"none", "made", "started"}
    /\ event \in {None, "connected", "subscribe", "error", "disconnected"}
    /\ boot \in {"init", "noting", "done"} /\ ota \in {"idle", "stopped", "released"}

Counters == changes \in 0 .. MaxChanges /\ commands \in 0 .. MaxCommands /\ faults \in 0 .. MaxFaults

LEMMA FlagsAre ==
    /\ Flags <=> Booleans /\ Modes /\ Counters
    /\ Flags' <=> Booleans' /\ Modes' /\ Counters'
  BY DEF Flags, Booleans, Modes, Counters

LEMMA FlagsStep ==
    ASSUME IInv, [Next]_vars
    PROVE  Flags'
<1>0. Flags /\ Booleans /\ Modes /\ Counters
  BY FlagsAre DEF IInv
<1>b. MaxChanges \in Nat /\ MaxCommands \in Nat /\ MaxFaults \in Nat
  BY NoneIsOther
<1>1. CASE TakeBatch \/ PublishOne \/ Published \/ Fetch \/ Sync \/ Delay
  <2>1. UNCHANGED <<enabled, client, connected, link, event, listening, boot, ota, subscribed,
                    status, changes, commands, faults, renewed, overtaken>>
    BY <1>1, TaskKeeps
  <2>2. at' \in {"first", "fetch", "sync", "second", "delay"} /\ republish' \in BOOLEAN
    <3>1. CASE TakeBatch
      BY <1>0, <3>1 DEF Flags, TakeBatch
    <3>2. CASE PublishOne
      BY <1>0, <3>2 DEF Flags, PublishOne, syncVars
    <3>3. CASE Published
      BY <1>0, <3>3 DEF Flags, Published
    <3>4. CASE Fetch
      BY <1>0, <3>4 DEF Flags, Fetch, syncVars
    <3>5. CASE Sync
      BY <3>5 DEF Sync
    <3>6. CASE Delay
      BY <1>0, <3>6 DEF Flags, Delay
    <3> QED BY <1>1, <3>1, <3>2, <3>3, <3>4, <3>5, <3>6
  <2> QED BY <1>0, <1>b, <2>1, <2>2 DEF Flags
<1>7. CASE HandleError
  <2>1. /\ connected' = FALSE /\ event' = "disconnected"
        /\ UNCHANGED <<republish, subscribed, status, link, listening, faults, renewed, overtaken>>
        /\ UNCHANGED <<enabled, at, client, boot, ota, changes, commands>>
    BY <1>7 DEF HandleError, handlerUnchanged, clientUnchanged, statusVars, taskVars, workerVars
  <2>2. /\ republish' \in BOOLEAN /\ subscribed' \in BOOLEAN /\ enabled' \in BOOLEAN
        /\ connected' \in BOOLEAN /\ link' \in BOOLEAN /\ listening' \in BOOLEAN
        /\ renewed' \in BOOLEAN /\ overtaken' \in BOOLEAN
    BY <1>0, <2>1 DEF Flags
  <2>3. event' \in {None, "connected", "subscribe", "error", "disconnected"}
    BY <2>1
  <2>4. /\ status' \in Statuses /\ client' \in {"none", "made", "started"}
        /\ at' \in {"first", "fetch", "sync", "second", "delay"}
        /\ boot' \in {"init", "noting", "done"} /\ ota' \in {"idle", "stopped", "released"}
    BY <1>0, <2>1 DEF Flags
  <2>5. /\ changes' \in 0 .. MaxChanges /\ commands' \in 0 .. MaxCommands
        /\ faults' \in 0 .. MaxFaults
    BY <1>0, <2>1 DEF Flags
  <2> QED BY <2>2, <2>3, <2>4, <2>5 DEF Flags
<1>8. CASE HandleDisconnected
  <2>1. Booleans'
    BY <1>0, <1>8
    DEF Booleans, HandleDisconnected, handlerUnchanged, clientUnchanged, statusVars, taskVars, workerVars, SetStatus
  <2>2. Modes'
    BY <1>0, <1>8, StatusesAre
    DEF Modes, HandleDisconnected, handlerUnchanged, clientUnchanged, statusVars, taskVars, workerVars, SetStatus
  <2>3. Counters'
    BY <1>0, <1>b, <1>8, FewerFaults
    DEF Counters, HandleDisconnected, handlerUnchanged, clientUnchanged, statusVars, taskVars, workerVars, SetStatus
  <2> QED BY <2>1, <2>2, <2>3, FlagsAre
<1>9. CASE HandleConnected
  <2>1. Booleans'
    BY <1>0, <1>9
    DEF Booleans, HandleConnected, handlerUnchanged, clientUnchanged, statusVars, taskVars, workerVars, SetStatus
  <2>2. Modes'
    BY <1>0, <1>9, StatusesAre
    DEF Modes, HandleConnected, handlerUnchanged, clientUnchanged, statusVars, taskVars, workerVars, SetStatus
  <2>3. Counters'
    BY <1>0, <1>b, <1>9, FewerFaults
    DEF Counters, HandleConnected, handlerUnchanged, clientUnchanged, statusVars, taskVars, workerVars, SetStatus
  <2> QED BY <2>1, <2>2, <2>3, FlagsAre
<1>10. CASE AlreadySubscribed
  <2>1. Booleans'
    BY <1>0, <1>10
    DEF Booleans, AlreadySubscribed, handlerUnchanged, clientUnchanged, statusVars, taskVars, workerVars, SetStatus
  <2>2. Modes'
    BY <1>0, <1>10, StatusesAre
    DEF Modes, AlreadySubscribed, handlerUnchanged, clientUnchanged, statusVars, taskVars, workerVars, SetStatus
  <2>3. Counters'
    BY <1>0, <1>b, <1>10, FewerFaults
    DEF Counters, AlreadySubscribed, handlerUnchanged, clientUnchanged, statusVars, taskVars, workerVars, SetStatus
  <2> QED BY <2>1, <2>2, <2>3, FlagsAre
<1>11. CASE Subscribe
  <2>1. Booleans'
    BY <1>0, <1>11
    DEF Booleans, Subscribe, handlerUnchanged, clientUnchanged, statusVars, taskVars, workerVars, SetStatus
  <2>2. Modes'
    BY <1>0, <1>11, StatusesAre
    DEF Modes, Subscribe, handlerUnchanged, clientUnchanged, statusVars, taskVars, workerVars, SetStatus
  <2>3. Counters'
    BY <1>0, <1>b, <1>11, FewerFaults
    DEF Counters, Subscribe, handlerUnchanged, clientUnchanged, statusVars, taskVars, workerVars, SetStatus
  <2> QED BY <2>1, <2>2, <2>3, FlagsAre
<1>12. CASE SubscribeFails
  <2>1. Booleans'
    BY <1>0, <1>12
    DEF Booleans, SubscribeFails, handlerUnchanged, clientUnchanged, statusVars, taskVars, workerVars, SetStatus
  <2>2. Modes'
    BY <1>0, <1>12, StatusesAre
    DEF Modes, SubscribeFails, handlerUnchanged, clientUnchanged, statusVars, taskVars, workerVars, SetStatus
  <2>3. Counters'
    BY <1>0, <1>b, <1>12, FewerFaults
    DEF Counters, SubscribeFails, handlerUnchanged, clientUnchanged, statusVars, taskVars, workerVars, SetStatus
  <2> QED BY <2>1, <2>2, <2>3, FlagsAre
<1>13. CASE StartTransport
  <2>1. Booleans'
    BY <1>0, <1>13
    DEF Booleans, StartTransport, bootUnchanged, syncVars, taskVars, brokerVars, halVars, SetStatus
  <2>2. Modes'
    BY <1>0, <1>13, StatusesAre
    DEF Modes, StartTransport, bootUnchanged, syncVars, taskVars, brokerVars, halVars, SetStatus
  <2>3. Counters'
    BY <1>0, <1>b, <1>13, FewerFaults
    DEF Counters, StartTransport, bootUnchanged, syncVars, taskVars, brokerVars, halVars, SetStatus
  <2> QED BY <2>1, <2>2, <2>3, FlagsAre
<1>14. CASE StartTransportFails
  <2>1. client' \in {"none", "made", "started"} /\ status' \in Statuses
    BY <1>14, StatusesAre DEF StartTransportFails, SetStatus
  <2>2. faults' \in 0 .. MaxFaults
    BY <1>0, <1>b, <1>14, FewerFaults DEF StartTransportFails, Flags
  <2>3. /\ enabled' = FALSE /\ boot' = "done"
        /\ UNCHANGED <<connected, link, event, overtaken, republish, at, listening, ota,
                       subscribed, changes, commands, renewed>>
    BY <1>14 DEF StartTransportFails, bootUnchanged, syncVars, taskVars, brokerVars
  <2>4. /\ republish' \in BOOLEAN /\ subscribed' \in BOOLEAN /\ enabled' \in BOOLEAN
        /\ connected' \in BOOLEAN /\ link' \in BOOLEAN /\ listening' \in BOOLEAN
        /\ renewed' \in BOOLEAN /\ overtaken' \in BOOLEAN
    BY <1>0, <2>3 DEF Flags
  <2>5. /\ at' \in {"first", "fetch", "sync", "second", "delay"}
        /\ event' \in {None, "connected", "subscribe", "error", "disconnected"}
        /\ boot' \in {"init", "noting", "done"} /\ ota' \in {"idle", "stopped", "released"}
    BY <1>0, <2>3 DEF Flags
  <2>6. changes' \in 0 .. MaxChanges /\ commands' \in 0 .. MaxCommands
    BY <1>0, <2>3 DEF Flags
  <2> QED BY <2>1, <2>2, <2>4, <2>5, <2>6 DEF Flags
<1>15. CASE TransportStarted
  <2>1. Booleans'
    BY <1>0, <1>15
    DEF Booleans, TransportStarted, bootUnchanged, syncVars, taskVars, brokerVars, halVars, SetStatus
  <2>2. Modes'
    BY <1>0, <1>15, StatusesAre
    DEF Modes, TransportStarted, bootUnchanged, syncVars, taskVars, brokerVars, halVars, SetStatus
  <2>3. Counters'
    BY <1>0, <1>b, <1>15, FewerFaults
    DEF Counters, TransportStarted, bootUnchanged, syncVars, taskVars, brokerVars, halVars, SetStatus
  <2> QED BY <2>1, <2>2, <2>3, FlagsAre
<1>16. CASE OtaReleases
  <2>1. Booleans'
    BY <1>0, <1>16
    DEF Booleans, OtaReleases, otaUnchanged, syncVars, taskVars, statusVars
  <2>2. Modes'
    BY <1>0, <1>16, StatusesAre
    DEF Modes, OtaReleases, otaUnchanged, syncVars, taskVars, statusVars
  <2>3. Counters'
    BY <1>0, <1>b, <1>16, FewerFaults
    DEF Counters, OtaReleases, otaUnchanged, syncVars, taskVars, statusVars
  <2> QED BY <2>1, <2>2, <2>3, FlagsAre
<1>17. CASE OtaResumes
  <2>1. Booleans'
    BY <1>0, <1>17
    DEF Booleans, OtaResumes, otaUnchanged, syncVars, taskVars, statusVars
  <2>2. Modes'
    BY <1>0, <1>17, StatusesAre
    DEF Modes, OtaResumes, otaUnchanged, syncVars, taskVars, statusVars
  <2>3. Counters'
    BY <1>0, <1>b, <1>17, FewerFaults
    DEF Counters, OtaResumes, otaUnchanged, syncVars, taskVars, statusVars
  <2> QED BY <2>1, <2>2, <2>3, FlagsAre
<1>18. CASE Connect
  <2>1. Booleans'
    BY <1>0, <1>18
    DEF Booleans, Connect, clientUnchanged, statusVars, taskVars, workerVars
  <2>2. Modes'
    BY <1>0, <1>18, StatusesAre
    DEF Modes, Connect, clientUnchanged, statusVars, taskVars, workerVars
  <2>3. Counters'
    BY <1>0, <1>b, <1>18, FewerFaults
    DEF Counters, Connect, clientUnchanged, statusVars, taskVars, workerVars
  <2> QED BY <2>1, <2>2, <2>3, FlagsAre
<1>19. CASE LinkFails
  <2>1. Booleans'
    BY <1>0, <1>19
    DEF Booleans, LinkFails, handlerUnchanged, clientUnchanged, statusVars, taskVars, workerVars, SetStatus
  <2>2. Modes'
    BY <1>0, <1>19, StatusesAre
    DEF Modes, LinkFails, handlerUnchanged, clientUnchanged, statusVars, taskVars, workerVars, SetStatus
  <2>3. Counters'
    BY <1>0, <1>b, <1>19, FewerFaults
    DEF Counters, LinkFails, handlerUnchanged, clientUnchanged, statusVars, taskVars, workerVars, SetStatus
  <2> QED BY <2>1, <2>2, <2>3, FlagsAre
<1>20. CASE OtaStops
  <2>1. Booleans'
    BY <1>0, <1>20
    DEF Booleans, OtaStops, otaUnchanged, syncVars, taskVars, statusVars
  <2>2. Modes'
    BY <1>0, <1>20, StatusesAre
    DEF Modes, OtaStops, otaUnchanged, syncVars, taskVars, statusVars
  <2>3. Counters'
    BY <1>0, <1>b, <1>20, FewerFaults
    DEF Counters, OtaStops, otaUnchanged, syncVars, taskVars, statusVars
  <2> QED BY <2>1, <2>2, <2>3, FlagsAre
<1>21. CASE DevicesChange
  <2>1. Booleans'
    BY <1>0, <1>21
    DEF Booleans, DevicesChange, syncVars, taskVars, halVars, brokerVars, workerVars, statusVars, historyVars
  <2>2. Modes'
    BY <1>0, <1>21, StatusesAre
    DEF Modes, DevicesChange, syncVars, taskVars, halVars, brokerVars, workerVars, statusVars, historyVars
  <2>3. Counters'
    BY <1>0, <1>b, <1>21, FewerFaults
    DEF Counters, DevicesChange, syncVars, taskVars, halVars, brokerVars, workerVars, statusVars, historyVars
  <2> QED BY <2>1, <2>2, <2>3, FlagsAre
<1>22. CASE \E d \in Devices, on \in BOOLEAN : HandlePowerCommand(d, on)
  <2>1. Booleans'
    BY <1>0, <1>22
    DEF Booleans, HandlePowerCommand, taskVars, halVars, brokerVars, workerVars, statusVars
  <2>2. Modes'
    BY <1>0, <1>22, StatusesAre
    DEF Modes, HandlePowerCommand, taskVars, halVars, brokerVars, workerVars, statusVars
  <2>3. Counters'
    BY <1>0, <1>b, <1>22, FewerFaults
    DEF Counters, HandlePowerCommand, taskVars, halVars, brokerVars, workerVars, statusVars
  <2> QED BY <2>1, <2>2, <2>3, FlagsAre
<1>23. CASE UNCHANGED vars
  BY <1>0, <1>23 DEF Flags, vars, taskVars, halVars, workerVars, statusVars, budgetVars, syncVars, historyVars, brokerVars
<1> QED
  BY <1>1, <1>7, <1>8, <1>9, <1>10, <1>11, <1>12, <1>13, <1>14, <1>15, <1>16, <1>17, <1>18, <1>19, <1>20, <1>21, <1>22, <1>23, NextIs

LEMMA TablesFrame ==
    ASSUME [Next]_vars
    PROVE  \/ Fetch \/ Sync \/ Delay \/ DevicesChange
           \/ \E d \in Devices, on \in BOOLEAN : HandlePowerCommand(d, on)
           \/ UNCHANGED <<devices, cache, taken, overrides>>
<1>1. TakeBatch \/ PublishOne \/ Published => UNCHANGED <<devices, cache, taken, overrides>>
  BY DEF TakeBatch, PublishOne, Published, taskUnchanged, syncVars
<1>2. \/ HandleError \/ HandleDisconnected \/ HandleConnected
      \/ AlreadySubscribed \/ Subscribe \/ SubscribeFails \/ LinkFails \/ Connect
      => UNCHANGED <<devices, cache, taken, overrides>>
  <2>1. \/ HandleError \/ HandleDisconnected \/ HandleConnected
        \/ AlreadySubscribed \/ Subscribe \/ SubscribeFails \/ LinkFails \/ Connect
        => clientUnchanged
    BY DEF HandleError, HandleDisconnected, HandleConnected, AlreadySubscribed, Subscribe,
           SubscribeFails, LinkFails, Connect, handlerUnchanged
  <2> QED BY <2>1 DEF clientUnchanged, taskVars
<1>3. StartTransport \/ StartTransportFails \/ TransportStarted
      => UNCHANGED <<devices, cache, taken, overrides>>
  BY DEF StartTransport, StartTransportFails, TransportStarted, bootUnchanged, syncVars, taskVars
<1>4. OtaStops \/ OtaReleases \/ OtaResumes => UNCHANGED <<devices, cache, taken, overrides>>
  BY DEF OtaStops, OtaReleases, OtaResumes, otaUnchanged, syncVars, taskVars
<1>5. UNCHANGED vars => UNCHANGED <<devices, cache, taken, overrides>>
  BY DEF vars, syncVars, taskVars
<1> QED BY <1>1, <1>2, <1>3, <1>4, <1>5, NextIs

LEMMA OverridesAre ==
    ASSUME Tables
    PROVE  /\ Overridden \in Snapshots
           /\ OverridesLeft \in [Devices -> [on : BOOLEAN, left : 0 .. Window] \cup {None}]
           /\ \A d \in Devices : OverridesLeft[d] # None => overrides[d] # None
           /\ \A d \in Devices : taken[d] = None => Overridden[d] = None
           /\ \A d \in Devices :
                 OverridesLeft[d] # None /\ Overridden[d] # None =>
                    Overridden[d].power = OverridesLeft[d].on
<1> DEFINE Left == [on : BOOLEAN, left : 0 .. Window]
<1>1. \A d \in Active : overrides[d] \in Left /\ d \in Devices
  BY DEF Tables, Active
<1>2. \A d \in Active : overrides[d].on \in BOOLEAN
  BY <1>1
<1>3. \A d \in Devices : taken[d] \in Present \cup {None}
  BY DEF Tables, Snapshots
<1>4. \A d \in Devices : Holds(d) => taken[d] \in Present /\ overrides[d].on \in BOOLEAN
  BY <1>2, <1>3 DEF Holds
<1>5. ASSUME NEW d \in Devices, Holds(d)
      PROVE  /\ [taken[d] EXCEPT !.power = overrides[d].on] \in Present
             /\ [taken[d] EXCEPT !.power = overrides[d].on].power = overrides[d].on
  BY <1>4, <1>5 DEF Present
<1>6. \A d \in Devices : Overridden[d] \in Present \cup {None}
  BY <1>3, <1>5 DEF Overridden
<1>7. Overridden \in Snapshots
  BY <1>6 DEF Overridden, Snapshots
<1>8. \A d \in Devices : OverridesLeft[d] = overrides[d] \/ OverridesLeft[d] = None
  BY DEF OverridesLeft
<1>9. OverridesLeft \in [Devices -> Left \cup {None}]
  <2>1. \A d \in Devices : OverridesLeft[d] \in Left \cup {None}
    BY <1>8 DEF Tables
  <2> HIDE DEF Left
  <2> QED BY <2>1 DEF OverridesLeft
<1>10. \A d \in Devices : taken[d] = None => Overridden[d] = None
  BY DEF Overridden, Holds
<1>11. ASSUME NEW d \in Devices, OverridesLeft[d] # None, Overridden[d] # None
       PROVE  Overridden[d].power = OverridesLeft[d].on
  <2>1. d \in Active /\ ~ Expired(d) /\ OverridesLeft[d] = overrides[d]
    BY <1>11 DEF OverridesLeft
  <2>2. taken[d] # None
    BY <1>10, <1>11
  <2>3. Holds(d)
    BY <2>1, <2>2 DEF Holds
  <2>4. Overridden[d] = [taken[d] EXCEPT !.power = overrides[d].on]
    BY <2>3 DEF Overridden
  <2> QED BY <1>5, <2>1, <2>3, <2>4
<1> QED BY <1>7, <1>8, <1>9, <1>10, <1>11

\* No step makes more devices active, except a command for which there is room.
LEMMA ActiveIs ==
    /\ IsFiniteSet(Active) /\ Active \subseteq Devices
    /\ Cardinality(Active) \in Nat
<1>1. Active \in SUBSET Devices
  BY DEF Active
<1> QED BY <1>1, NoneIsOther, FS_Subset, FS_CardinalityType

LEMMA FewerActive ==
    ASSUME Tables, NEW other \in [Devices -> [on : BOOLEAN, left : 0 .. Window] \cup {None}],
           \A d \in Devices : other[d] # None => overrides[d] # None
    PROVE  Cardinality({d \in Devices : other[d] # None}) <= MaxDevices
<1> DEFINE ds == {d \in Devices : other[d] # None}
<1>1. ds \in SUBSET Active
  BY DEF Active
<1>2. Cardinality(ds) <= Cardinality(Active) /\ IsFiniteSet(ds)
  BY <1>1, ActiveIs, FS_Subset
<1>3. Cardinality(ds) \in Nat
  BY <1>2, FS_CardinalityType
<1> QED BY <1>2, <1>3, ActiveIs, NoneIsOther DEF Tables

LEMMA WithOverrideIs ==
    ASSUME Tables, NEW d \in Devices, NEW on \in BOOLEAN
    PROVE  /\ WithOverride(d, on) \in [Devices -> [on : BOOLEAN, left : 0 .. Window] \cup {None}]
           /\ Cardinality({e \in Devices : WithOverride(d, on)[e] # None}) <= MaxDevices
           /\ \A e \in Devices : e # d => WithOverride(d, on)[e] = overrides[e]
           /\ \/ WithOverride(d, on)[d] = [on |-> on, left |-> Window]
              \/ WithOverride(d, on)[d] = None
<1> DEFINE new == [on |-> on, left |-> Window]
           Left == [on : BOOLEAN, left : 0 .. Window]
           other == WithOverride(d, on)
           ds == {e \in Devices : other[e] # None}
<1>1. new \in Left
  BY NoneIsOther
<1>2. overrides \in [Devices -> Left \cup {None}] /\ Cardinality(Active) <= MaxDevices
  BY DEF Tables
<1> HIDE DEF Left, new
<1>3. CASE d \in Active \/ Cardinality(Active) < MaxDevices
  <2>1. other = [overrides EXCEPT ![d] = new]
    BY <1>3 DEF WithOverride, new
  <2>2. other \in [Devices -> Left \cup {None}] /\ other[d] = new
        /\ \A e \in Devices : e # d => other[e] = overrides[e]
    BY <1>1, <1>2, <2>1
  <2>3. Cardinality(ds) <= MaxDevices
    <3>1. ds \in SUBSET (Active \cup {d})
      BY <2>2 DEF Active
    <3>2. IsFiniteSet(Active \cup {d})
          /\ Cardinality(Active \cup {d}) = IF d \in Active THEN Cardinality(Active)
                                            ELSE Cardinality(Active) + 1
      BY ActiveIs, FS_AddElement
    <3>3. Cardinality(ds) <= Cardinality(Active \cup {d}) /\ IsFiniteSet(ds)
      BY <3>1, <3>2, FS_Subset
    <3>4. Cardinality(ds) \in Nat
      BY <3>3, FS_CardinalityType
    <3>5. Cardinality(Active \cup {d}) <= MaxDevices /\ Cardinality(Active \cup {d}) \in Nat
      BY <1>2, <1>3, <3>2, ActiveIs, NoneIsOther
    <3> QED BY <3>3, <3>4, <3>5, NoneIsOther
  <2> QED BY <2>2, <2>3 DEF Left, new
<1>4. CASE ~ (d \in Active \/ Cardinality(Active) < MaxDevices)
  <2>1. other = overrides
    BY <1>4 DEF WithOverride
  <2>2. ds = Active
    BY <2>1 DEF Active
  <2>3. other[d] = None
    BY <1>4, <2>1 DEF Active
  <2> QED BY <1>2, <2>1, <2>2, <2>3 DEF Left
<1> QED BY <1>3, <1>4

LEMMA TablesStep ==
    ASSUME IInv, [Next]_vars
    PROVE  Tables'
<1> USE DEF IInv
<1>1. CASE Fetch
  <2>1. UNCHANGED <<devices, cache, overrides>>
    BY <1>1, TaskKeeps DEF Fetch, syncVars
  <2>2. taken' \in Snapshots
    BY <1>1 DEF Fetch, Tables
  <2>3. Active' = Active
    BY <2>1 DEF Active
  <2> QED BY <2>1, <2>2, <2>3 DEF Tables
<1>2. CASE Sync
  <2>1. /\ cache' = Overridden /\ overrides' = OverridesLeft
        /\ taken' = [d \in Devices |-> None] /\ devices' = devices
    BY <1>2, TaskKeeps DEF Sync
  <2>2. taken' \in Snapshots
    BY <2>1 DEF Snapshots
  <2>3. Active' = {d \in Devices : OverridesLeft[d] # None}
    BY <2>1 DEF Active
  <2>4. Cardinality(Active') <= MaxDevices
    BY <2>3, OverridesAre, FewerActive
  <2> QED BY <2>1, <2>2, <2>4, OverridesAre DEF Tables
<1>3. CASE Delay
  <2> DEFINE Left == [on : BOOLEAN, left : 0 .. Window]
  <2>1. UNCHANGED <<devices, cache, taken>>
    BY <1>3, TaskKeeps DEF Delay
  <2>2. overrides' = [d \in Devices |->
          IF d \in Active /\ overrides[d].left > 0
          THEN [overrides[d] EXCEPT !.left = @ - 1] ELSE overrides[d]]
    BY <1>3 DEF Delay
  <2>3. \A d \in Active : overrides[d] \in Left
    BY DEF Active, Tables
  <2>4. \A d \in Active : overrides[d].left > 0 => [overrides[d] EXCEPT !.left = @ - 1] \in Left
    BY <2>3, NoneIsOther
  <2>5. \A d \in Devices : overrides'[d] \in Left \cup {None}
    BY <2>2, <2>4 DEF Tables
  <2>6. overrides' \in [Devices -> Left \cup {None}]
    <3> HIDE DEF Left
    <3> QED BY <2>2, <2>5
  <2>7. \A d \in Devices : overrides'[d] # None => overrides[d] # None
    BY <2>2 DEF Active
  <2>8. Cardinality({d \in Devices : overrides'[d] # None}) <= MaxDevices
    BY <2>6, <2>7, FewerActive
  <2>9. Cardinality(Active') <= MaxDevices
    BY <2>8 DEF Active
  <2> QED BY <2>1, <2>6, <2>9 DEF Tables
<1>4. ASSUME NEW d \in Devices, NEW on \in BOOLEAN, HandlePowerCommand(d, on)
      PROVE  Tables'
  <2>1. overrides' = WithOverride(d, on) /\ UNCHANGED <<devices, taken>>
    BY <1>4 DEF HandlePowerCommand, taskVars
  <2>2. Active' = {e \in Devices : WithOverride(d, on)[e] # None}
    BY <2>1 DEF Active
  <2>3. cache' \in Snapshots
    <3>1. CASE cache[d] = None \/ cache[d].power = on
      BY <1>4, <3>1 DEF HandlePowerCommand, Tables
    <3>2. CASE ~ (cache[d] = None \/ cache[d].power = on)
      <4>1. cache' = [cache EXCEPT ![d].power = on]
        BY <1>4, <3>2 DEF HandlePowerCommand
      <4>2. cache \in Snapshots /\ cache[d] \in Present
        BY <3>2 DEF Tables, Snapshots
      <4>3. [cache[d] EXCEPT !.power = on] \in Present
        BY <4>2 DEF Present
      <4>4. cache' = [cache EXCEPT ![d] = [cache[d] EXCEPT !.power = on]]
        BY <4>1
      <4> QED BY <4>2, <4>3, <4>4 DEF Snapshots
    <3> QED BY <3>1, <3>2
  <2> QED BY <2>1, <2>2, <2>3, WithOverrideIs DEF Tables
<1>5. CASE DevicesChange
  <2>1. UNCHANGED <<cache, taken, overrides>>
    BY <1>5 DEF DevicesChange, syncVars, taskVars
  <2>2. PICK d \in Devices : \E device \in Changed(devices[d]) :
                                devices' = [devices EXCEPT ![d] = device]
    BY <1>5 DEF DevicesChange
  <2>3. PICK device \in Changed(devices[d]) : devices' = [devices EXCEPT ![d] = device]
    BY <2>2
  <2>4. devices[d] \in Present \cup {None}
    BY DEF Tables, Snapshots
  <2>5. device \in Present \cup {None}
    <3>1. CASE devices[d] = None
      <4>1. device = [power |-> FALSE, reading |-> NoReading]
        BY <2>3, <3>1 DEF Changed
      <4> QED BY <4>1 DEF Present
    <3>2. CASE devices[d] # None
      <4>1. devices[d] \in Present
        BY <2>4, <3>2
      <4>2. \/ device = None
            \/ device = [devices[d] EXCEPT !.power = ~ @]
            \/ \E reading \in Readings : device = [devices[d] EXCEPT !.reading = reading]
        BY <2>3, <3>2 DEF Changed
      <4>3. [devices[d] EXCEPT !.power = ~ @] \in Present
        BY <4>1 DEF Present
      <4>4. \A reading \in Readings : [devices[d] EXCEPT !.reading = reading] \in Present
        BY <4>1 DEF Present
      <4> QED BY <4>2, <4>3, <4>4
    <3> QED BY <3>1, <3>2
  <2>6. devices' \in Snapshots
    BY <2>3, <2>5 DEF Tables, Snapshots
  <2>7. Active' = Active
    BY <2>1 DEF Active
  <2> QED BY <2>1, <2>6, <2>7 DEF Tables
<1>6. CASE UNCHANGED <<devices, cache, taken, overrides>>
  <2>1. Active' = Active
    BY <1>6 DEF Active
  <2> QED BY <1>6, <2>1 DEF Tables
<1> QED BY <1>1, <1>2, <1>3, <1>4, <1>5, <1>6, TablesFrame

-----------------------------------------------------------------------------
(* The messages                                                            *)

LEMMA QueuesFrame ==
    ASSUME [Next]_vars
    PROVE  \/ TakeBatch \/ PublishOne \/ Published \/ Sync \/ Connect \/ OtaReleases
           \/ \E d \in Devices, on \in BOOLEAN : HandlePowerCommand(d, on)
           \/ UNCHANGED <<pending, batch, outbox, retained, lost>>
<1>1. Fetch \/ Delay => UNCHANGED <<pending, batch, outbox, retained, lost>>
  BY DEF Fetch, Delay, syncVars
<1>2. \/ HandleError \/ HandleDisconnected \/ HandleConnected
      \/ AlreadySubscribed \/ Subscribe \/ SubscribeFails \/ LinkFails
      => UNCHANGED <<pending, batch, outbox, retained, lost>>
  <2>1. \/ HandleError \/ HandleDisconnected \/ HandleConnected
        \/ AlreadySubscribed \/ Subscribe \/ SubscribeFails \/ LinkFails
        => handlerUnchanged
    BY DEF HandleError, HandleDisconnected, HandleConnected, AlreadySubscribed, Subscribe,
           SubscribeFails, LinkFails
  <2> QED BY <2>1 DEF handlerUnchanged, clientUnchanged, taskVars
<1>3. StartTransport \/ StartTransportFails \/ TransportStarted
      => UNCHANGED <<pending, batch, outbox, retained, lost>>
  BY DEF StartTransport, StartTransportFails, TransportStarted, bootUnchanged, syncVars, taskVars,
         brokerVars
<1>4. OtaStops \/ OtaResumes => UNCHANGED <<pending, batch, outbox, retained, lost>>
  BY DEF OtaStops, OtaResumes, otaUnchanged, syncVars, taskVars
<1>5. DevicesChange => UNCHANGED <<pending, batch, outbox, retained, lost>>
  BY DEF DevicesChange, syncVars, taskVars, brokerVars, historyVars
<1>6. UNCHANGED vars => UNCHANGED <<pending, batch, outbox, retained, lost>>
  BY DEF vars, syncVars, taskVars, brokerVars, historyVars
<1> QED BY <1>1, <1>2, <1>3, <1>4, <1>5, <1>6, NextIs

\* The first messages, and the others
LEMMA SplitIs ==
    ASSUME NEW q \in Seq(Messages), NEW n \in Nat
    PROVE  /\ FirstOf(q, n) \in Seq(Messages) /\ AfterFirst(q, n) \in Seq(Messages)
           /\ Len(FirstOf(q, n)) <= n /\ Len(FirstOf(q, n)) \in Nat
           /\ Len(AfterFirst(q, n)) <= Len(q) /\ Len(AfterFirst(q, n)) \in Nat
           /\ FirstOf(q, n) \o AfterFirst(q, n) = q
           /\ Members(FirstOf(q, n)) \subseteq Members(q)
<1> DEFINE S == Messages
           len == Len(q)
           k == Lesser(n, len)
           p == SubSeq(q, 1, k)
           r == SubSeq(q, n + 1, len)
<1>1. q \in Seq(S) /\ len \in Nat /\ DOMAIN q = 1 .. len
      /\ \A i \in 1 .. len : q[i] \in S
  <2>1. q \in Seq(S)
    OBVIOUS
  <2> HIDE DEF S
  <2> QED BY <2>1, SeqIs
<1>0. FirstOf(q, n) = p /\ AfterFirst(q, n) = r
  BY DEF FirstOf, AfterFirst
<1>2. len \in Nat
  BY <1>1
<1>3. SubSeq(q, 1, len) = q /\ q \o <<>> = q
  BY <1>1, SubSeqFull, ConcatEmptySeq
<1> SUFFICES /\ p \in Seq(S) /\ r \in Seq(S)
             /\ Len(p) <= n /\ Len(p) \in Nat /\ Len(r) <= len /\ Len(r) \in Nat
             /\ p \o r = q /\ Members(p) \subseteq Members(q)
  BY <1>0
<1> HIDE DEF S, len
<1>4. CASE n <= len
  <2>1. k = n
    BY <1>2, <1>4 DEF Lesser
  <2>2. n \in Int /\ 1 \in Int /\ n + 1 \in Int /\ len \in Int
    BY <1>2
  <2>3. \A i \in 1 .. n : i \in 1 .. len
    BY <1>2, <1>4
  <2>4. \A i \in n + 1 .. len : i \in 1 .. len
    BY <1>2
  <2>5. /\ p \in Seq(S)
        /\ Len(p) = IF 1 <= n THEN n - 1 + 1 ELSE 0
        /\ \A i \in 1 .. n - 1 + 1 : p[i] = q[1 + i - 1]
    <3>1. \A i \in 1 .. n : q[i] \in S
      BY <1>1, <2>3
    <3>2. /\ SubSeq(q, 1, n) \in Seq(S)
          /\ Len(SubSeq(q, 1, n)) = IF 1 <= n THEN n - 1 + 1 ELSE 0
          /\ \A i \in 1 .. n - 1 + 1 : SubSeq(q, 1, n)[i] = q[1 + i - 1]
      BY <2>2, <3>1, SubSeqProperties
    <3> QED BY <2>1, <3>2
  <2>6. /\ r \in Seq(S)
        /\ Len(r) = IF n + 1 <= len THEN len - (n + 1) + 1 ELSE 0
    <3>1. \A i \in n + 1 .. len : q[i] \in S
      BY <1>1, <2>4
    <3> QED BY <2>2, <3>1, SubSeqProperties
  <2>7. p \o r = q
    <3>1. 1 \in 1 .. len + 1 /\ n \in 1 - 1 .. len /\ len \in n .. len
      BY <1>2, <1>4
    <3>2. SubSeq(q, 1, n) \o SubSeq(q, n + 1, len) = SubSeq(q, 1, len)
      BY <1>1, <3>1, ConcatAdjacentSubSeq DEF len
    <3> QED BY <1>3, <2>1, <3>2
  <2>8. Len(p) = n
    BY <2>5
  <2>9. Members(p) \subseteq Members(q)
    <3>1. DOMAIN p = 1 .. n
      <4> HIDE DEF p
      <4> QED BY <2>5, <2>8, SeqIs
    <3>2. \A i \in 1 .. n : p[i] = q[i]
      <4> HIDE DEF p
      <4> QED BY <2>5
    <3> HIDE DEF p
    <3> QED BY <1>1, <2>3, <3>1, <3>2 DEF Members
  <2>10. Len(r) <= len /\ Len(r) \in Nat
    <3> HIDE DEF r
    <3> QED BY <1>2, <1>4, <2>6
  <2>11. Len(p) <= n /\ Len(p) \in Nat
    <3> HIDE DEF p
    <3> QED BY <2>8
  <2> HIDE DEF p, r
  <2> QED BY <2>5, <2>6, <2>7, <2>9, <2>10, <2>11
<1>5. CASE n > len
  <2>1. p = q
    <3>1. k = len
      BY <1>2, <1>5 DEF Lesser
    <3> QED BY <1>3, <3>1
  <2>2. r = <<>>
    <3>1. n + 1 \in Int /\ len \in Int /\ len < n + 1
      BY <1>2, <1>5
    <3> QED BY <3>1, SubSeqEmpty
  <2>3. <<>> \in Seq(S) /\ Len(<<>>) = 0
    OBVIOUS
  <2>4. Len(q) <= n /\ Len(q) \in Nat
    BY <1>2, <1>5 DEF len
  <2> HIDE DEF p, r
  <2>5. p \in Seq(S) /\ r \in Seq(S) /\ p \o r = q /\ Members(p) \subseteq Members(q)
    BY <1>1, <1>3, <2>1, <2>2, <2>3
  <2>6. Len(p) <= n /\ Len(p) \in Nat
    BY <2>1, <2>4
  <2>7. Len(r) <= len /\ Len(r) \in Nat
    BY <1>2, <2>2, <2>3
  <2> QED BY <2>5, <2>6, <2>7
<1>6. n <= len \/ n > len
  BY <1>2
<1> HIDE DEF p, r
<1> QED BY <1>4, <1>5, <1>6

\* The first of the batch, and the others
LEMMA HeadIs ==
    ASSUME NEW q \in Seq(Messages), q # <<>>
    PROVE  /\ Head(q) \in Messages /\ <<Head(q)>> \in Seq(Messages)
           /\ Tail(q) \in Seq(Messages) /\ Len(Tail(q)) = Len(q) - 1
           /\ <<Head(q)>> \o Tail(q) = q
           /\ TopicsOf(<<Head(q)>>) = {Head(q).topic} /\ Head(q).topic \in Topics
<1> DEFINE S == Messages
<1>1. q \in Seq(S)
  OBVIOUS
<1> HIDE DEF S
<1>2. Head(q) \in S /\ Tail(q) \in Seq(S) /\ Len(Tail(q)) = Len(q) - 1
  BY <1>1, HeadTailProperties
<1>3. <<Head(q)>> \o Tail(q) = q
  BY <1>1
<1>4. <<Head(q)>> \in Seq(Messages) /\ TopicsOf(<<Head(q)>>) = {Head(q).topic}
  BY <1>2, OneMessage DEF S
<1>5. Head(q).topic \in Topics
  BY <1>2 DEF S, Messages
<1> QED BY <1>2, <1>3, <1>4, <1>5 DEF S

LEMMA TopicsOfAre ==
    ASSUME NEW q \in Seq(Messages)
    PROVE  TopicsOf(q) \subseteq Topics
<1> DEFINE S == Messages
<1>1. q \in Seq(S)
  OBVIOUS
<1> HIDE DEF S
<1>2. Members(q) \subseteq S
  BY <1>1, SeqIs
<1>3. \A m \in S : m.topic \in Topics
  BY DEF S, Messages
<1> QED BY <1>2, <1>3, TopicsAre

\* Only Connect gives the client a session.
LEMMA LinkFrame ==
    ASSUME [Next]_vars
    PROVE  link' => link \/ Connect
<1>1. \/ TakeBatch \/ PublishOne \/ Published \/ Fetch \/ Sync \/ Delay
      => (link' => link)
  BY TaskKeeps
<1>2. HandleError \/ HandleDisconnected \/ HandleConnected
      \/ AlreadySubscribed \/ Subscribe \/ SubscribeFails \/ LinkFails => (link' => link)
  BY DEF HandleError, HandleDisconnected, HandleConnected, AlreadySubscribed, Subscribe,
         SubscribeFails, LinkFails
<1>3. StartTransport \/ StartTransportFails \/ TransportStarted => (link' => link)
  BY DEF StartTransport, StartTransportFails, TransportStarted, halVars
<1>4. OtaStops \/ OtaReleases \/ OtaResumes => (link' => link)
  BY DEF OtaStops, OtaReleases, OtaResumes
<1>5. (\E d \in Devices, on \in BOOLEAN : HandlePowerCommand(d, on)) => (link' => link)
  BY DEF HandlePowerCommand, halVars
<1>6. DevicesChange \/ UNCHANGED vars => (link' => link)
  BY DEF DevicesChange, vars, halVars
<1> QED BY <1>1, <1>2, <1>3, <1>4, <1>5, <1>6, NextIs

\* The value that a topic comes to have
Told(topic) == After(retained[topic], outbox, topic)
Final(topic) == After(After(Told(topic), batch, topic), pending, topic)

LEMMA AfterAll ==
    ASSUME NEW o \in Seq(Messages), NEW b \in Seq(Messages), NEW p \in Seq(Messages),
           NEW x, NEW topic
    PROVE  After(x, o \o b \o p, topic) = After(After(After(x, o, topic), b, topic), p, topic)
<1> DEFINE q == o \o b
<1>1. q \in Seq(Messages)
  BY TopicsOfConcat
<1>2. After(x, q, topic) = After(After(x, o, topic), b, topic)
  BY AfterConcat
<1> HIDE DEF q
<1>3. After(x, q \o p, topic) = After(After(x, q, topic), p, topic)
  BY <1>1, AfterConcat
<1> QED BY <1>2, <1>3 DEF q

LEMMA AfterNothing ==
    \A x, topic : After(x, <<>>, topic) = x
  BY DEF After

LEMMA WayIs ==
    ASSUME Queues
    PROVE  CacheIsOnItsWay <=> \A topic \in Topics \ lost : Mirrors(topic, Final(topic), cache)
<1>1. \A topic : Latest(outbox \o batch \o pending, topic)
                   = After(retained[topic], outbox \o batch \o pending, topic)
  BY DEF Latest, After
<1>2. outbox \in Seq(Messages) /\ batch \in Seq(Messages) /\ pending \in Seq(Messages)
  BY DEF Queues
<1>3. \A topic : After(retained[topic], outbox \o batch \o pending, topic) = Final(topic)
  BY <1>2, AfterAll DEF Final, Told
<1> QED BY <1>1, <1>3 DEF CacheIsOnItsWay

LEMMA WayIsNext ==
    ASSUME Queues'
    PROVE  CacheIsOnItsWay' <=>
             \A topic \in Topics \ lost' : Mirrors(topic, Final(topic)', cache')
<1>1. \A topic : Latest(outbox \o batch \o pending, topic)'
                   = After(retained'[topic], outbox' \o batch' \o pending', topic)
  BY DEF Latest, After
<1>2. outbox' \in Seq(Messages) /\ batch' \in Seq(Messages) /\ pending' \in Seq(Messages)
  BY DEF Queues
<1>3. \A topic : After(retained'[topic], outbox' \o batch' \o pending', topic) = Final(topic)'
  BY <1>2, AfterAll DEF Final, Told
<1> QED BY <1>1, <1>3 DEF CacheIsOnItsWay

\* Publishing: the client has it, or the broker, unless there is no client
LEMMA PublishIs ==
    ASSUME Queues, Places, NEW q \in Seq(Messages), Publish(q)
    PROVE  /\ outbox' \in Seq(Messages) /\ (link => outbox' = <<>>)
           /\ retained' = [topic \in Topics |-> retained'[topic]]
           /\ \A topic \in Topics : CanPublish \/ topic \notin TopicsOf(q) =>
                 After(retained'[topic], outbox', topic) = After(Told(topic), q, topic)
<1>1. outbox \in Seq(Messages) /\ retained = [topic \in Topics |-> retained[topic]]
  BY DEF Queues
<1>2. CASE link
  <2>1. outbox' = outbox /\ outbox = <<>>
    BY <1>2 DEF Publish, Places
  <2>2. retained' = [topic \in Topics |-> After(retained[topic], q, topic)]
    BY <1>2 DEF Publish, Retain, Latest, After
  <2>3. \A topic \in Topics : retained'[topic] = After(retained[topic], q, topic)
    BY <2>2
  <2>4. retained' = [topic \in Topics |-> retained'[topic]]
    BY <2>2
  <2>5. \A topic : After(retained'[topic], outbox', topic) = retained'[topic]
                   /\ Told(topic) = retained[topic]
    BY <2>1, AfterNothing DEF Told
  <2> QED BY <1>1, <2>1, <2>3, <2>4, <2>5
<1>3. CASE ~ link
  <2>1. retained' = retained /\ outbox' = IF CanPublish THEN outbox \o q ELSE outbox
    BY <1>3 DEF Publish
  <2>2. CASE CanPublish
    <3>1. outbox' = outbox \o q
      BY <2>1, <2>2
    <3>2. outbox \o q \in Seq(Messages)
      BY <1>1, TopicsOfConcat
    <3>3. \A topic : After(retained[topic], outbox \o q, topic) = After(Told(topic), q, topic)
      BY <1>1, AfterConcat DEF Told
    <3> QED BY <1>1, <1>3, <2>1, <3>1, <3>2, <3>3
  <2>3. CASE ~ CanPublish
    <3>1. outbox' = outbox
      BY <2>1, <2>3
    <3>2. \A topic : topic \notin TopicsOf(q) => After(Told(topic), q, topic) = Told(topic)
      BY AfterIs
    <3> QED BY <1>1, <1>3, <2>1, <2>3, <3>1, <3>2 DEF Told
  <2> QED BY <2>2, <2>3
<1> QED BY <1>2, <1>3

LEMMA SyncIs ==
    ASSUME Sync
    PROVE  /\ at = "sync" /\ at' = "second" /\ batch' = batch
           /\ Publish(Discoveries(Overridden))
           /\ pending' = FirstOf(Publications(Overridden), QueueBound)
           /\ lost' = (lost \ TopicsOf(Discoveries(Overridden) \o pending'))
                      \cup (TopicsOf(pending \o Publications(Overridden)) \ TopicsOf(pending'))
                      \cup LostOf(Discoveries(Overridden), <<>>)
           /\ cache' = Overridden /\ overrides' = OverridesLeft
  BY DEF Sync, Discoveries

\* What is said of a device after a command
LEMMA EchoIs ==
    ASSUME Tables, NEW d \in Devices, NEW on \in BOOLEAN, cache[d] # None
    PROVE  LET echo == State(d, [cache[d] EXCEPT !.power = on])
           IN /\ echo \in Seq(Messages) /\ TopicsOf(echo) = {<<"state", d>>}
              /\ Len(echo) = 1
              /\ \A x : After(x, echo, <<"state", d>>) = on
<1>1. cache[d] \in Present
  BY DEF Tables, Snapshots
<1>2. [cache[d] EXCEPT !.power = on].power = on
  BY <1>1 DEF Present
<1>3. State(d, [cache[d] EXCEPT !.power = on]) = Message("state", d, on)
  BY <1>2 DEF State
<1>4. "state" \in Kinds /\ on \in Values
  BY DEF Kinds, Values
<1>5. Len(Message("state", d, on)) = 1
  BY DEF Message
<1> QED BY <1>3, <1>4, <1>5, MessageIs

LEMMA QueuesStep ==
    ASSUME IInv, [Next]_vars
    PROVE  Queues' /\ (link' => outbox' = <<>>)
<1> DEFINE Goal == Queues' /\ (link' => outbox' = <<>>)
<1> USE DEF IInv
<1>0. /\ pending \in Seq(Messages) /\ batch \in Seq(Messages) /\ outbox \in Seq(Messages)
      /\ Len(pending) <= QueueBound /\ Len(batch) <= BatchBound
      /\ retained = [topic \in Topics |-> retained[topic]] /\ lost \subseteq Topics
      /\ link => outbox = <<>>
  BY DEF Queues, Places
<1>b. QueueBound \in Nat /\ BatchBound \in Nat
  BY NoneIsOther
<1>e. <<>> \in Seq(Messages) /\ Len(<<>>) = 0
  OBVIOUS
<1>1. CASE TakeBatch
  <2>1. link' = link
    BY <1>1, TaskKeeps
  <2>2. /\ batch' = FirstOf(pending, BatchBound) /\ pending' = AfterFirst(pending, BatchBound)
        /\ UNCHANGED <<outbox, retained, lost>>
    BY <1>1 DEF TakeBatch
  <2>3. /\ batch' \in Seq(Messages) /\ pending' \in Seq(Messages)
        /\ Len(batch') <= BatchBound /\ Len(pending') <= Len(pending) /\ Len(pending') \in Nat
    BY <1>0, <1>b, <2>2, SplitIs
  <2>4. Len(pending') <= QueueBound
    <3>1. Len(pending) \in Nat
      BY <1>0, LenProperties
    <3> QED BY <1>0, <1>b, <2>3, <3>1
  <2> QED BY <1>0, <2>1, <2>2, <2>3, <2>4 DEF Queues
<1>2. CASE PublishOne
  <2>1. link' = link
    BY <1>2, TaskKeeps
  <2>2. /\ batch # <<>> /\ batch' = Tail(batch) /\ pending' = pending
        /\ Publish(<<Head(batch)>>)
        /\ lost' = lost \cup LostOf(<<Head(batch)>>, Tail(batch) \o pending)
    BY <1>2 DEF PublishOne, syncVars
  <2>3. /\ <<Head(batch)>> \in Seq(Messages) /\ Tail(batch) \in Seq(Messages)
        /\ Len(Tail(batch)) = Len(batch) - 1
        /\ TopicsOf(<<Head(batch)>>) \subseteq Topics
    BY <1>0, <2>2, HeadIs
  <2>4. /\ outbox' \in Seq(Messages) /\ (link => outbox' = <<>>)
        /\ retained' = [topic \in Topics |-> retained'[topic]]
    BY <2>2, <2>3, PublishIs
  <2>5. lost' \subseteq Topics
    BY <1>0, <2>2, <2>3 DEF LostOf
  <2>6. Len(batch') <= BatchBound
    <3>1. Len(batch) \in Nat
      BY <1>0, LenProperties
    <3> QED BY <1>0, <1>b, <2>2, <2>3, <3>1
  <2> QED BY <1>0, <2>1, <2>2, <2>3, <2>4, <2>5, <2>6 DEF Queues
<1>3. CASE Published
  <2>1. link' = link
    BY <1>3, TaskKeeps
  <2>2. /\ pending' = <<>> /\ lost' = lost \cup TopicsOf(pending)
        /\ UNCHANGED <<batch, outbox, retained>>
    BY <1>3 DEF Published
  <2>3. TopicsOf(pending) \subseteq Topics
    BY <1>0, TopicsOfAre
  <2> QED BY <1>0, <1>b, <1>e, <2>1, <2>2, <2>3 DEF Queues
<1>4. CASE Sync
  <2>1. link' = link
    BY <1>4, TaskKeeps
  <2> DEFINE all == Publications(Overridden)
             found == Discoveries(Overridden)
  <2>2. all \in Seq(Messages) /\ found \in Seq(Messages)
    BY OverridesAre, PublicationsAre, DiscoveriesAre DEF Tables
  <2>3. /\ batch' = batch /\ Publish(found) /\ pending' = FirstOf(all, QueueBound)
        /\ lost' = (lost \ TopicsOf(found \o pending'))
                   \cup (TopicsOf(pending \o all) \ TopicsOf(pending'))
                   \cup LostOf(found, <<>>)
    BY <1>4, SyncIs
  <2> HIDE DEF all, found
  <2>4. pending' \in Seq(Messages) /\ Len(pending') <= QueueBound
    BY <1>b, <2>2, <2>3, SplitIs
  <2>5. /\ outbox' \in Seq(Messages) /\ (link => outbox' = <<>>)
        /\ retained' = [topic \in Topics |-> retained'[topic]]
    BY <2>2, <2>3, PublishIs
  <2>6. lost' \subseteq Topics
    <3>1. pending \o all \in Seq(Messages)
      BY <1>0, <2>2, TopicsOfConcat
    <3>2. TopicsOf(pending \o all) \subseteq Topics /\ TopicsOf(found) \subseteq Topics
      BY <2>2, <3>1, TopicsOfAre
    <3> QED BY <1>0, <2>3, <3>2 DEF LostOf
  <2> QED BY <1>0, <2>1, <2>3, <2>4, <2>5, <2>6 DEF Queues
<1>5. CASE Connect
  <2>1. /\ outbox' = <<>> /\ UNCHANGED <<pending, batch, lost>>
        /\ Retain(outbox)
    BY <1>5 DEF Connect, clientUnchanged, taskVars
  <2>2. retained' = [topic \in Topics |-> retained'[topic]]
    BY <2>1 DEF Retain
  <2> QED BY <1>0, <1>e, <2>1, <2>2 DEF Queues
<1>6. CASE OtaReleases
  <2>1. /\ outbox' = <<>> /\ UNCHANGED <<pending, batch, retained>>
        /\ lost' = lost \cup (TopicsOf(outbox) \ TopicsOf(batch \o pending))
    BY <1>6 DEF OtaReleases, otaUnchanged, syncVars, taskVars
  <2>2. TopicsOf(outbox) \subseteq Topics
    BY <1>0, TopicsOfAre
  <2> QED BY <1>0, <1>e, <2>1, <2>2 DEF Queues
<1>7. ASSUME NEW d \in Devices, NEW on \in BOOLEAN, HandlePowerCommand(d, on)
      PROVE  Goal
  <2>1. UNCHANGED <<batch, outbox, retained, link>>
    BY <1>7 DEF HandlePowerCommand, taskVars, halVars, brokerVars
  <2>2. CASE cache[d] = None \/ cache[d].power = on
    <3>1. UNCHANGED <<pending, lost>>
      BY <1>7, <2>2 DEF HandlePowerCommand
    <3> QED BY <1>0, <2>1, <3>1 DEF Queues
  <2>3. CASE ~ (cache[d] = None \/ cache[d].power = on)
    <3> DEFINE echo == State(d, [cache[d] EXCEPT !.power = on])
    <3>1. /\ pending' = IF HasRoom THEN pending \o echo ELSE pending
          /\ lost' = IF HasRoom THEN lost \ TopicsOf(echo) ELSE lost \cup TopicsOf(echo)
      BY <1>7, <2>3 DEF HandlePowerCommand
    <3>2. echo \in Seq(Messages) /\ TopicsOf(echo) = {<<"state", d>>} /\ Len(echo) = 1
      BY <2>3, EchoIs
    <3> HIDE DEF echo
    <3>3. <<"state", d>> \in Topics
      BY DEF Topics, Kinds
    <3>4. lost' \subseteq Topics
      BY <1>0, <3>1, <3>2, <3>3
    <3>5. pending' \in Seq(Messages) /\ Len(pending') <= QueueBound
      <4>1. CASE HasRoom
        <5> DEFINE S == Messages
        <5>0. pending \in Seq(S) /\ echo \in Seq(S)
          BY <1>0, <3>2
        <5> HIDE DEF S
        <5>1. /\ pending \o echo \in Seq(S)
              /\ Len(pending \o echo) = Len(pending) + Len(echo)
          BY <5>0, ConcatProperties
        <5>2. Len(pending) < QueueBound /\ Len(pending) \in Nat
          BY <4>1, <5>0, LenProperties DEF HasRoom
        <5>3. Len(pending \o echo) <= QueueBound
          BY <1>b, <3>2, <5>1, <5>2
        <5> QED BY <3>1, <4>1, <5>1, <5>3 DEF S
      <4>2. CASE ~ HasRoom
        BY <1>0, <3>1, <4>2
      <4> QED BY <4>1, <4>2
    <3> QED BY <1>0, <2>1, <3>4, <3>5 DEF Queues
  <2> QED BY <2>2, <2>3
<1>8. CASE UNCHANGED <<pending, batch, outbox, retained, lost>>
  <2>1. Queues'
    BY <1>0, <1>8 DEF Queues
  <2>2. link' => link \/ Connect
    BY LinkFrame
  <2> QED BY <1>0, <1>5, <1>8, <2>1, <2>2
<1> QED BY <1>1, <1>2, <1>3, <1>4, <1>5, <1>6, <1>7, <1>8, QueuesFrame

LEMMA WayStep ==
    ASSUME IInv, [Next]_vars
    PROVE  CacheIsOnItsWay'
<1> SUFFICES ASSUME NEW topic \in Topics, topic \notin lost'
             PROVE  Mirrors(topic, Final(topic)', cache')
  BY QueuesStep, WayIsNext
<1> DEFINE Goal == Mirrors(topic, Final(topic)', cache')
<1>0. /\ pending \in Seq(Messages) /\ batch \in Seq(Messages) /\ outbox \in Seq(Messages)
      /\ pending' \in Seq(Messages) /\ batch' \in Seq(Messages) /\ outbox' \in Seq(Messages)
  BY QueuesStep DEF IInv, Queues
<1>w. topic \notin lost => Mirrors(topic, Final(topic), cache)
  BY WayIs DEF IInv
<1>f. /\ Final(topic) = After(After(Told(topic), batch, topic), pending, topic)
      /\ Final(topic)' = After(After(Told(topic)', batch', topic), pending', topic)
      /\ Told(topic)' = After(retained'[topic], outbox', topic)
      /\ Told(topic) = After(retained[topic], outbox, topic)
  BY DEF Final, Told
<1>n. \A x : After(x, <<>>, topic) = x
  BY AfterNothing
<1>q. Queues /\ Places /\ Tables /\ CacheIsOnItsWay
  BY DEF IInv
<1>1. CASE TakeBatch
  <2>1. /\ batch = <<>> /\ cache' = cache
        /\ batch' = FirstOf(pending, BatchBound) /\ pending' = AfterFirst(pending, BatchBound)
        /\ UNCHANGED <<outbox, retained, lost>>
    BY <1>1 DEF TakeBatch
  <2>2. batch' \o pending' = pending
    BY <1>0, <2>1, SplitIs, NoneIsOther
  <2>3. Told(topic)' = Told(topic)
    BY <1>f, <2>1
  <2>4. After(After(Told(topic), batch', topic), pending', topic)
          = After(Told(topic), batch' \o pending', topic)
    BY <1>0, AfterConcat
  <2>5. Final(topic)' = Final(topic)
    BY <1>f, <1>n, <2>1, <2>2, <2>3, <2>4
  <2> QED BY <1>w, <2>1, <2>5
<1>2. CASE PublishOne
  <2> DEFINE m == <<Head(batch)>>
             t == Tail(batch)
  <2>1. /\ batch # <<>> /\ batch' = t /\ pending' = pending /\ cache' = cache
        /\ Publish(m) /\ lost' = lost \cup LostOf(m, t \o pending)
    BY <1>2 DEF PublishOne, syncVars
  <2>2. m \in Seq(Messages) /\ t \in Seq(Messages) /\ m \o t = batch
    BY <1>0, <2>1, HeadIs
  <2> HIDE DEF m, t
  <2>3. After(Told(topic), batch, topic) = After(After(Told(topic), m, topic), t, topic)
    <3>1. m \in Seq(Messages) /\ t \in Seq(Messages)
      BY <2>2
    <3>2. \A x : After(x, m \o t, topic) = After(After(x, m, topic), t, topic)
      BY <3>1, AfterConcat
    <3> QED BY <2>2, <3>2
  <2>4. CASE CanPublish \/ topic \notin TopicsOf(m)
    <3>1. Told(topic)' = After(Told(topic), m, topic)
      BY <1>f, <1>q, <2>1, <2>2, <2>4, PublishIs
    <3>2. Final(topic)' = Final(topic)
      BY <1>f, <2>1, <2>3, <3>1
    <3> QED BY <1>w, <2>1, <3>2
  <2>5. CASE ~ CanPublish /\ topic \in TopicsOf(m)
    <3>1. topic \in TopicsOf(t \o pending)
      BY <2>1, <2>5 DEF LostOf
    <3>2. t \o pending \in Seq(Messages)
      BY <1>0, <2>2, TopicsOfConcat
    <3>3. \A x : After(After(x, t, topic), pending, topic) = After(x, t \o pending, topic)
      BY <1>0, <2>2, AfterConcat
    <3>4. \A x, y : After(x, t \o pending, topic) = After(y, t \o pending, topic)
      BY <3>1, <3>2, AfterTold
    <3>5. Final(topic)' = Final(topic)
      BY <1>f, <2>1, <2>3, <3>3, <3>4
    <3> QED BY <1>w, <2>1, <3>5
  <2> QED BY <2>4, <2>5
<1>3. CASE Published
  <2>1. /\ pending' = <<>> /\ lost' = lost \cup TopicsOf(pending) /\ cache' = cache
        /\ UNCHANGED <<batch, outbox, retained>>
    BY <1>3 DEF Published
  <2>2. topic \notin TopicsOf(pending)
    BY <2>1
  <2>3. Final(topic) = After(Told(topic), batch, topic)
    BY <1>0, <1>f, <2>2, AfterIs
  <2>4. Told(topic)' = Told(topic)
    BY <1>f, <2>1
  <2>5. Final(topic)' = Final(topic)
    BY <1>f, <1>n, <2>1, <2>3, <2>4
  <2> QED BY <1>w, <2>1, <2>5
<1>4. CASE Sync
  <2> DEFINE all == Publications(Overridden)
             found == Discoveries(Overridden)
  <2>1. Overridden \in Snapshots /\ cache \in Snapshots
    BY <1>q, OverridesAre DEF Tables
  <2>2. all \in Seq(Messages) /\ found \in Seq(Messages)
    BY <2>1, PublicationsAre, DiscoveriesAre
  <2>3. /\ at = "sync" /\ batch' = batch /\ Publish(found) /\ pending' = FirstOf(all, QueueBound)
        /\ lost' = (lost \ TopicsOf(found \o pending'))
                   \cup (TopicsOf(pending \o all) \ TopicsOf(pending'))
                   \cup LostOf(found, <<>>)
        /\ cache' = Overridden
    BY <1>4, SyncIs
  <2>4. batch = <<>>
    BY <1>q, <2>3 DEF Places
  <2>5. Final(topic)' = After(Told(topic)', pending', topic)
    BY <1>f, <1>n, <2>3, <2>4
  <2>6. \A m \in Members(all) \cup Members(found) : Mirrors(m.topic, m.value, Overridden)
    BY <2>1, MessagesMirror
  <2>7. CASE topic \in TopicsOf(pending')
    <3>1. PICK m \in Members(pending') :
            m.topic = topic /\ After(Told(topic)', pending', topic) = m.value
      <4>1. pending' \in Seq(Messages)
        BY <1>0
      <4> QED BY <2>7, <4>1, AfterIsSaid
    <3>2. Members(pending') \subseteq Members(all)
      <4> HIDE DEF all
      <4> QED BY <2>2, <2>3, SplitIs, NoneIsOther
    <3> QED BY <2>3, <2>5, <2>6, <3>1, <3>2
  <2>8. CASE topic \notin TopicsOf(pending')
    <3>1. Final(topic)' = Told(topic)'
      BY <1>0, <2>5, <2>8, AfterIs
    <3>2. topic \notin TopicsOf(pending \o all)
      BY <2>3, <2>8
    <3>3. topic \notin TopicsOf(pending) /\ topic \notin TopicsOf(all)
      BY <1>0, <2>2, <3>2, TopicsOfConcat
    <3>4. CanPublish \/ topic \notin TopicsOf(found)
      <4>1. topic \notin LostOf(found, <<>>)
        BY <2>3
      <4>2. TopicsOf(<<>>) = {}
        BY DEF TopicsOf
      <4> QED BY <4>1, <4>2 DEF LostOf
    <3>5. Told(topic)' = After(Told(topic), found, topic)
      BY <1>f, <1>q, <2>2, <2>3, <3>4, PublishIs
    <3>6. CASE topic \in TopicsOf(found)
      <4>1. PICK m \in Members(found) :
              m.topic = topic /\ After(Told(topic), found, topic) = m.value
        BY <2>2, <3>6, AfterIsSaid
      <4> QED BY <2>3, <2>6, <3>1, <3>5, <4>1
    <3>7. CASE topic \notin TopicsOf(found)
      <4>1. Told(topic)' = Told(topic)
        BY <2>2, <3>5, <3>7, AfterIs
      <4>2. Final(topic) = Told(topic)
        BY <1>0, <1>f, <1>n, <2>4, <3>3, AfterIs
      <4>3. topic \notin TopicsOf(found \o pending')
        BY <1>0, <2>2, <2>8, <3>7, TopicsOfConcat
      <4>4. topic \notin lost
        BY <2>3, <4>3
      <4>5. Mirrors(topic, Final(topic), cache)
        BY <1>w, <4>4
      <4>6. Mirrors(topic, Final(topic), Overridden)
        BY <2>1, <3>3, <3>7, <4>5, SilentIsSame
      <4> QED BY <2>3, <3>1, <4>1, <4>2, <4>6
    <3> QED BY <3>6, <3>7
  <2> QED BY <2>7, <2>8
<1>5. CASE Connect
  <2>1. /\ outbox' = <<>> /\ UNCHANGED <<pending, batch, lost, cache>>
        /\ Retain(outbox)
    BY <1>5 DEF Connect, clientUnchanged, taskVars
  <2>2. retained'[topic] = Told(topic)
    BY <1>f, <2>1 DEF Retain, Latest, After
  <2>3. Told(topic)' = Told(topic)
    BY <1>f, <1>n, <2>1, <2>2
  <2>4. Final(topic)' = Final(topic)
    BY <1>f, <2>1, <2>3
  <2> QED BY <1>w, <2>1, <2>4
<1>6. CASE OtaReleases
  <2>1. /\ outbox' = <<>> /\ UNCHANGED <<pending, batch, retained, cache>>
        /\ lost' = lost \cup (TopicsOf(outbox) \ TopicsOf(batch \o pending))
    BY <1>6 DEF OtaReleases, otaUnchanged, syncVars, taskVars
  <2>2. Told(topic)' = retained[topic]
    BY <1>f, <1>n, <2>1
  <2>3. CASE topic \notin TopicsOf(outbox)
    <3>1. Told(topic) = retained[topic]
      BY <1>0, <1>f, <2>3, AfterIs
    <3> QED BY <1>f, <1>w, <2>1, <2>2, <3>1
  <2>4. CASE topic \in TopicsOf(outbox)
    <3>1. topic \in TopicsOf(batch \o pending)
      BY <2>1, <2>4
    <3>2. batch \o pending \in Seq(Messages)
      BY <1>0, TopicsOfConcat
    <3>3. \A x : After(After(x, batch, topic), pending, topic) = After(x, batch \o pending, topic)
      BY <1>0, AfterConcat
    <3>4. \A x, y : After(x, batch \o pending, topic) = After(y, batch \o pending, topic)
      BY <3>1, <3>2, AfterTold
    <3>5. Final(topic)' = Final(topic)
      BY <1>f, <2>1, <3>3, <3>4
    <3> QED BY <1>w, <2>1, <3>5
  <2> QED BY <2>3, <2>4
<1>7. ASSUME NEW d \in Devices, NEW on \in BOOLEAN, HandlePowerCommand(d, on)
      PROVE  Goal
  <2>1. UNCHANGED <<batch, outbox, retained>>
    BY <1>7 DEF HandlePowerCommand, taskVars, brokerVars
  <2>2. Told(topic)' = Told(topic)
    BY <1>f, <2>1
  <2>3. CASE cache[d] = None \/ cache[d].power = on
    <3>1. UNCHANGED <<pending, lost, cache>>
      BY <1>7, <2>3 DEF HandlePowerCommand
    <3>2. Final(topic)' = Final(topic)
      BY <1>f, <2>1, <2>2, <3>1
    <3> QED BY <1>w, <3>1, <3>2
  <2>4. CASE ~ (cache[d] = None \/ cache[d].power = on)
    <3> DEFINE echo == State(d, [cache[d] EXCEPT !.power = on])
    <3>1. /\ pending' = IF HasRoom THEN pending \o echo ELSE pending
          /\ lost' = IF HasRoom THEN lost \ TopicsOf(echo) ELSE lost \cup TopicsOf(echo)
          /\ cache' = [cache EXCEPT ![d].power = on]
      BY <1>7, <2>4 DEF HandlePowerCommand
    <3>2. /\ echo \in Seq(Messages) /\ TopicsOf(echo) = {<<"state", d>>}
          /\ \A x : After(x, echo, <<"state", d>>) = on
      BY <1>q, <2>4, EchoIs
    <3> HIDE DEF echo
    <3>3. cache[d] \in Present /\ cache \in Snapshots
      BY <1>q, <2>4 DEF Tables, Snapshots
    <3>4. /\ cache'[d] # None /\ cache'[d].power = on
          /\ Entities(cache'[d]) = Entities(cache[d]) /\ cache'[d].reading = cache[d].reading
          /\ \A e \in Devices : e # d => cache'[e] = cache[e]
      <4> DEFINE device == [cache[d] EXCEPT !.power = on]
      <4>1. cache' = [cache EXCEPT ![d] = device]
        BY <3>1
      <4>2. cache'[d] = device /\ \A e \in Devices : e # d => cache'[e] = cache[e]
        BY <3>3, <4>1 DEF Snapshots
      <4>3. device \in Present /\ device.power = on /\ device.reading = cache[d].reading
        BY <3>3 DEF Present
      <4> HIDE DEF device
      <4>4. Entities(device) = Entities(cache[d])
        BY <4>3 DEF Entities, PowerEntity, SensorEntity
      <4> QED BY <4>2, <4>3, <4>4, NoneIsOther
    <3>5. CASE topic = <<"state", d>>
      <4>1. HasRoom
        BY <3>1, <3>2, <3>5
      <4>2. pending' = pending \o echo
        BY <3>1, <4>1
      <4>3. \A x : After(x, pending \o echo, topic) = After(After(x, pending, topic), echo, topic)
        BY <1>0, <3>2, AfterConcat
      <4>4. Final(topic)' = on
        BY <1>f, <3>2, <3>5, <4>2, <4>3
      <4> QED BY <3>4, <3>5, <4>4 DEF Mirrors
    <3>6. CASE topic # <<"state", d>>
      <4>1. \A x : After(x, pending', topic) = After(x, pending, topic)
        <5>1. CASE HasRoom
          <6>1. pending' = pending \o echo
            BY <3>1, <5>1
          <6>2. topic \notin TopicsOf(echo)
            BY <3>2, <3>6
          <6>3. \A x : After(x, pending \o echo, topic) = After(After(x, pending, topic), echo, topic)
            BY <1>0, <3>2, AfterConcat
          <6>4. \A x : After(x, echo, topic) = x
            BY <3>2, <6>2, AfterIs
          <6> QED BY <6>1, <6>3, <6>4
        <5>2. CASE ~ HasRoom
          BY <3>1, <5>2
        <5> QED BY <5>1, <5>2
      <4>2. Final(topic)' = Final(topic)
        BY <1>f, <2>1, <2>2, <4>1
      <4>3. topic \notin lost
        BY <3>1, <3>2, <3>6
      <4>4. Mirrors(topic, Final(topic), cache)
        BY <1>w, <4>3
      <4>5. PICK kind \in Kinds, e \in Devices : topic = <<kind, e>>
        BY DEF Topics
      <4>6. topic[1] = kind /\ topic[2] = e /\ (e = d => kind # "state")
        BY <3>6, <4>5
      <4>7. CASE e # d
        <5>1. cache'[e] = cache[e]
          BY <3>4, <4>7
        <5> QED BY <4>2, <4>4, <4>6, <5>1 DEF Mirrors
      <4>8. CASE e = d
        <5>1. cache[e] # None /\ cache'[e] # None /\ kind # "state"
          BY <2>4, <3>4, <4>6, <4>8
        <5>2. /\ Entities(cache'[e]) = Entities(cache[e])
              /\ cache'[e].reading = cache[e].reading
          BY <3>4, <4>8
        <5> QED BY <4>2, <4>4, <4>6, <5>1, <5>2 DEF Mirrors, Kinds
      <4> QED BY <4>7, <4>8
    <3> QED BY <3>5, <3>6
  <2> QED BY <2>3, <2>4
<1>8. CASE UNCHANGED <<pending, batch, outbox, retained, lost, cache>>
  BY <1>f, <1>w, <1>8
<1>9. \/ UNCHANGED cache
      \/ Sync
      \/ \E d \in Devices, on \in BOOLEAN : HandlePowerCommand(d, on)
  BY TablesFrame DEF Fetch, Delay, DevicesChange, syncVars
<1> QED BY <1>1, <1>2, <1>3, <1>4, <1>5, <1>6, <1>7, <1>8, <1>9, QueuesFrame

-----------------------------------------------------------------------------
(* The tasks, the commands and the connection                              *)

LEMMA PlacesStep ==
    ASSUME IInv, [Next]_vars
    PROVE  Places'
<1>0. /\ link => outbox = <<>>
      /\ batch # <<>> => at \in {"first", "second"}
      /\ boot = "init" =>
            client = "none" /\ ~ connected /\ ~ link /\ event = None /\ ota = "idle"
  BY DEF IInv, Places
<1>1. link' => outbox' = <<>>
  BY QueuesStep
<1>2. batch' # <<>> => at' \in {"first", "second"}
  <2>1. CASE TakeBatch
    BY <2>1 DEF TakeBatch
  <2>2. CASE PublishOne
    BY <1>0, <2>2 DEF PublishOne
  <2>3. CASE Published
    BY <2>3 DEF Published
  <2>4. CASE Fetch
    BY <1>0, <2>4 DEF Fetch
  <2>5. CASE Sync
    BY <1>0, <2>5, SyncIs
  <2>6. CASE Delay
    BY <1>0, <2>6 DEF Delay
  <2>7. \/ TakeBatch \/ PublishOne \/ Published \/ Fetch \/ Sync \/ Delay
        \/ UNCHANGED <<at, batch>>
    BY NextIs DEF HandleError, HandleDisconnected, HandleConnected, AlreadySubscribed,
                  Subscribe, SubscribeFails, LinkFails, Connect, StartTransport,
                  StartTransportFails, TransportStarted, OtaStops, OtaReleases, OtaResumes,
                  HandlePowerCommand, DevicesChange, vars, handlerUnchanged, clientUnchanged,
                  bootUnchanged, otaUnchanged, taskVars
  <2> QED BY <1>0, <2>1, <2>2, <2>3, <2>4, <2>5, <2>6, <2>7
<1>3. boot' = "init" =>
        client' = "none" /\ ~ connected' /\ ~ link' /\ event' = None /\ ota' = "idle"
  <2>1. CASE TakeBatch \/ PublishOne \/ Published \/ Fetch \/ Sync \/ Delay
    BY <1>0, <2>1, TaskKeeps
  <2>2. CASE StartTransport \/ StartTransportFails \/ TransportStarted
    BY <2>2 DEF StartTransport, StartTransportFails, TransportStarted
  <2>3. CASE Connect \/ LinkFails
    <3>1. client # "none" /\ boot' = boot
      BY <2>3 DEF Connect, LinkFails, handlerUnchanged, clientUnchanged, workerVars
    <3> QED BY <1>0, <3>1
  <2>4. CASE \/ HandleError \/ HandleDisconnected \/ HandleConnected
             \/ AlreadySubscribed \/ Subscribe \/ SubscribeFails
    <3>1. event \in {"error", "disconnected", "connected", "subscribe"} /\ boot' = boot
      BY <2>4 DEF HandleError, HandleDisconnected, HandleConnected, AlreadySubscribed,
                  Subscribe, SubscribeFails, handlerUnchanged, clientUnchanged, workerVars
    <3> QED BY <1>0, <3>1, NoneIsOther
  <2>5. CASE OtaStops
    <3>1. client # "none" /\ boot' = boot
      BY <2>5 DEF OtaStops, otaUnchanged
    <3> QED BY <1>0, <3>1
  <2>6. CASE OtaReleases \/ OtaResumes
    <3>1. ota # "idle" /\ boot' = boot
      BY <2>6 DEF OtaReleases, OtaResumes, otaUnchanged
    <3> QED BY <1>0, <3>1
  <2>7. CASE \E d \in Devices, on \in BOOLEAN : HandlePowerCommand(d, on)
    <3>1. UNCHANGED <<boot, client, connected, link, event, ota>>
      BY <2>7 DEF HandlePowerCommand, halVars, workerVars
    <3> QED BY <1>0, <3>1
  <2>8. CASE DevicesChange \/ UNCHANGED vars
    <3>1. UNCHANGED <<boot, client, connected, link, event, ota>>
      BY <2>8 DEF DevicesChange, vars, halVars, workerVars
    <3> QED BY <1>0, <3>1
  <2> QED BY <2>1, <2>2, <2>3, <2>4, <2>5, <2>6, <2>7, <2>8, NextIs
<1> QED BY <1>1, <1>2, <1>3 DEF Places

LEMMA HoldsStep ==
    ASSUME IInv, [Next]_vars
    PROVE  CommandHolds'
<1> SUFFICES ASSUME NEW d \in Devices, overrides'[d] # None, cache'[d] # None
             PROVE  cache'[d].power = overrides'[d].on
  BY DEF CommandHolds, Active
<1>0. Tables /\ (overrides[d] # None /\ cache[d] # None => cache[d].power = overrides[d].on)
  BY DEF IInv, CommandHolds, Active
<1>1. CASE Sync
  <2>1. cache' = Overridden /\ overrides' = OverridesLeft
    BY <1>1, SyncIs
  <2> QED BY <1>0, <2>1, OverridesAre
<1>2. CASE Delay
  <2>1. cache' = cache
    BY <1>2 DEF Delay
  <2>2. overrides'[d] = IF d \in Active /\ overrides[d].left > 0
                        THEN [overrides[d] EXCEPT !.left = @ - 1] ELSE overrides[d]
    BY <1>2 DEF Delay
  <2>3. overrides[d] # None
    BY <2>2 DEF Active
  <2>4. overrides[d] \in [on : BOOLEAN, left : 0 .. Window]
    BY <1>0, <2>3 DEF Tables
  <2>5. overrides'[d].on = overrides[d].on
    BY <2>2, <2>4
  <2> QED BY <1>0, <2>1, <2>3, <2>5
<1>3. ASSUME NEW e \in Devices, NEW on \in BOOLEAN, HandlePowerCommand(e, on)
      PROVE  cache'[d].power = overrides'[d].on
  <2>1. overrides' = WithOverride(e, on)
    BY <1>3 DEF HandlePowerCommand
  <2>2. CASE cache[e] = None \/ cache[e].power = on
    <3>1. cache' = cache
      BY <1>3, <2>2 DEF HandlePowerCommand
    <3>2. CASE d = e
      <4>1. overrides'[d] = [on |-> on, left |-> Window]
        BY <1>0, <2>1, <3>2, WithOverrideIs
      <4>2. cache[d].power = on
        BY <2>2, <3>1, <3>2
      <4> QED BY <3>1, <4>1, <4>2
    <3>3. CASE d # e
      BY <1>0, <2>1, <3>1, <3>3, WithOverrideIs
    <3> QED BY <3>2, <3>3
  <2>3. CASE ~ (cache[e] = None \/ cache[e].power = on)
    <3>1. cache' = [cache EXCEPT ![e].power = on]
      BY <1>3, <2>3 DEF HandlePowerCommand
    <3>2. cache \in Snapshots /\ cache[e] \in Present
      BY <1>0, <2>3 DEF Tables, Snapshots
    <3>3. CASE d = e
      <4>1. overrides'[d] = [on |-> on, left |-> Window]
        BY <1>0, <2>1, <3>3, WithOverrideIs
      <4>2. cache'[d].power = on
        BY <3>1, <3>2, <3>3 DEF Snapshots, Present
      <4> QED BY <4>1, <4>2
    <3>4. CASE d # e
      <4>1. cache'[d] = cache[d]
        BY <3>1, <3>2, <3>4 DEF Snapshots
      <4> QED BY <1>0, <2>1, <3>4, <4>1, WithOverrideIs
    <3> QED BY <3>3, <3>4
  <2> QED BY <2>2, <2>3
<1>4. CASE UNCHANGED <<cache, overrides>>
  BY <1>0, <1>4
<1>5. \/ UNCHANGED <<cache, overrides>> \/ Sync \/ Delay
      \/ \E e \in Devices, on \in BOOLEAN : HandlePowerCommand(e, on)
  BY TablesFrame DEF Fetch, DevicesChange, syncVars
<1> QED BY <1>1, <1>2, <1>3, <1>4, <1>5

LEMMA ConnectionStep ==
    ASSUME IInv, [Next]_vars
    PROVE  Subscriptions' /\ ConnectedIsSubscribed'
<1> DEFINE Goal == Subscriptions' /\ ConnectedIsSubscribed'
<1>0. /\ subscribed /\ event \notin {"error", "disconnected"} => listening \/ renewed
      /\ connected /\ event = None =>
            listening \/ status.error = "subscribe_failed" \/ renewed \/ overtaken
      /\ boot = "init" => ~ connected
  BY DEF IInv, Subscriptions, ConnectedIsSubscribed, Places
<1>n. None \notin {"error", "disconnected", "connected", "subscribe"}
  BY NoneIsOther
<1>1. CASE UNCHANGED <<connected, event, subscribed, listening, status, renewed, overtaken>>
  BY <1>0, <1>1 DEF Subscriptions, ConnectedIsSubscribed
<1>2. CASE StartTransportFails
  BY <1>0, <1>2 DEF StartTransportFails, bootUnchanged, brokerVars, Subscriptions,
                    ConnectedIsSubscribed
<1>3. CASE TransportStarted
  <2>1. /\ UNCHANGED <<connected, event, subscribed, listening, renewed>>
        /\ overtaken' = (connected /\ (event = "subscribe" => subscribed))
    BY <1>3 DEF TransportStarted, bootUnchanged, brokerVars, halVars
  <2> QED BY <1>0, <1>n, <2>1 DEF Subscriptions, ConnectedIsSubscribed
<1>4. CASE Connect
  <2>1. /\ event = None /\ event' = "connected"
        /\ UNCHANGED <<subscribed, listening, renewed>>
    BY <1>4 DEF Connect, statusVars
  <2> QED BY <1>0, <1>n, <2>1 DEF Subscriptions, ConnectedIsSubscribed
<1>5. CASE LinkFails
  <2>1. event' \in {"error", "disconnected"}
    BY <1>5 DEF LinkFails
  <2> QED BY <1>n, <2>1 DEF Subscriptions, ConnectedIsSubscribed
<1>6. CASE HandleError
  <2>1. event' = "disconnected"
    BY <1>6 DEF HandleError
  <2> QED BY <1>n, <2>1 DEF Subscriptions, ConnectedIsSubscribed
<1>7. CASE HandleDisconnected
  <2>1. connected' = FALSE /\ subscribed' = FALSE
    BY <1>7 DEF HandleDisconnected
  <2> QED BY <2>1 DEF Subscriptions, ConnectedIsSubscribed
<1>8. CASE HandleConnected
  <2>1. /\ event = "connected" /\ event' = "subscribe"
        /\ UNCHANGED <<subscribed, listening, renewed>>
    BY <1>8 DEF HandleConnected
  <2> QED BY <1>0, <1>n, <2>1 DEF Subscriptions, ConnectedIsSubscribed
<1>9. CASE AlreadySubscribed
  <2>1. /\ event = "subscribe" /\ subscribed
        /\ UNCHANGED <<subscribed, listening, renewed>>
    BY <1>9 DEF AlreadySubscribed, statusVars
  <2>2. listening' \/ renewed'
    BY <1>0, <2>1
  <2> QED BY <2>2 DEF Subscriptions, ConnectedIsSubscribed
<1>10. CASE Subscribe
  <2>1. listening' = TRUE
    BY <1>10 DEF Subscribe
  <2> QED BY <2>1 DEF Subscriptions, ConnectedIsSubscribed
<1>11. CASE SubscribeFails
  <2>1. ~ subscribed' /\ status' = [connected |-> FALSE, error |-> "subscribe_failed"]
    BY <1>11 DEF SubscribeFails, SetStatus
  <2>2. status'.error = "subscribe_failed"
    BY <2>1
  <2> QED BY <2>1, <2>2 DEF Subscriptions, ConnectedIsSubscribed
<1>12. CASE OtaStops
  <2>1. connected' = FALSE /\ renewed' = subscribed /\ subscribed' = subscribed
    BY <1>12 DEF OtaStops, otaUnchanged, statusVars
  <2> QED BY <2>1 DEF Subscriptions, ConnectedIsSubscribed
<1>13. \/ TakeBatch \/ PublishOne \/ Published \/ Fetch \/ Sync \/ Delay
       \/ StartTransport \/ OtaReleases \/ OtaResumes \/ DevicesChange
       \/ (\E d \in Devices, on \in BOOLEAN : HandlePowerCommand(d, on))
       \/ UNCHANGED vars
       => UNCHANGED <<connected, event, subscribed, listening, status, renewed, overtaken>>
  <2>1. TakeBatch \/ PublishOne \/ Published \/ Fetch \/ Sync \/ Delay
        => UNCHANGED <<connected, event, subscribed, listening, status, renewed, overtaken>>
    BY TaskKeeps
  <2>2. StartTransport \/ OtaReleases \/ OtaResumes
        => UNCHANGED <<connected, event, subscribed, listening, status, renewed, overtaken>>
    BY DEF StartTransport, OtaReleases, OtaResumes, bootUnchanged, otaUnchanged, brokerVars,
           statusVars
  <2>3. DevicesChange \/ UNCHANGED vars
        => UNCHANGED <<connected, event, subscribed, listening, status, renewed, overtaken>>
    BY DEF DevicesChange, vars, halVars, brokerVars, statusVars, historyVars
  <2>4. (\E d \in Devices, on \in BOOLEAN : HandlePowerCommand(d, on))
        => UNCHANGED <<connected, event, subscribed, listening, status, renewed, overtaken>>
    BY DEF HandlePowerCommand, halVars, brokerVars, statusVars
  <2> QED BY <2>1, <2>2, <2>3, <2>4
<1> QED BY <1>1, <1>2, <1>3, <1>4, <1>5, <1>6, <1>7, <1>8, <1>9, <1>10, <1>11, <1>12, <1>13,
           NextIs

\* The inductive invariant holds.
THEOREM IInvHolds == Spec => []IInv
<1>1. IInv /\ [Next]_vars => IInv'
  <2> SUFFICES ASSUME IInv, [Next]_vars PROVE IInv'
    OBVIOUS
  <2>1. Tables' /\ Queues' /\ Flags' /\ Places'
    BY TablesStep, QueuesStep, FlagsStep, PlacesStep
  <2>2. CacheIsOnItsWay' /\ CommandHolds'
    BY WayStep, HoldsStep
  <2>3. Subscriptions' /\ ConnectedIsSubscribed'
    BY ConnectionStep
  <2> QED BY <2>1, <2>2, <2>3 DEF IInv
<1> QED BY <1>1, InitIInv, PTL DEF Spec

LEMMA IInvImpliesTypes == IInv => TypeOK
<1> SUFFICES ASSUME IInv PROVE TypeOK
  OBVIOUS
<1>1. {devices, cache, taken} \subseteq [Devices -> Present \cup {None}]
  BY DEF IInv, Tables, Snapshots
<1>2. \A d \in Active : overrides[d] \in [on : BOOLEAN, left : 0 .. Window]
  <2> DEFINE Left == [on : BOOLEAN, left : 0 .. Window]
  <2>1. overrides \in [Devices -> Left \cup {None}]
    BY DEF IInv, Tables
  <2> HIDE DEF Left
  <2>2. \A d \in Active : overrides[d] \in Left
    BY <2>1 DEF Active
  <2> QED BY <2>2 DEF Left
<1>3. \A q \in Seq(Messages) : MessageQueue(q)
  <2> SUFFICES ASSUME NEW q \in Seq(Messages) PROVE MessageQueue(q)
    OBVIOUS
  <2>1. TopicsOf(q) \subseteq Topics
    BY TopicsOfAre
  <2> QED BY <2>1 DEF MessageQueue, TopicsOf
<1>4. /\ MessageQueue(pending) /\ MessageQueue(batch) /\ MessageQueue(outbox)
      /\ Len(pending) <= QueueBound /\ Len(batch) <= BatchBound
      /\ DOMAIN retained = Topics /\ lost \subseteq Topics
  BY <1>3 DEF IInv, Queues
<1>5. {republish, subscribed, enabled, connected, link, listening, renewed, overtaken}
         \subseteq BOOLEAN
  BY DEF IInv, Flags
<1>6. /\ status \in Statuses
      /\ at \in {"first", "fetch", "sync", "second", "delay"}
      /\ client \in {"none", "made", "started"}
      /\ event \in {None, "connected", "subscribe", "error", "disconnected"}
      /\ boot \in {"init", "noting", "done"} /\ ota \in {"idle", "stopped", "released"}
      /\ changes \in 0 .. MaxChanges /\ commands \in 0 .. MaxCommands /\ faults \in 0 .. MaxFaults
  BY DEF IInv, Flags
<1>7. Cardinality(Active) <= MaxDevices
  BY DEF IInv, Tables
<1> QED BY <1>1, <1>2, <1>4, <1>5, <1>6, <1>7 DEF TypeOK

-----------------------------------------------------------------------------
\* What the bridge has cached as told is what the broker was told last, or what is in the
\* queue, in the batch or in the client's outbox; and while a command is being carried out
\* the cache holds to what was echoed (MqttBridge::sync_snapshot, sync_device_state,
\* apply_power_overrides).
THEOREM CacheIsTold == Spec => []CacheHolds
<1>1. IInv => CacheHolds
  BY IInvImpliesTypes DEF IInv, CacheHolds
<1> QED BY <1>1, IInvHolds, PTL

\* A gateway that counts itself connected, with nothing under way, is subscribed, unless the
\* status tells of the failure (MqttBridge::on_transport_connected, on_transport_disconnected,
\* hal_mqtt_stop).
THEOREM ConnectionIsSubscribed == Spec => []ConnectedIsSubscribed
<1>1. IInv => ConnectedIsSubscribed
  BY DEF IInv
<1> QED BY <1>1, IInvHolds, PTL

-----------------------------------------------------------------------------
(***************************************************************************)
(* The Matter bridge, MatterBridge for any devices, sensors, endpoints and *)
(* bounds that meet Matter!Bounds.  Its comparison of the snapshot with    *)
(* the shadows is made of sequences as that of the MQTT bridge is, and the *)
(* lemmas about those serve both.                                          *)
(***************************************************************************)
CONSTANTS MatterDevices, Classes, ValuesOf(_), Default(_), Map, NoEndpoint, Nothing,
          AtStart, Capacity, Moves, Refusals

VARIABLES here, shadows, attributes, moves, refusals, untold, announced

Matter == INSTANCE MatterBridge WITH
    Devices <- MatterDevices, Values <- ValuesOf, None <- Nothing, Restored <- AtStart,
    MaxDevices <- Capacity, MaxChanges <- Moves, MaxFaults <- Refusals,
    devices <- here, changes <- moves, faults <- refusals, lost <- untold

\* An update, and all those that there may be
Update(endpoint, attribute, value) == [key |-> <<endpoint, attribute>>, value |-> value]
UpdateRecords == [key : Matter!Keys, value : Matter!AllValues \cup BOOLEAN]
MatterSnapshots == [MatterDevices -> Matter!Present \cup {Nothing}]

LEMMA SameSets ==
    ASSUME NEW S
    PROVE  /\ Matter!IsFiniteSet(S) <=> IsFiniteSet(S)
           /\ Matter!Cardinality(S) = Cardinality(S)
<1>1. Matter!IsFiniteSet(S) <=> IsFiniteSet(S)
  BY DEF Matter!IsFiniteSet, IsFiniteSet
<1>2. Matter!Cardinality(S) = Cardinality(S)
  BY DEF Matter!Cardinality, Cardinality
<1> QED BY <1>1, <1>2

LEMMA SameSequences ==
    /\ \A S : Matter!SetToSeq(S) = SetToSeq(S)
    /\ \A q : Matter!FlattenSeq(q) = FlattenSeq(q)
    /\ \A S : Matter!Max(S) = Max(S)
<1>1. ASSUME NEW S PROVE Matter!SetToSeq(S) = SetToSeq(S)
  <2>1. Matter!Cardinality(S) = Cardinality(S)
    BY SameSets
  <2>2. \A f : Matter!IsInjective(f) <=> IsInjective(f)
    BY DEF Matter!IsInjective, IsInjective
  <2> QED BY <2>1, <2>2 DEF Matter!SetToSeq, SetToSeq
<1>2. ASSUME NEW q PROVE Matter!FlattenSeq(q) = FlattenSeq(q)
  BY DEF Matter!FlattenSeq, FlattenSeq
<1>3. ASSUME NEW S PROVE Matter!Max(S) = Max(S)
  BY DEF Matter!Max, Max
<1> QED BY <1>1, <1>2, <1>3

LEMMA BoundsAre ==
    ASSUME Matter!Bounds
    PROVE  /\ Capacity \in Nat \ {0} /\ Moves \in Nat /\ Refusals \in Nat
           /\ IsFiniteSet(MatterDevices)
           /\ Classes \in Seq(Matter!ClassSet) /\ Classes # <<>>
           /\ NoEndpoint \notin {Default(class) : class \in Matter!ClassSet}
           /\ Nothing \notin Matter!Present /\ Nothing \notin Matter!Shadows
           /\ Nothing \notin Matter!AllValues \cup BOOLEAN
           /\ "available" \notin Matter!ClassSet /\ "stale" \notin Matter!ClassSet
           /\ AtStart \subseteq MatterSnapshots
           /\ \A s \in AtStart : Cardinality({d \in MatterDevices : s[d] # Nothing}) <= Capacity
<1>1. IsFiniteSet(MatterDevices)
  BY SameSets DEF Matter!Bounds
<1>2. \A s \in AtStart : Cardinality({d \in MatterDevices : s[d] # Nothing}) <= Capacity
  BY SameSets DEF Matter!Bounds
<1>3. Classes \in Seq(Matter!ClassSet) /\ Classes # <<>>
  BY DEF Matter!Bounds
<1> QED BY <1>1, <1>2, <1>3 DEF Matter!Bounds, MatterSnapshots

\* Readings of a device
LEMMA ReadingIs ==
    ASSUME NEW device \in Matter!Present, NEW class \in Matter!ClassSet
    PROVE  /\ device.stale \in BOOLEAN
           /\ device.readings[class] # Nothing => device.readings[class] \in Matter!AllValues
<1>1. device.stale \in BOOLEAN /\ device.readings \in Matter!Readings
  BY DEF Matter!Present
<1>2. device.readings[class] \in ValuesOf(class) \cup {Nothing}
  BY <1>1 DEF Matter!Readings
<1> QED BY <1>1, <1>2 DEF Matter!AllValues

LEMMA ClassesAre ==
    ASSUME Matter!Bounds
    PROVE  /\ Len(Classes) \in Nat \ {0} /\ DOMAIN Classes = 1 .. Len(Classes)
           /\ \A i \in DOMAIN Classes : Classes[i] \in Matter!ClassSet
           /\ Matter!ClassSet = Members(Classes) /\ Matter!ClassSet # {}
<1> DEFINE S == Matter!ClassSet
<1>1. Classes \in Seq(S) /\ Classes # <<>>
  BY BoundsAre
<1>2. S = Members(Classes)
  BY DEF Matter!ClassSet, Members
<1> HIDE DEF S
<1>3. Len(Classes) \in Nat /\ DOMAIN Classes = 1 .. Len(Classes)
      /\ \A i \in DOMAIN Classes : Classes[i] \in S
  BY <1>1, SeqIs
<1>4. Len(Classes) # 0
  BY <1>1
<1>5. 1 \in DOMAIN Classes
  BY <1>3, <1>4
<1>6. S # {}
  BY <1>3, <1>5
<1> QED BY <1>2, <1>3, <1>4, <1>6 DEF S

\* The endpoints of a device are endpoints
LEMMA ResolveIs ==
    ASSUME Matter!Bounds, NEW d \in MatterDevices, NEW class \in Matter!ClassSet
    PROVE  /\ Matter!Resolve(d, class) \in Matter!Endpoints
           /\ Matter!Resolve(d, class) \in Matter!EndpointsOf(d)
<1>1. NoEndpoint # Default(class)
  BY BoundsAre
<1> QED BY <1>1 DEF Matter!Resolve, Matter!IsMapped, Matter!Endpoints, Matter!EndpointsOf

LEMMA PrimaryIs ==
    ASSUME Matter!Bounds, NEW device
    PROVE  Matter!Primary(device) = 0 \/ Matter!Primary(device) \in DOMAIN Classes
<1> DEFINE has == {i \in DOMAIN Classes : device.readings[Classes[i]] # Nothing}
<1>1. has \in SUBSET Nat
  BY ClassesAre
<1>2. ASSUME has # {} PROVE \E i \in has : \A j \in has : i <= j
  <2> DEFINE less == OpToRel(<, Nat)
  <2>1. IsWellFoundedOn(less, Nat)
    BY NatLessThanWellFounded
  <2>2. \A x, y \in Nat : <<y, x>> \in less <=> y < x
    BY DEF OpToRel
  <2> HIDE DEF less, has
  <2>3. PICK i \in has : \A y \in has : ~ (<<y, i>> \in less)
    BY <1>1, <1>2, <2>1, WFMin
  <2>4. ASSUME NEW j \in has PROVE i <= j
    <3>1. ~ (<<j, i>> \in less) /\ i \in Nat /\ j \in Nat
      BY <1>1, <2>3
    <3>2. ~ (j < i)
      BY <2>2, <3>1
    <3> QED BY <3>1, <3>2
  <2> QED BY <2>4
<1>3. CASE has = {}
  BY <1>3 DEF Matter!Primary
<1>4. CASE has # {}
  <2>1. Matter!Primary(device) = CHOOSE i \in has : \A j \in has : i <= j
    BY <1>4 DEF Matter!Primary
  <2> QED BY <1>2, <1>4, <2>1
<1> QED BY <1>3, <1>4

LEMMA StatusEndpointIs ==
    ASSUME Matter!Bounds, NEW d \in MatterDevices, NEW device
    PROVE  LET e == Matter!StatusEndpoint(d, device) IN
           /\ e = NoEndpoint \/ (e \in Matter!Endpoints /\ e \in Matter!EndpointsOf(d))
           /\ Matter!IsMapped(d) => e = Map[d] /\ e # NoEndpoint
<1> DEFINE e == Matter!StatusEndpoint(d, device)
<1>1. CASE Matter!IsMapped(d)
  <2>1. e = Map[d] /\ e # NoEndpoint
    BY <1>1 DEF Matter!StatusEndpoint, Matter!IsMapped
  <2>2. PICK class \in Matter!ClassSet : TRUE
    BY ClassesAre
  <2>3. Matter!Resolve(d, class) = Map[d]
    BY <1>1 DEF Matter!Resolve
  <2> QED BY <2>1, <2>3, ResolveIs
<1>2. CASE ~ Matter!IsMapped(d)
  <2>1. CASE Matter!Primary(device) = 0
    BY <1>2, <2>1 DEF Matter!StatusEndpoint
  <2>2. CASE Matter!Primary(device) # 0
    <3> DEFINE class == Classes[Matter!Primary(device)]
    <3>1. class \in Matter!ClassSet
      BY <2>2, PrimaryIs, ClassesAre
    <3>2. e = Matter!Resolve(d, class)
      BY <1>2, <2>2 DEF Matter!StatusEndpoint, Matter!Resolve
    <3> HIDE DEF class, e
    <3>3. e \in Matter!Endpoints /\ e \in Matter!EndpointsOf(d)
      BY <3>1, <3>2, ResolveIs
    <3> QED BY <1>2, <3>3 DEF e
  <2> QED BY <2>1, <2>2
<1> QED BY <1>1, <1>2

LEMMA KeyIs ==
    ASSUME Matter!Bounds, NEW e \in Matter!Endpoints
    PROVE  /\ <<e, "available">> \in Matter!Keys /\ <<e, "stale">> \in Matter!Keys
           /\ \A class \in Matter!ClassSet : <<e, class>> \in Matter!Keys
  BY DEF Matter!Keys

LEMMA WhenIs ==
    ASSUME NEW condition, NEW endpoint, NEW attribute, NEW value,
           condition => Update(endpoint, attribute, value) \in UpdateRecords
    PROVE  LET q == Matter!When(condition, endpoint, attribute, value)
           IN /\ q \in Seq(UpdateRecords)
              /\ Members(q) = {u \in {Update(endpoint, attribute, value)} : condition}
<1> DEFINE S == UpdateRecords
           u == Update(endpoint, attribute, value)
           q == Matter!When(condition, endpoint, attribute, value)
<1>1. CASE condition
  <2>1. q = <<u>> /\ u \in S
    BY <1>1 DEF Matter!When, Update
  <2> HIDE DEF S, u, q
  <2>2. q \in Seq(S) /\ DOMAIN q = {1} /\ q[1] = u
    BY <2>1
  <2>3. Members(q) = {u}
    BY <2>2 DEF Members
  <2> QED BY <1>1, <2>2, <2>3 DEF S, u, q
<1>2. CASE ~ condition
  <2>1. q = <<>>
    BY <1>2 DEF Matter!When
  <2>2. q \in Seq(S) /\ Members(q) = {}
    BY <2>1 DEF Members
  <2> QED BY <1>2, <2>2
<1> QED BY <1>1, <1>2

-----------------------------------------------------------------------------
(* What Matter is told                                                     *)

StatusOf(d, shadow, device) ==
    LET e == Matter!StatusEndpoint(d, device) IN
    {u \in {Update(e, "available", TRUE)} : e # NoEndpoint /\ shadow = Nothing}
    \cup {u \in {Update(e, "stale", device.stale)} :
             e # NoEndpoint /\ (shadow = Nothing \/ shadow.device.stale # device.stale)}

\* A reading that is new or has changed
IsTold(shadow, device, class) ==
    /\ device.readings[class] # Nothing
    /\ shadow = Nothing \/ shadow.device.readings[class] # device.readings[class]

ReadingsOf(d, shadow, device) ==
    {Update(Matter!Resolve(d, class), class, device.readings[class]) :
        class \in {c \in Matter!ClassSet : IsTold(shadow, device, c)}}

DepartureOf(shadow) ==
    {u \in {Update(shadow.endpoint, "available", FALSE)} : shadow.endpoint # NoEndpoint}

LEMMA StatusIs ==
    ASSUME Matter!Bounds, NEW d \in MatterDevices, NEW shadow, NEW device \in Matter!Present
    PROVE  /\ Matter!StatusUpdates(d, shadow, device) \in Seq(UpdateRecords)
           /\ Members(Matter!StatusUpdates(d, shadow, device)) = StatusOf(d, shadow, device)
<1> DEFINE e == Matter!StatusEndpoint(d, device)
           isNew == shadow = Nothing
           changed == isNew \/ shadow.device.stale # device.stale
           p == Matter!When(isNew, e, "available", TRUE)
           q == Matter!When(changed, e, "stale", device.stale)
           S == UpdateRecords
<1>1. CASE e = NoEndpoint
  <2>1. Matter!StatusUpdates(d, shadow, device) = <<>>
    BY <1>1 DEF Matter!StatusUpdates
  <2>2. StatusOf(d, shadow, device) = {}
    BY <1>1 DEF StatusOf
  <2>3. Members(<<>>) = {}
    BY DEF Members
  <2> QED BY <2>1, <2>2, <2>3
<1>2. CASE e # NoEndpoint
  <2>1. Matter!StatusUpdates(d, shadow, device) = p \o q
    BY <1>2 DEF Matter!StatusUpdates
  <2>2. /\ Update(e, "available", TRUE) \in UpdateRecords
        /\ Update(e, "stale", device.stale) \in UpdateRecords
    <3>1. e \in Matter!Endpoints
      BY <1>2, StatusEndpointIs
    <3>2. <<e, "available">> \in Matter!Keys /\ <<e, "stale">> \in Matter!Keys
      BY <3>1, KeyIs
    <3>3. device.stale \in BOOLEAN
      BY DEF Matter!Present
    <3> HIDE DEF e
    <3> QED BY <3>2, <3>3 DEF UpdateRecords, Update
  <2> HIDE DEF e, isNew, changed
  <2>3. /\ p \in Seq(UpdateRecords)
        /\ Members(p) = {u \in {Update(e, "available", TRUE)} : isNew}
    <3> DEFINE yes == TRUE
               r == Matter!When(isNew, e, "available", yes)
    <3>1. Update(e, "available", yes) \in UpdateRecords
      BY <2>2
    <3> HIDE DEF yes
    <3>2. r \in Seq(UpdateRecords) /\ Members(r) = {u \in {Update(e, "available", yes)} : isNew}
      BY <3>1, WhenIs
    <3> QED BY <3>2 DEF yes
  <2>4. /\ q \in Seq(UpdateRecords)
        /\ Members(q) = {u \in {Update(e, "stale", device.stale)} : changed}
    BY <2>2, WhenIs
  <2>5. StatusOf(d, shadow, device) = {u \in {Update(e, "available", TRUE)} : isNew}
                                      \cup {u \in {Update(e, "stale", device.stale)} : changed}
    BY <1>2 DEF StatusOf, e, isNew, changed
  <2>6. p \o q \in Seq(UpdateRecords) /\ Members(p \o q) = Members(p) \cup Members(q)
    <3> HIDE DEF p, q
    <3>1. p \in Seq(S) /\ q \in Seq(S)
      BY <2>3, <2>4
    <3> HIDE DEF S
    <3>2. p \o q \in Seq(S) /\ Members(p \o q) = Members(p) \cup Members(q)
      BY <3>1, ConcatMembers
    <3> QED BY <3>2 DEF S
  <2> HIDE DEF p, q
  <2> QED BY <2>1, <2>3, <2>4, <2>5, <2>6
<1> QED BY <1>1, <1>2

LEMMA ReadingsAre ==
    ASSUME Matter!Bounds, NEW d \in MatterDevices, NEW shadow, NEW device \in Matter!Present
    PROVE  /\ Matter!ReadingUpdates(d, shadow, device) \in Seq(UpdateRecords)
           /\ Members(Matter!ReadingUpdates(d, shadow, device)) = ReadingsOf(d, shadow, device)
<1> DEFINE S == UpdateRecords
           T == Seq(S)
           Of(c) == Matter!When(IsTold(shadow, device, c), Matter!Resolve(d, c), c,
                                device.readings[c])
           Piece(c) == Update(Matter!Resolve(d, c), c, device.readings[c])
           seqs == [i \in DOMAIN Classes |-> Of(Classes[i])]
           C == Matter!ClassSet
<1>1. Matter!ReadingUpdates(d, shadow, device) = FlattenSeq(seqs)
  <2>1. Matter!ReadingUpdates(d, shadow, device) = Matter!FlattenSeq(seqs)
    BY DEF Matter!ReadingUpdates, IsTold
  <2> HIDE DEF seqs
  <2> QED BY <2>1, SameSequences
<1>2. ASSUME NEW c \in C
      PROVE  Of(c) \in T /\ Members(Of(c)) = {u \in {Piece(c)} : IsTold(shadow, device, c)}
  <2>1. IsTold(shadow, device, c) => Piece(c) \in UpdateRecords
    <3> SUFFICES ASSUME IsTold(shadow, device, c) PROVE Piece(c) \in UpdateRecords
      OBVIOUS
    <3>1. device.readings[c] \in Matter!AllValues
      BY ReadingIs DEF IsTold
    <3>2. Matter!Resolve(d, c) \in Matter!Endpoints
      BY ResolveIs
    <3>3. <<Matter!Resolve(d, c), c>> \in Matter!Keys
      BY <3>2, KeyIs
    <3> QED BY <3>1, <3>3 DEF UpdateRecords, Update
  <2> QED BY <2>1, WhenIs
<1>3. Len(Classes) \in Nat /\ DOMAIN Classes = 1 .. Len(Classes)
      /\ (\A i \in DOMAIN Classes : Classes[i] \in C) /\ C = Members(Classes)
  BY ClassesAre
<1> HIDE DEF T, C, Of
<1>4. seqs \in Seq(T)
  BY <1>2, <1>3
<1>5. Members(seqs) = {Of(c) : c \in C}
  BY <1>3 DEF Members
<1> HIDE DEF seqs
<1>6. FlattenSeq(seqs) \in Seq(S)
      /\ Members(FlattenSeq(seqs)) = UNION {Members(q) : q \in Members(seqs)}
  <2>1. seqs \in Seq(Seq(S))
    BY <1>4 DEF T
  <2> HIDE DEF S
  <2> QED BY <2>1, FlattenIs
<1>7. UNION {Members(q) : q \in Members(seqs)} = {Piece(c) : c \in {x \in C : IsTold(shadow, device, x)}}
  <2>1. UNION {Members(q) : q \in Members(seqs)} = UNION {Members(Of(c)) : c \in C}
    BY <1>5
  <2> HIDE DEF Piece
  <2> QED BY <1>2, <2>1
<1> QED BY <1>1, <1>6, <1>7 DEF ReadingsOf, C

LEMMA DepartureIs ==
    ASSUME Matter!Bounds, NEW shadow \in Matter!Shadows
    PROVE  /\ Matter!Departure(shadow) \in Seq(UpdateRecords)
           /\ Members(Matter!Departure(shadow)) = DepartureOf(shadow)
<1> DEFINE e == shadow.endpoint
<1>1. e # NoEndpoint => Update(e, "available", FALSE) \in UpdateRecords
  <2> SUFFICES ASSUME e # NoEndpoint PROVE Update(e, "available", FALSE) \in UpdateRecords
    OBVIOUS
  <2>1. e \in Matter!Endpoints
    BY DEF Matter!Shadows
  <2> HIDE DEF e
  <2>2. <<e, "available">> \in Matter!Keys
    BY <2>1, KeyIs
  <2> QED BY <2>2 DEF UpdateRecords, Update
<1>2. LET q == Matter!When(e # NoEndpoint, e, "available", FALSE)
      IN q \in Seq(UpdateRecords)
         /\ Members(q) = {u \in {Update(e, "available", FALSE)} : e # NoEndpoint}
  <2> DEFINE no == FALSE
             has == e # NoEndpoint
             r == Matter!When(has, e, "available", no)
  <2>1. has => Update(e, "available", no) \in UpdateRecords
    BY <1>1
  <2> HIDE DEF e, no, has
  <2>2. r \in Seq(UpdateRecords) /\ Members(r) = {u \in {Update(e, "available", no)} : has}
    BY <2>1, WhenIs
  <2> QED BY <2>2 DEF no, has
<1> QED BY <1>2 DEF Matter!Departure, DepartureOf

\* One period of the task: what it would publish
MatterUpdates ==
    (UNION {StatusOf(d, shadows[d], here[d]) \cup ReadingsOf(d, shadows[d], here[d]) :
              d \in Matter!Online(here)})
    \cup UNION {DepartureOf(shadows[d]) : d \in Matter!Online(shadows) \ Matter!Online(here)}

\* Both images of the devices, and the endpoint to which a device's departure is told
Images ==
    /\ here \in MatterSnapshots
    /\ shadows \in [MatterDevices -> Matter!Shadows \cup {Nothing}]
    /\ \A d \in Matter!Online(shadows) :
          shadows[d].endpoint = Matter!StatusEndpoint(d, shadows[d].device)

LEMMA OnlineAre ==
    ASSUME Matter!Bounds, Images
    PROVE  /\ IsFiniteSet(Matter!Online(here)) /\ Matter!Online(here) \subseteq MatterDevices
           /\ IsFiniteSet(Matter!Online(shadows)) /\ Matter!Online(shadows) \subseteq MatterDevices
           /\ \A d \in Matter!Online(here) : here[d] \in Matter!Present
           /\ \A d \in Matter!Online(shadows) : shadows[d] \in Matter!Shadows
<1>1. Matter!Online(here) \in SUBSET MatterDevices /\ Matter!Online(shadows) \in SUBSET MatterDevices
  BY DEF Matter!Online
<1>2. IsFiniteSet(Matter!Online(here)) /\ IsFiniteSet(Matter!Online(shadows))
  BY <1>1, BoundsAre, FS_Subset
<1>3. \A d \in Matter!Online(here) : here[d] \in Matter!Present
  BY DEF Images, MatterSnapshots, Matter!Online
<1>4. \A d \in Matter!Online(shadows) : shadows[d] \in Matter!Shadows
  BY DEF Images, Matter!Online
<1> QED BY <1>1, <1>2, <1>3, <1>4

\* A sequence for each of some devices, in any order
OneAfterTheOther(D, of) ==
    LET order == SetToSeq(D) IN FlattenSeq([i \in DOMAIN order |-> of[order[i]]])

LEMMA OneForEach ==
    ASSUME NEW D, IsFiniteSet(D), NEW S, NEW of \in [D -> Seq(S)]
    PROVE  /\ OneAfterTheOther(D, of) \in Seq(S)
           /\ Members(OneAfterTheOther(D, of)) = UNION {Members(of[d]) : d \in D}
<1> DEFINE order == SetToSeq(D)
           seqs == [i \in DOMAIN order |-> of[order[i]]]
           T == Seq(S)
<1>1. order \in Seq(D) /\ Members(order) = D
  BY SetToSeqIs
<1> HIDE DEF order
<1>2. Len(order) \in Nat /\ DOMAIN order = 1 .. Len(order) /\ \A i \in DOMAIN order : order[i] \in D
  BY <1>1, SeqIs
<1>3. \A d \in D : of[d] \in T
  OBVIOUS
<1> HIDE DEF T
<1>4. seqs \in Seq(T)
  BY <1>2, <1>3
<1>5. Members(seqs) = {of[d] : d \in D}
  BY <1>1 DEF Members
<1> HIDE DEF seqs
<1>6. FlattenSeq(seqs) \in Seq(S)
      /\ Members(FlattenSeq(seqs)) = UNION {Members(q) : q \in Members(seqs)}
  BY <1>4, FlattenIs DEF T
<1>7. UNION {Members(q) : q \in Members(seqs)} = UNION {Members(of[d]) : d \in D}
  BY <1>5
<1> QED BY <1>6, <1>7 DEF seqs, order, OneAfterTheOther

LEMMA UpdatesOfSync ==
    ASSUME Matter!Bounds, Images
    PROVE  Matter!Updates \in Seq(UpdateRecords) /\ Members(Matter!Updates) = MatterUpdates
<1> DEFINE S == UpdateRecords
           D == Matter!Online(here)
           G == Matter!Online(shadows) \ Matter!Online(here)
           About(d) == Matter!StatusUpdates(d, shadows[d], here[d])
                       \o Matter!ReadingUpdates(d, shadows[d], here[d])
           about == [d \in D |-> About(d)]
           departure == [d \in G |-> Matter!Departure(shadows[d])]
           dorder == SetToSeq(D)
           gorder == SetToSeq(G)
           p == OneAfterTheOther(D, about)
           q == OneAfterTheOther(G, departure)
           Set(d) == StatusOf(d, shadows[d], here[d]) \cup ReadingsOf(d, shadows[d], here[d])
<1>1. /\ IsFiniteSet(D) /\ D \subseteq MatterDevices /\ \A d \in D : here[d] \in Matter!Present
      /\ IsFiniteSet(G) /\ G \subseteq MatterDevices /\ \A d \in G : shadows[d] \in Matter!Shadows
  BY OnlineAre, FS_Difference
<1>2. Matter!Updates = p \o q
  <2>1. /\ dorder \in Seq(D) /\ gorder \in Seq(G)
    BY <1>1, SetToSeqIs
  <2>2. /\ \A i \in DOMAIN dorder : dorder[i] \in D
        /\ \A i \in DOMAIN gorder : gorder[i] \in G
    <3> HIDE DEF dorder, gorder, D, G
    <3> QED BY <2>1, SeqIs
  <2>3. /\ Matter!SetToSeq(D) = dorder /\ Matter!SetToSeq(G) = gorder
    BY SameSequences
  <2>4. [i \in DOMAIN dorder |-> about[dorder[i]]] = [i \in DOMAIN dorder |-> About(dorder[i])]
    <3> HIDE DEF dorder, D, About
    <3> QED BY <2>2
  <2>5. [i \in DOMAIN gorder |-> departure[gorder[i]]]
           = [i \in DOMAIN gorder |-> Matter!Departure(shadows[gorder[i]])]
    <3> HIDE DEF gorder, G
    <3> QED BY <2>2
  <2>6. Matter!Updates = Matter!FlattenSeq([i \in DOMAIN dorder |-> About(dorder[i])])
                         \o Matter!FlattenSeq([i \in DOMAIN gorder |->
                                                 Matter!Departure(shadows[gorder[i]])])
    BY <2>3 DEF Matter!Updates
  <2>7. /\ p = FlattenSeq([i \in DOMAIN dorder |-> about[dorder[i]]])
        /\ q = FlattenSeq([i \in DOMAIN gorder |-> departure[gorder[i]]])
    <3> HIDE DEF D, G, about, departure
    <3> QED BY DEF OneAfterTheOther
  <2> HIDE DEF dorder, gorder, D, G, About, about, departure, p, q
  <2> QED BY <2>4, <2>5, <2>6, <2>7, SameSequences
<1>3. ASSUME NEW d \in D PROVE About(d) \in Seq(S) /\ Members(About(d)) = Set(d)
  <2>1. d \in MatterDevices /\ here[d] \in Matter!Present
    BY <1>1
  <2> DEFINE s == Matter!StatusUpdates(d, shadows[d], here[d])
             r == Matter!ReadingUpdates(d, shadows[d], here[d])
  <2>2. s \in Seq(S) /\ Members(s) = StatusOf(d, shadows[d], here[d])
    BY <2>1, StatusIs
  <2>3. r \in Seq(S) /\ Members(r) = ReadingsOf(d, shadows[d], here[d])
    BY <2>1, ReadingsAre
  <2> HIDE DEF s, r, S, D
  <2>4. s \o r \in Seq(S) /\ Members(s \o r) = Members(s) \cup Members(r)
    BY <2>2, <2>3, ConcatMembers
  <2> QED BY <2>2, <2>3, <2>4 DEF s, r
<1>4. ASSUME NEW d \in G
      PROVE  /\ Matter!Departure(shadows[d]) \in Seq(S)
             /\ Members(Matter!Departure(shadows[d])) = DepartureOf(shadows[d])
  BY <1>1, DepartureIs
<1> HIDE DEF D, G, About, S, Set
<1>5. /\ about \in [D -> Seq(S)] /\ departure \in [G -> Seq(S)]
  BY <1>3, <1>4
<1>6. /\ \A d \in D : Members(about[d]) = Set(d)
      /\ \A d \in G : Members(departure[d]) = DepartureOf(shadows[d])
  BY <1>3, <1>4
<1> HIDE DEF about, departure
<1>7. p \in Seq(S) /\ Members(p) = UNION {Set(d) : d \in D}
  <2>1. p \in Seq(S) /\ Members(p) = UNION {Members(about[d]) : d \in D}
    BY <1>1, <1>5, OneForEach
  <2> HIDE DEF p
  <2> QED BY <1>6, <2>1
<1>8. q \in Seq(S) /\ Members(q) = UNION {DepartureOf(shadows[d]) : d \in G}
  <2>1. q \in Seq(S) /\ Members(q) = UNION {Members(departure[d]) : d \in G}
    BY <1>1, <1>5, OneForEach
  <2> HIDE DEF q
  <2> QED BY <1>6, <2>1
<1> HIDE DEF p, q
<1>9. p \o q \in Seq(S) /\ Members(p \o q) = Members(p) \cup Members(q)
  BY <1>7, <1>8, ConcatMembers
<1>10. MatterUpdates = (UNION {Set(d) : d \in D}) \cup UNION {DepartureOf(shadows[d]) : d \in G}
  BY DEF MatterUpdates, Set, D, G
<1> QED BY <1>2, <1>7, <1>8, <1>9, <1>10 DEF S

\* A part of a sequence, and what is left without one of its members
LEMMA PartIs ==
    ASSUME NEW S, NEW q \in Seq(S), NEW m \in Nat \ {0}, NEW n \in Int, n <= Len(q)
    PROVE  /\ SubSeq(q, m, n) \in Seq(S)
           /\ Members(SubSeq(q, m, n)) \subseteq Members(q)
<1> DEFINE p == SubSeq(q, m, n)
<1>1. Len(q) \in Nat /\ DOMAIN q = 1 .. Len(q) /\ \A i \in DOMAIN q : q[i] \in S
  BY SeqIs
<1>2. \A i \in m .. n : i \in DOMAIN q
  BY <1>1
<1>3. \A i \in m .. n : q[i] \in S
  BY <1>1, <1>2
<1>4. m \in Int /\ n \in Int
  OBVIOUS
<1>5. /\ p \in Seq(S)
      /\ Len(p) = IF m <= n THEN n - m + 1 ELSE 0
      /\ \A i \in 1 .. n - m + 1 : p[i] = q[m + i - 1]
  BY <1>3, <1>4, SubSeqProperties
<1> HIDE DEF p
<1>6. DOMAIN p = 1 .. Len(p) /\ Len(p) \in Nat
  BY <1>5, SeqIs
<1>7. \A i \in DOMAIN p : i \in 1 .. n - m + 1 /\ m + i - 1 \in m .. n
  BY <1>4, <1>5, <1>6
<1>8. Members(p) \subseteq Members(q)
  BY <1>2, <1>5, <1>7 DEF Members
<1> QED BY <1>5, <1>8 DEF p

LEMMA WithoutIs ==
    ASSUME NEW S, NEW q \in Seq(S), NEW i \in DOMAIN q
    PROVE  /\ Matter!RemoveAt(q, i) \in Seq(S)
           /\ Members(Matter!RemoveAt(q, i)) \subseteq Members(q)
<1> DEFINE len == Len(q)
           a == SubSeq(q, 1, i - 1)
           b == SubSeq(q, i + 1, len)
<1>1. len \in Nat /\ DOMAIN q = 1 .. len
  BY SeqIs
<1>2. i \in Nat /\ 1 <= i /\ i <= len
  BY <1>1
<1>3. a \in Seq(S) /\ Members(a) \subseteq Members(q)
  <2>1. 1 \in Nat \ {0} /\ i - 1 \in Int /\ i - 1 <= Len(q)
    BY <1>1, <1>2
  <2> QED BY <2>1, PartIs
<1>4. b \in Seq(S) /\ Members(b) \subseteq Members(q)
  <2>1. i + 1 \in Nat \ {0} /\ len \in Int /\ len <= Len(q)
    BY <1>1, <1>2
  <2> QED BY <2>1, PartIs
<1>5. Matter!RemoveAt(q, i) = a \o b
  BY DEF Matter!RemoveAt
<1> HIDE DEF a, b, len
<1>6. a \o b \in Seq(S) /\ Members(a \o b) = Members(a) \cup Members(b)
  BY <1>3, <1>4, ConcatMembers
<1> QED BY <1>3, <1>4, <1>5, <1>6

LEMMA LesserIs ==
    ASSUME NEW m \in Nat, NEW n \in Nat
    PROVE  Matter!Min({m, n}) \in {m, n} /\ Matter!Min({m, n}) <= m
<1> DEFINE s == {m, n}
<1>1. \E x \in s : \A y \in s : x <= y
  <2>1. m <= n \/ n <= m
    OBVIOUS
  <2> QED BY <2>1
<1>2. Matter!Min(s) = CHOOSE x \in s : \A y \in s : x <= y
  BY DEF Matter!Min
<1>3. Matter!Min(s) \in s /\ \A y \in s : Matter!Min(s) <= y
  <2> HIDE DEF s
  <2> QED BY <1>1, <1>2
<1> QED BY <1>3

\* What gets through is part of what there is to publish
Fits(q) == SubSeq(q, 1, Matter!Min({Len(q), Matter!UpdateBound}))
Passed(q, refused) ==
    IF refused \in DOMAIN Fits(q) THEN Matter!RemoveAt(Fits(q), refused) ELSE Fits(q)

LEMMA PassedIs ==
    ASSUME Matter!Bounds, NEW S, NEW q \in Seq(S), NEW refused
    PROVE  Passed(q, refused) \in Seq(S) /\ Members(Passed(q, refused)) \subseteq Members(q)
<1>1. Len(q) \in Nat /\ Matter!UpdateBound \in Nat
  BY BoundsAre, SeqIs DEF Matter!UpdateBound
<1> DEFINE n == Matter!Min({Len(q), Matter!UpdateBound})
<1>2. n \in Nat /\ n <= Len(q)
  BY <1>1, LesserIs
<1> HIDE DEF n
<1>3. Fits(q) \in Seq(S) /\ Members(Fits(q)) \subseteq Members(q)
  <2>1. SubSeq(q, 1, n) \in Seq(S) /\ Members(SubSeq(q, 1, n)) \subseteq Members(q)
    <3>1. 1 \in Nat \ {0} /\ n \in Int
      BY <1>2
    <3> QED BY <1>2, <3>1, PartIs
  <2> QED BY <2>1 DEF Fits, n
<1>4. CASE refused \in DOMAIN Fits(q)
  BY <1>3, <1>4, WithoutIs DEF Passed
<1>5. CASE refused \notin DOMAIN Fits(q)
  BY <1>3, <1>5 DEF Passed
<1> QED BY <1>4, <1>5

KeysOfMembers(q) == {u.key : u \in Members(q)}

LEMMA KeysAre ==
    ASSUME NEW q
    PROVE  Matter!KeysOf(q) = KeysOfMembers(q)
  BY DEF Matter!KeysOf, KeysOfMembers, Members

\* Publishing leaves what it says nothing about, and sets what it says
LEMMA PublishSays ==
    ASSUME NEW q \in Seq(UpdateRecords), Matter!Publish(q), NEW k \in Matter!Keys
    PROVE  /\ k \notin Matter!KeysOf(q) => attributes'[k] = attributes[k]
           /\ k \in Matter!KeysOf(q) =>
                 \E u \in Members(q) : u.key = k /\ attributes'[k] = u.value
<1> DEFINE about == {i \in DOMAIN q : q[i].key = k}
           S == UpdateRecords
<1>1. Len(q) \in Nat /\ DOMAIN q = 1 .. Len(q)
  <2>1. q \in Seq(S)
    OBVIOUS
  <2> HIDE DEF S
  <2> QED BY <2>1, SeqIs
<1>2. attributes'[k] = IF about = {} THEN attributes[k] ELSE q[Matter!Max(about)].value
  BY DEF Matter!Publish
<1>3. k \in Matter!KeysOf(q) <=> about # {}
  BY DEF Matter!KeysOf
<1>4. about \in SUBSET Nat /\ IsFiniteSet(about)
  <2>1. about \subseteq 1 .. Len(q) /\ about \subseteq Nat
    BY <1>1
  <2>2. IsFiniteSet(1 .. Len(q))
    <3>1. 1 \in Int /\ Len(q) \in Int
      BY <1>1
    <3> QED BY <3>1, FS_Interval
  <2> HIDE DEF about
  <2> QED BY <2>1, <2>2, FS_Subset
<1>5. ASSUME about # {}
      PROVE  \E u \in Members(q) : u.key = k /\ attributes'[k] = u.value
  <2>1. Matter!Max(about) \in about
    <3> HIDE DEF about
    <3>1. Max(about) \in about
      BY <1>4, <1>5, LastExists
    <3> QED BY <3>1, SameSequences
  <2> DEFINE i == Matter!Max(about)
  <2>2. i \in DOMAIN q /\ q[i].key = k /\ attributes'[k] = q[i].value
    BY <1>2, <1>5, <2>1
  <2> HIDE DEF i
  <2>3. q[i] \in Members(q)
    BY <2>2 DEF Members
  <2> QED BY <2>2, <2>3
<1> QED BY <1>2, <1>3, <1>5

-----------------------------------------------------------------------------
(* The invariant of the Matter bridge                                      *)

\* What a period of the task does when some of the updates, q, get through
Syncs(q) ==
    /\ Matter!Publish(q)
    /\ untold' = (untold \ Matter!KeysOf(q))
                 \cup (Matter!KeysOf(Matter!Updates) \ Matter!KeysOf(q))
    /\ shadows' = [d \in MatterDevices |-> Matter!Shadow(d)]
    /\ announced' \subseteq Matter!Online(here)
    /\ UNCHANGED <<here, moves>>

LEMMA SyncsIs ==
    ASSUME Matter!Bounds, Images, NEW refused, Matter!Sync(Matter!Updates, refused)
    PROVE  \E q \in Seq(UpdateRecords) : Syncs(q) /\ Members(q) \subseteq MatterUpdates
<1> DEFINE u == Matter!Updates
           q == Passed(u, refused)
           S == UpdateRecords
<1>1. u \in Seq(S) /\ Members(u) = MatterUpdates
  BY UpdatesOfSync
<1>2. q \in Seq(S) /\ Members(q) \subseteq MatterUpdates
  <2> HIDE DEF u, S
  <2>1. q \in Seq(S) /\ Members(q) \subseteq Members(u)
    BY <1>1, PassedIs
  <2> QED BY <1>1, <2>1
<1>3. Syncs(q)
  BY DEF Matter!Sync, Syncs, Passed, Fits
<1> HIDE DEF q
<1> QED BY <1>2, <1>3

HasNext(endpoint, attribute, value) ==
    <<endpoint, attribute>> \in untold' \/ attributes'[<<endpoint, attribute>>] = value

\* What is not told stays; what is told comes through, or is lost
LEMMA UntoldStays ==
    ASSUME Matter!Bounds, Images, NEW q \in Seq(UpdateRecords), Syncs(q),
           Members(q) \subseteq MatterUpdates,
           NEW e, NEW a, <<e, a>> \in Matter!Keys, NEW v,
           Matter!Has(e, a, v),
           \A u \in MatterUpdates : u.key # <<e, a>>
    PROVE  HasNext(e, a, v)
<1> DEFINE k == <<e, a>>
<1>1. k \notin Matter!KeysOf(q)
  <2>1. \A u \in Members(q) : u.key # k
    OBVIOUS
  <2> QED BY <2>1, KeysAre DEF KeysOfMembers
<1>2. attributes'[k] = attributes[k]
  <2> HIDE DEF k
  <2> QED BY <1>1, PublishSays DEF Syncs, k
<1>3. k \in untold => k \in untold'
  BY <1>1 DEF Syncs
<1> QED BY <1>2, <1>3 DEF Matter!Has, HasNext

LEMMA ToldComesThrough ==
    ASSUME Matter!Bounds, Images, NEW q \in Seq(UpdateRecords), Syncs(q),
           Members(q) \subseteq MatterUpdates,
           NEW e, NEW a, <<e, a>> \in Matter!Keys, NEW v,
           \A u \in MatterUpdates : u.key = <<e, a>> => u.value = v,
           NEW u \in MatterUpdates, u.key = <<e, a>>
    PROVE  HasNext(e, a, v)
<1> DEFINE k == <<e, a>>
<1>1. CASE k \in Matter!KeysOf(q)
  <2>1. PICK w \in Members(q) : w.key = k /\ attributes'[k] = w.value
    <3> HIDE DEF k
    <3> QED BY <1>1, PublishSays DEF Syncs, k
  <2>2. attributes'[k] = v
    BY <2>1
  <2> QED BY <2>2 DEF HasNext
<1>2. CASE k \notin Matter!KeysOf(q)
  <2>1. k \in Matter!KeysOf(Matter!Updates)
    BY UpdatesOfSync, KeysAre DEF KeysOfMembers
  <2>2. k \in untold'
    BY <1>2, <2>1 DEF Syncs
  <2> QED BY <2>2 DEF HasNext
<1> QED BY <1>1, <1>2

\* Either way: an update of a key whose updates all say v
LEMMA SaidOrStays ==
    ASSUME Matter!Bounds, Images, NEW q \in Seq(UpdateRecords), Syncs(q),
           Members(q) \subseteq MatterUpdates,
           NEW e, NEW a, <<e, a>> \in Matter!Keys, NEW v,
           \A u \in MatterUpdates : u.key = <<e, a>> => u.value = v,
           Matter!Has(e, a, v) \/ \E u \in MatterUpdates : u.key = <<e, a>>
    PROVE  HasNext(e, a, v)
<1>1. CASE \A u \in MatterUpdates : u.key # <<e, a>>
  BY <1>1, UntoldStays
<1>2. CASE \E u \in MatterUpdates : u.key = <<e, a>>
  <2>1. PICK u \in MatterUpdates : u.key = <<e, a>>
    BY <1>2
  <2> QED BY <2>1, ToldComesThrough
<1> QED BY <1>1, <1>2

\* The updates at the endpoints of a device that shares none are its own
LEMMA OwnUpdates ==
    ASSUME Matter!Bounds, Images, NEW d \in MatterDevices, Matter!Alone(d),
           NEW u \in MatterUpdates, NEW e \in Matter!EndpointsOf(d), NEW a, u.key = <<e, a>>
    PROVE  \/ /\ here[d] # Nothing
              /\ u \in StatusOf(d, shadows[d], here[d]) \cup ReadingsOf(d, shadows[d], here[d])
           \/ here[d] = Nothing /\ shadows[d] # Nothing /\ u \in DepartureOf(shadows[d])
<1>1. ASSUME NEW o \in MatterDevices, e \in Matter!EndpointsOf(o)
      PROVE  o = d
  BY <1>1 DEF Matter!Alone
<1>2. CASE \E o \in Matter!Online(here) :
              u \in StatusOf(o, shadows[o], here[o]) \cup ReadingsOf(o, shadows[o], here[o])
  <2>1. PICK o \in Matter!Online(here) :
              u \in StatusOf(o, shadows[o], here[o]) \cup ReadingsOf(o, shadows[o], here[o])
    BY <1>2
  <2>2. o \in MatterDevices /\ here[o] # Nothing
    BY DEF Matter!Online
  <2>3. CASE u \in StatusOf(o, shadows[o], here[o])
    <3>1. e = Matter!StatusEndpoint(o, here[o]) /\ e # NoEndpoint
      BY <2>3 DEF StatusOf, Update
    <3>2. e \in Matter!EndpointsOf(o)
      BY <2>2, <3>1, StatusEndpointIs
    <3>3. o = d
      BY <1>1, <2>2, <3>2
    <3> QED BY <2>1, <2>2, <3>3
  <2>4. CASE u \in ReadingsOf(o, shadows[o], here[o])
    <3>1. PICK c \in Matter!ClassSet : u.key = <<Matter!Resolve(o, c), c>>
      BY <2>4 DEF ReadingsOf, Update
    <3>2. e = Matter!Resolve(o, c)
      BY <3>1
    <3>3. e \in Matter!EndpointsOf(o)
      BY <2>2, <3>2, ResolveIs
    <3>4. o = d
      BY <1>1, <2>2, <3>3
    <3> QED BY <2>1, <2>2, <3>4
  <2> QED BY <2>1, <2>3, <2>4
<1>3. CASE \E o \in Matter!Online(shadows) \ Matter!Online(here) : u \in DepartureOf(shadows[o])
  <2>1. PICK o \in Matter!Online(shadows) \ Matter!Online(here) : u \in DepartureOf(shadows[o])
    BY <1>3
  <2>2. o \in MatterDevices /\ here[o] = Nothing /\ shadows[o] # Nothing
    BY DEF Matter!Online
  <2>3. e = shadows[o].endpoint /\ e # NoEndpoint
    BY <2>1 DEF DepartureOf, Update
  <2>4. shadows[o].endpoint = Matter!StatusEndpoint(o, shadows[o].device)
    BY <2>1 DEF Images
  <2>5. e \in Matter!EndpointsOf(o)
    BY <2>2, <2>3, <2>4, StatusEndpointIs
  <2>6. o = d
    BY <1>1, <2>2, <2>5
  <2> QED BY <2>1, <2>2, <2>6
<1> QED BY <1>2, <1>3 DEF MatterUpdates

\* What Matter has of a device that the bridge takes for published
LEMMA ShadowIsTold ==
    ASSUME Matter!Bounds, Images, Matter!ShadowsAreTold, NEW d \in MatterDevices, Matter!Alone(d)
    PROVE  /\ shadows[d] # Nothing =>
                 /\ shadows[d].device \in Matter!Present
                 /\ \A class \in Matter!ClassSet :
                       shadows[d].device.readings[class] # Nothing =>
                          Matter!Has(Matter!Resolve(d, class), class,
                                     shadows[d].device.readings[class])
                 /\ Matter!IsMapped(d) =>
                       /\ Matter!Has(Map[d], "available", TRUE)
                       /\ Matter!Has(Map[d], "stale", shadows[d].device.stale)
           /\ shadows[d] = Nothing /\ Matter!IsMapped(d) =>
                 \/ Matter!Has(Map[d], "available", FALSE)
                 \/ Matter!Has(Map[d], "available", Nothing)
<1> DEFINE image == [o \in MatterDevices |->
                       IF shadows[o] = Nothing THEN Nothing ELSE shadows[o].device]
<1>1. Matter!Follows(d, image)
  BY DEF Matter!ShadowsAreTold
<1>2. image[d] = IF shadows[d] = Nothing THEN Nothing ELSE shadows[d].device
  OBVIOUS
<1> HIDE DEF image
<1>3. CASE shadows[d] = Nothing
  BY <1>1, <1>2, <1>3 DEF Matter!Follows
<1>4. CASE shadows[d] # Nothing
  <2>1. shadows[d].device \in Matter!Present
    <3>1. shadows[d] \in Matter!Shadows
      BY <1>4 DEF Images
    <3> QED BY <3>1 DEF Matter!Shadows
  <2>2. image[d] = shadows[d].device /\ image[d] # Nothing
    BY <1>2, <1>4, <2>1, BoundsAre
  <2> QED BY <1>1, <1>4, <2>1, <2>2 DEF Matter!Follows
<1> QED BY <1>3, <1>4

ReadingsAreTold(d) ==
    \A class \in Matter!ClassSet :
        here[d].readings[class] # Nothing =>
            HasNext(Matter!Resolve(d, class), class, here[d].readings[class])

LEMMA ReadingsStayTold ==
    ASSUME Matter!Bounds, Images, Matter!ShadowsAreTold, NEW q \in Seq(UpdateRecords), Syncs(q),
           Members(q) \subseteq MatterUpdates, NEW d \in MatterDevices, Matter!Alone(d),
           here[d] # Nothing
    PROVE  ReadingsAreTold(d)
<1> SUFFICES ASSUME NEW class \in Matter!ClassSet, here[d].readings[class] # Nothing
             PROVE  HasNext(Matter!Resolve(d, class), class, here[d].readings[class])
  BY DEF ReadingsAreTold
<1> DEFINE e == Matter!Resolve(d, class)
           v == here[d].readings[class]
<1>1. e \in Matter!EndpointsOf(d) /\ <<e, class>> \in Matter!Keys
  BY ResolveIs, KeyIs
<1>2. class # "available" /\ class # "stale"
  BY BoundsAre
<1>3. ASSUME NEW u \in MatterUpdates, u.key = <<e, class>>
      PROVE  u.value = v
  <2> HIDE DEF e
  <2>1. \/ u \in StatusOf(d, shadows[d], here[d])
        \/ u \in ReadingsOf(d, shadows[d], here[d])
        \/ u \in DepartureOf(shadows[d])
    BY <1>1, <1>3, OwnUpdates
  <2>2. u \notin StatusOf(d, shadows[d], here[d]) /\ u \notin DepartureOf(shadows[d])
    BY <1>2, <1>3 DEF StatusOf, DepartureOf, Update
  <2>3. PICK c \in Matter!ClassSet : u = Update(Matter!Resolve(d, c), c, here[d].readings[c])
    BY <2>1, <2>2 DEF ReadingsOf
  <2>4. c = class
    BY <1>3, <2>3 DEF Update
  <2> QED BY <2>3, <2>4 DEF Update
<1>4. Matter!Has(e, class, v) \/ \E u \in MatterUpdates : u.key = <<e, class>>
  <2>1. CASE IsTold(shadows[d], here[d], class)
    <3> DEFINE u == Update(e, class, v)
    <3>1. u \in ReadingsOf(d, shadows[d], here[d])
      BY <2>1 DEF ReadingsOf
    <3>2. u \in MatterUpdates
      BY <3>1 DEF MatterUpdates, Matter!Online
    <3>3. u.key = <<e, class>>
      BY DEF Update
    <3> HIDE DEF e, v, u
    <3> QED BY <3>2, <3>3
  <2>2. CASE ~ IsTold(shadows[d], here[d], class)
    <3>1. shadows[d] # Nothing /\ shadows[d].device.readings[class] = v
      BY <2>2 DEF IsTold
    <3>2. Matter!Has(e, class, v)
      BY <3>1, ShadowIsTold
    <3> HIDE DEF e, v
    <3> QED BY <3>2
  <2> QED BY <2>1, <2>2
<1> HIDE DEF e, v
<1>5. HasNext(e, class, v)
  BY <1>1, <1>3, <1>4, SaidOrStays
<1> QED BY <1>5 DEF e, v

LEMMA StatusStaysTold ==
    ASSUME Matter!Bounds, Images, Matter!ShadowsAreTold, NEW q \in Seq(UpdateRecords), Syncs(q),
           Members(q) \subseteq MatterUpdates, NEW d \in MatterDevices, Matter!Alone(d),
           here[d] # Nothing, Matter!IsMapped(d)
    PROVE  /\ HasNext(Map[d], "available", TRUE)
           /\ HasNext(Map[d], "stale", here[d].stale)
<1> DEFINE e == Matter!StatusEndpoint(d, here[d])
           yes == TRUE
           stale == here[d].stale
<1>1. e = Map[d] /\ e # NoEndpoint /\ e \in Matter!Endpoints /\ e \in Matter!EndpointsOf(d)
  BY StatusEndpointIs
<1>2. <<e, "available">> \in Matter!Keys /\ <<e, "stale">> \in Matter!Keys
  BY <1>1, KeyIs
<1>3. "available" \notin Matter!ClassSet /\ "stale" \notin Matter!ClassSet
  BY BoundsAre
<1>4. ASSUME NEW a \in {"available", "stale"}, NEW u \in MatterUpdates, u.key = <<e, a>>
      PROVE  u \in StatusOf(d, shadows[d], here[d])
  <2> HIDE DEF e
  <2>1. \/ u \in StatusOf(d, shadows[d], here[d])
        \/ u \in ReadingsOf(d, shadows[d], here[d])
    BY <1>1, <1>4, OwnUpdates
  <2>2. ASSUME u \in ReadingsOf(d, shadows[d], here[d]) PROVE FALSE
    <3>1. PICK c \in Matter!ClassSet : u.key = <<Matter!Resolve(d, c), c>>
      BY <2>2 DEF ReadingsOf, Update
    <3>2. c = a
      BY <1>4, <3>1
    <3> QED BY <1>3, <3>2
  <2> QED BY <2>1, <2>2
<1>5. ASSUME NEW u \in MatterUpdates, u.key = <<e, "available">> PROVE u.value = yes
  <2>1. u \in StatusOf(d, shadows[d], here[d])
    BY <1>4, <1>5
  <2> QED BY <1>5, <2>1 DEF StatusOf, Update
<1>6. ASSUME NEW u \in MatterUpdates, u.key = <<e, "stale">> PROVE u.value = stale
  <2>1. u \in StatusOf(d, shadows[d], here[d])
    BY <1>4, <1>6
  <2> QED BY <1>6, <2>1 DEF StatusOf, Update
<1>7. \A u \in StatusOf(d, shadows[d], here[d]) : u \in MatterUpdates
  BY DEF MatterUpdates, Matter!Online
<1>8. Matter!Has(e, "available", yes) \/ \E u \in MatterUpdates : u.key = <<e, "available">>
  <2>1. CASE shadows[d] = Nothing
    <3> DEFINE u == Update(e, "available", TRUE)
    <3>1. u \in StatusOf(d, shadows[d], here[d])
      BY <1>1, <2>1 DEF StatusOf
    <3>2. u.key = <<e, "available">>
      BY DEF Update
    <3> HIDE DEF e, u
    <3> QED BY <1>7, <3>1, <3>2
  <2>2. CASE shadows[d] # Nothing
    BY <1>1, <2>2, ShadowIsTold
  <2> QED BY <2>1, <2>2
<1>9. Matter!Has(e, "stale", stale) \/ \E u \in MatterUpdates : u.key = <<e, "stale">>
  <2>1. CASE shadows[d] = Nothing \/ shadows[d].device.stale # here[d].stale
    <3> DEFINE u == Update(e, "stale", here[d].stale)
    <3>1. u \in StatusOf(d, shadows[d], here[d])
      BY <1>1, <2>1 DEF StatusOf
    <3>2. u.key = <<e, "stale">>
      BY DEF Update
    <3> HIDE DEF e, u
    <3> QED BY <1>7, <3>1, <3>2
  <2>2. CASE shadows[d] # Nothing /\ shadows[d].device.stale = here[d].stale
    BY <1>1, <2>2, ShadowIsTold
  <2> QED BY <2>1, <2>2
<1> HIDE DEF e, yes, stale
<1>10. HasNext(e, "available", yes)
  BY <1>2, <1>5, <1>8, SaidOrStays
<1>11. HasNext(e, "stale", stale)
  BY <1>2, <1>6, <1>9, SaidOrStays
<1> QED BY <1>1, <1>10, <1>11 DEF yes, stale

LEMMA DepartureStaysTold ==
    ASSUME Matter!Bounds, Images, Matter!ShadowsAreTold, NEW q \in Seq(UpdateRecords), Syncs(q),
           Members(q) \subseteq MatterUpdates, NEW d \in MatterDevices, Matter!Alone(d),
           here[d] = Nothing, Matter!IsMapped(d)
    PROVE  \/ HasNext(Map[d], "available", FALSE)
           \/ HasNext(Map[d], "available", Nothing)
<1> DEFINE e == Map[d]
           no == FALSE
<1>1. e # NoEndpoint /\ e \in Matter!Endpoints /\ e \in Matter!EndpointsOf(d)
  BY StatusEndpointIs
<1>2. <<e, "available">> \in Matter!Keys
  BY <1>1, KeyIs
<1>3. ASSUME NEW u \in MatterUpdates, u.key = <<e, "available">>
      PROVE  shadows[d] # Nothing /\ u \in DepartureOf(shadows[d])
  <2> HIDE DEF e
  <2> QED BY <1>1, <1>3, OwnUpdates
<1>4. CASE shadows[d] = Nothing
  <2>1. \A u \in MatterUpdates : u.key # <<e, "available">>
    BY <1>3, <1>4
  <2>2. Matter!Has(e, "available", no) \/ Matter!Has(e, "available", Nothing)
    BY <1>4, ShadowIsTold
  <2> HIDE DEF e, no
  <2>3. HasNext(e, "available", no) \/ HasNext(e, "available", Nothing)
    BY <1>2, <2>1, <2>2, UntoldStays
  <2> QED BY <2>3 DEF e, no
<1>5. CASE shadows[d] # Nothing
  <2> DEFINE u == Update(e, "available", FALSE)
  <2>1. shadows[d].endpoint = e /\ d \in Matter!Online(shadows)
    <3>1. d \in Matter!Online(shadows)
      BY <1>5 DEF Matter!Online
    <3> QED BY <3>1, StatusEndpointIs DEF Images
  <2>2. u \in DepartureOf(shadows[d])
    BY <1>1, <2>1 DEF DepartureOf
  <2>3. d \notin Matter!Online(here)
    BY DEF Matter!Online
  <2>4. u \in MatterUpdates /\ u.key = <<e, "available">>
    BY <2>1, <2>2, <2>3 DEF MatterUpdates, Update
  <2>5. ASSUME NEW w \in MatterUpdates, w.key = <<e, "available">> PROVE w.value = no
    <3>1. w \in DepartureOf(shadows[d])
      BY <1>3, <2>5
    <3> QED BY <3>1 DEF DepartureOf, Update
  <2> HIDE DEF e, no, u
  <2>6. HasNext(e, "available", no)
    BY <1>2, <2>4, <2>5, ToldComesThrough
  <2> QED BY <2>6 DEF e, no
<1> QED BY <1>4, <1>5

MatterTypes ==
    /\ Cardinality(Matter!Online(here)) <= Capacity
    /\ Cardinality(Matter!Online(shadows)) <= Capacity
    /\ attributes \in [Matter!Keys -> (Matter!AllValues \cup BOOLEAN) \cup {Nothing}]
    /\ moves \in 0 .. Moves /\ refusals \in 0 .. Refusals
    /\ untold \subseteq Matter!Keys /\ announced \subseteq Matter!Online(shadows)

MatterInv == Images /\ MatterTypes /\ Matter!ShadowsAreTold

LEMMA MatterInitially == Matter!Bounds /\ Matter!Init => MatterInv
<1> SUFFICES ASSUME Matter!Bounds, Matter!Init PROVE MatterInv
  OBVIOUS
<1>1. /\ here \in AtStart /\ shadows = [d \in MatterDevices |-> Nothing]
      /\ attributes = [key \in Matter!Keys |-> Nothing]
      /\ moves = Moves /\ refusals = Refusals /\ untold = {} /\ announced = {}
  BY DEF Matter!Init
<1>2. Matter!Online(shadows) = {}
  BY <1>1 DEF Matter!Online
<1>3. Images
  BY <1>1, <1>2, BoundsAre DEF Images
<1>4. MatterTypes
  <2>1. Cardinality(Matter!Online(here)) <= Capacity
    BY <1>1, BoundsAre DEF Matter!Online
  <2>2. Cardinality(Matter!Online(shadows)) <= Capacity
    <3>1. Cardinality({}) = 0
      BY FS_EmptySet
    <3> QED BY <1>2, <3>1, BoundsAre
  <2> QED BY <1>1, <2>1, <2>2, BoundsAre DEF MatterTypes
<1>5. Matter!ShadowsAreTold
  <2> DEFINE image == [o \in MatterDevices |->
                         IF shadows[o] = Nothing THEN Nothing ELSE shadows[o].device]
  <2> SUFFICES ASSUME NEW d \in MatterDevices PROVE Matter!Follows(d, image)
    BY DEF Matter!ShadowsAreTold
  <2>1. image[d] = Nothing
    BY <1>1
  <2>2. ASSUME Matter!IsMapped(d) PROVE Matter!Has(Map[d], "available", Nothing)
    <3>1. Map[d] \in Matter!Endpoints
      BY <2>2, StatusEndpointIs
    <3>2. <<Map[d], "available">> \in Matter!Keys
      BY <3>1, KeyIs
    <3> QED BY <1>1, <3>2 DEF Matter!Has
  <2> HIDE DEF image
  <2> QED BY <2>1, <2>2 DEF Matter!Follows
<1> QED BY <1>3, <1>4, <1>5 DEF MatterInv

LEMMA ShadowAfter ==
    ASSUME Matter!Bounds, Images, NEW q \in Seq(UpdateRecords), Syncs(q)
    PROVE  /\ \A d \in MatterDevices :
                 /\ here[d] = Nothing => shadows'[d] = Nothing
                 /\ here[d] # Nothing =>
                       /\ shadows'[d] # Nothing /\ shadows'[d] \in Matter!Shadows
                       /\ shadows'[d].device = here[d] /\ here[d] \in Matter!Present
                       /\ shadows'[d].endpoint = Matter!StatusEndpoint(d, here[d])
           /\ DOMAIN shadows' = MatterDevices
           /\ shadows' = [d \in MatterDevices |-> shadows'[d]]
<1>1. shadows' = [d \in MatterDevices |-> Matter!Shadow(d)]
  BY DEF Syncs
<1>2. ASSUME NEW d \in MatterDevices, here[d] # Nothing
      PROVE  /\ shadows'[d] # Nothing /\ shadows'[d] \in Matter!Shadows
             /\ shadows'[d].device = here[d] /\ here[d] \in Matter!Present
             /\ shadows'[d].endpoint = Matter!StatusEndpoint(d, here[d])
  <2> DEFINE e == Matter!StatusEndpoint(d, here[d])
  <2>1. here[d] \in Matter!Present
    BY <1>2 DEF Images, MatterSnapshots
  <2>2. e \in Matter!Endpoints \cup {NoEndpoint}
    BY StatusEndpointIs
  <2>3. shadows'[d] = [device |-> here[d], endpoint |-> e]
    BY <1>1, <1>2 DEF Matter!Shadow
  <2> HIDE DEF e
  <2>4. shadows'[d] \in Matter!Shadows
    BY <2>1, <2>2, <2>3 DEF Matter!Shadows
  <2>5. shadows'[d] # Nothing
    BY <2>4, BoundsAre
  <2> QED BY <2>1, <2>3, <2>4, <2>5 DEF e
<1>3. ASSUME NEW d \in MatterDevices, here[d] = Nothing PROVE shadows'[d] = Nothing
  BY <1>1, <1>3 DEF Matter!Shadow
<1>4. DOMAIN shadows' = MatterDevices /\ shadows' = [d \in MatterDevices |-> shadows'[d]]
  BY <1>1
<1> QED BY <1>2, <1>3, <1>4

LEMMA SyncKeepsImages ==
    ASSUME Matter!Bounds, Images, NEW q \in Seq(UpdateRecords), Syncs(q)
    PROVE  Images' /\ Matter!Online(shadows)' = Matter!Online(here)
<1>1. here' = here
  BY DEF Syncs
<1>2. \A d \in MatterDevices : shadows'[d] \in Matter!Shadows \cup {Nothing}
  BY ShadowAfter
<1>3. shadows' \in [MatterDevices -> Matter!Shadows \cup {Nothing}]
  BY <1>2, ShadowAfter
<1>4. Matter!Online(shadows)' = Matter!Online(here)
  BY ShadowAfter DEF Matter!Online
<1>5. \A d \in Matter!Online(shadows)' :
          shadows'[d].endpoint = Matter!StatusEndpoint(d, shadows'[d].device)
  BY <1>4, ShadowAfter DEF Matter!Online
<1> QED BY <1>1, <1>3, <1>4, <1>5 DEF Images

LEMMA SyncKeepsTold ==
    ASSUME Matter!Bounds, MatterInv, NEW q \in Seq(UpdateRecords), Syncs(q),
           Members(q) \subseteq MatterUpdates
    PROVE  Matter!ShadowsAreTold'
<1> DEFINE image == [o \in MatterDevices |->
                       IF shadows[o] = Nothing THEN Nothing ELSE shadows[o].device]
<1> SUFFICES ASSUME NEW d \in MatterDevices, Matter!Alone(d) PROVE Matter!Follows(d, image)'
  BY DEF Matter!ShadowsAreTold, Matter!Alone
<1>0. Images /\ Matter!ShadowsAreTold
  BY DEF MatterInv
<1>1. image'[d] = here[d]
  BY <1>0, ShadowAfter
<1>2. \A e, a, v : HasNext(e, a, v) <=> (<<e, a>> \in untold' \/ attributes'[<<e, a>>] = v)
  BY DEF HasNext
<1> HIDE DEF image
<1>3. CASE here[d] # Nothing
  <2>1. ReadingsAreTold(d)
    BY <1>0, <1>3, ReadingsStayTold
  <2>2. Matter!IsMapped(d) => /\ HasNext(Map[d], "available", TRUE)
                              /\ HasNext(Map[d], "stale", here[d].stale)
    BY <1>0, <1>3, StatusStaysTold
  <2> QED BY <1>1, <1>3, <2>1, <2>2
          DEF Matter!Follows, Matter!Has, HasNext, ReadingsAreTold
<1>4. CASE here[d] = Nothing
  <2>1. Matter!IsMapped(d) => \/ HasNext(Map[d], "available", FALSE)
                              \/ HasNext(Map[d], "available", Nothing)
    BY <1>0, <1>4, DepartureStaysTold
  <2> QED BY <1>1, <1>4, <2>1 DEF Matter!Follows, Matter!Has, HasNext
<1> QED BY <1>3, <1>4

LEMMA SyncKeepsTypes ==
    ASSUME Matter!Bounds, MatterInv, NEW q \in Seq(UpdateRecords), Syncs(q),
           refusals' \in 0 .. Refusals
    PROVE  MatterTypes'
<1> DEFINE V == (Matter!AllValues \cup BOOLEAN) \cup {Nothing}
           S == UpdateRecords
<1>0. Images /\ MatterTypes
  BY DEF MatterInv
<1>1. Matter!Online(shadows)' = Matter!Online(here) /\ Matter!Online(here)' = Matter!Online(here)
  BY <1>0, SyncKeepsImages DEF Syncs, Matter!Online
<1>2. \A k \in Matter!Keys : attributes'[k] \in V
  <2> SUFFICES ASSUME NEW k \in Matter!Keys PROVE attributes'[k] \in V
    OBVIOUS
  <2>1. CASE k \notin Matter!KeysOf(q)
    <3>1. attributes'[k] = attributes[k]
      BY <2>1, PublishSays DEF Syncs
    <3> QED BY <1>0, <3>1 DEF MatterTypes
  <2>2. CASE k \in Matter!KeysOf(q)
    <3>1. PICK u \in Members(q) : attributes'[k] = u.value
      BY <2>2, PublishSays DEF Syncs
    <3>2. u \in S
      <4>1. q \in Seq(S)
        OBVIOUS
      <4> HIDE DEF S
      <4> QED BY <4>1, SeqIs
    <3>3. u.value \in Matter!AllValues \cup BOOLEAN
      BY <3>2 DEF UpdateRecords
    <3> QED BY <3>1, <3>3
  <2> QED BY <2>1, <2>2
<1>3. attributes' \in [Matter!Keys -> V]
  <2>1. \E f : attributes' = [k \in Matter!Keys |-> f[k]]
    <3>1. attributes' = [k \in Matter!Keys |-> attributes'[k]]
      BY DEF Syncs, Matter!Publish
    <3> QED BY <3>1
  <2> HIDE DEF V
  <2> QED BY <1>2, <2>1
<1>4. untold' \subseteq Matter!Keys
  <2>1. Matter!KeysOf(Matter!Updates) \subseteq Matter!Keys
    <3>1. Matter!Updates \in Seq(S)
      BY <1>0, UpdatesOfSync
    <3>2. \A u \in Members(Matter!Updates) : u \in S
      <4> HIDE DEF S
      <4> QED BY <3>1, SeqIs
    <3>3. \A u \in S : u.key \in Matter!Keys
      BY DEF UpdateRecords
    <3> HIDE DEF S
    <3> QED BY <3>2, <3>3, KeysAre DEF KeysOfMembers
  <2>2. untold \subseteq Matter!Keys
    BY <1>0 DEF MatterTypes
  <2> QED BY <2>1, <2>2 DEF Syncs
<1>5. announced' \subseteq Matter!Online(shadows)' /\ moves' \in 0 .. Moves
  BY <1>0, <1>1 DEF Syncs, MatterTypes
<1>6. Cardinality(Matter!Online(here)) <= Capacity
  BY <1>0 DEF MatterTypes
<1> QED BY <1>1, <1>3, <1>4, <1>5, <1>6 DEF MatterTypes

LEMMA SyncKeepsInv ==
    ASSUME Matter!Bounds, MatterInv, NEW refused, Matter!Sync(Matter!Updates, refused),
           refusals' \in 0 .. Refusals
    PROVE  MatterInv'
<1>0. Images
  BY DEF MatterInv
<1>1. PICK q \in Seq(UpdateRecords) : Syncs(q) /\ Members(q) \subseteq MatterUpdates
  BY <1>0, SyncsIs
<1>2. Images'
  BY <1>0, <1>1, SyncKeepsImages
<1>3. MatterTypes'
  BY <1>1, SyncKeepsTypes
<1>4. Matter!ShadowsAreTold'
  BY <1>1, SyncKeepsTold
<1> QED BY <1>2, <1>3, <1>4 DEF MatterInv

LEMMA ChangeKeepsInv ==
    ASSUME Matter!Bounds, MatterInv, Matter!DevicesChange
    PROVE  MatterInv'
<1>0. Images /\ MatterTypes /\ Matter!ShadowsAreTold
  BY DEF MatterInv
<1>1. /\ moves > 0 /\ moves' = moves - 1
      /\ Matter!Cardinality(Matter!Online(here')) <= Capacity
      /\ UNCHANGED <<shadows, attributes, refusals, untold, announced>>
  BY DEF Matter!DevicesChange
<1>2. here' \in MatterSnapshots
  <2>1. PICK d \in MatterDevices, device \in Matter!Present \cup {Nothing} :
               here' = [here EXCEPT ![d] = device]
    BY DEF Matter!DevicesChange
  <2> DEFINE V == Matter!Present \cup {Nothing}
  <2>2. here \in [MatterDevices -> V] /\ device \in V
    BY <1>0 DEF Images, MatterSnapshots
  <2> HIDE DEF V
  <2>3. here' \in [MatterDevices -> V]
    BY <2>1, <2>2
  <2> QED BY <2>3 DEF MatterSnapshots, V
<1>3. Matter!Online(shadows)' = Matter!Online(shadows)
  BY <1>1 DEF Matter!Online
<1>4. Images'
  BY <1>0, <1>1, <1>2, <1>3 DEF Images
<1>5. MatterTypes'
  <2>1. Cardinality(Matter!Online(here)') <= Capacity
    <3>1. Matter!Online(here') = Matter!Online(here)'
      BY DEF Matter!Online
    <3> QED BY <1>1, <3>1, SameSets
  <2>2. moves' \in 0 .. Moves
    BY <1>0, <1>1, BoundsAre DEF MatterTypes
  <2> QED BY <1>0, <1>1, <1>3, <2>1, <2>2 DEF MatterTypes
<1>6. Matter!ShadowsAreTold'
  BY <1>0, <1>1 DEF Matter!ShadowsAreTold, Matter!Follows, Matter!Has, Matter!Alone
<1> QED BY <1>4, <1>5, <1>6 DEF MatterInv

LEMMA MatterStep == Matter!Bounds /\ MatterInv /\ [Matter!Next]_(Matter!vars) => MatterInv'
<1> SUFFICES ASSUME Matter!Bounds, MatterInv, [Matter!Next]_(Matter!vars) PROVE MatterInv'
  OBVIOUS
<1>0. refusals \in 0 .. Refusals /\ Refusals \in Nat
  BY BoundsAre DEF MatterInv, MatterTypes
<1>1. CASE Matter!SyncOk
  <2>1. Matter!Sync(Matter!Updates, 0) /\ refusals' = refusals
    BY <1>1 DEF Matter!SyncOk
  <2> QED BY <1>0, <2>1, SyncKeepsInv
<1>2. CASE Matter!SyncRefused
  <2>1. PICK refused \in DOMAIN Matter!Updates : Matter!Sync(Matter!Updates, refused)
    BY <1>2 DEF Matter!SyncRefused
  <2>2. refusals > 0 /\ refusals' = refusals - 1
    BY <1>2 DEF Matter!SyncRefused
  <2>3. refusals' \in 0 .. Refusals
    BY <1>0, <2>2
  <2> QED BY <2>1, <2>3, SyncKeepsInv
<1>3. CASE Matter!DevicesChange
  BY <1>3, ChangeKeepsInv
<1>4. CASE UNCHANGED Matter!vars
  <2>1. UNCHANGED <<here, shadows, attributes, moves, refusals, untold, announced>>
    BY <1>4 DEF Matter!vars
  <2>2. Images' /\ MatterTypes'
    BY <2>1 DEF MatterInv, Images, MatterTypes, Matter!Online
  <2>3. Matter!ShadowsAreTold'
    BY <2>1 DEF MatterInv, Matter!ShadowsAreTold, Matter!Follows, Matter!Has, Matter!Alone
  <2> QED BY <2>2, <2>3 DEF MatterInv
<1> QED BY <1>1, <1>2, <1>3, <1>4 DEF Matter!Next

LEMMA MatterInvImpliesTypes == MatterInv => Matter!TypeOK
<1> SUFFICES ASSUME MatterInv PROVE Matter!TypeOK
  OBVIOUS
<1>1. \A d \in Matter!Online(shadows) : shadows[d] \in Matter!Shadows
  BY DEF MatterInv, Images, Matter!Online
<1>2. /\ Matter!Cardinality(Matter!Online(here)) <= Capacity
      /\ Matter!Cardinality(Matter!Online(shadows)) <= Capacity
  BY SameSets DEF MatterInv, MatterTypes
<1>3. /\ DOMAIN attributes = Matter!Keys
      /\ \A key \in Matter!Keys : attributes[key] \in (Matter!AllValues \cup BOOLEAN) \cup {Nothing}
  BY DEF MatterInv, MatterTypes
<1> QED BY <1>1, <1>2, <1>3 DEF MatterInv, Images, MatterTypes, MatterSnapshots, Matter!TypeOK

\* What the Matter bridge takes for published is published: for any devices, sensors and
\* endpoints, its shadows and the attributes never disagree about a device that shares no
\* endpoint, except where an update was lost in the full queue or refused by the stack
\* (MatterBridge::sync_snapshot, publish_update_to_hal).
THEOREM ShadowsFollow ==
    ASSUME Matter!Bounds
    PROVE  Matter!Spec => []Matter!ShadowsAreSound
<1>1. Matter!Init => MatterInv
  BY MatterInitially
<1>2. MatterInv /\ [Matter!Next]_(Matter!vars) => MatterInv'
  BY MatterStep
<1>3. MatterInv => Matter!ShadowsAreSound
  BY MatterInvImpliesTypes DEF MatterInv, Matter!ShadowsAreSound
<1> QED BY <1>1, <1>2, <1>3, PTL DEF Matter!Spec

=============================================================================
