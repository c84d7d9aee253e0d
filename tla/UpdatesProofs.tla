---------------------------- MODULE UpdatesProofs ---------------------------
(***************************************************************************)
(* Theorems about Updates: requests of both kinds never wait at the same   *)
(* time, each manager implements UpdateQueue, clients that poll are told   *)
(* of their requests and results, the API ends up showing how the last     *)
(* update of the radio co-processor ended, and MQTT comes back.  The last  *)
(* part is about NetworkOperations, whose requests use the same store:     *)
(* what clients are told of their scans.                                   *)
(***************************************************************************)
EXTENDS Updates, FiniteSetTheorems, TLAPS

-----------------------------------------------------------------------------
(***************************************************************************)
(* What the operations of OperationResults do to a queue of entries that   *)
(* is kept in the order of the requests' ids: they keep it so, and within  *)
(* its capacity, and a full queue loses only its oldest entry.             *)
(***************************************************************************)

Entries(queue) == {queue[i] : i \in DOMAIN queue}

\* A queue of distinct ids, the oldest first, with values in V
Sound(queue, V) ==
    /\ queue \in Seq([id : Nat, value : V])
    /\ Len(queue) <= Capacity
    /\ \A i, j \in DOMAIN queue : i < j => queue[i].id < queue[j].id

LEMMA SoundIsIndexed ==
    ASSUME NEW V, NEW queue, Sound(queue, V)
    PROVE  /\ DOMAIN queue = 1..Len(queue) /\ Len(queue) \in Nat
           /\ \A i \in 1..Len(queue) :
                 /\ queue[i] \in [id : Nat, value : V]
                 /\ queue[i].id \in Nat /\ queue[i].value \in V
           /\ queue = [i \in 1..Len(queue) |-> queue[i]]
           /\ \A i, j \in 1..Len(queue) : queue[i].id = queue[j].id => i = j
<1>1. DOMAIN queue = 1..Len(queue) /\ Len(queue) \in Nat
      /\ queue = [i \in 1..Len(queue) |-> queue[i]]
  BY DEF Sound
<1>2. \A i \in 1..Len(queue) : queue[i] \in [id : Nat, value : V]
  <2>. DEFINE T == [id : Nat, value : V]
  <2>1. queue \in Seq(T)
    BY DEF Sound
  <2>. HIDE DEF T
  <2>2. \A i \in 1..Len(queue) : queue[i] \in T
    BY <2>1
  <2>. QED BY <2>2 DEF T
<1>3. \A i \in 1..Len(queue) : queue[i].id \in Nat /\ queue[i].value \in V
  BY <1>2
<1>4. \A i, j \in 1..Len(queue) : queue[i].id = queue[j].id => i = j
  BY <1>1, <1>3 DEF Sound
<1>. QED BY <1>1, <1>2, <1>3, <1>4

LEMMA EmptySound == \A V : Sound(<<>>, V) /\ Ids(<<>>) = {} /\ Entries(<<>>) = {}
BY CapacityAssumption DEF Sound, Ids, Entries

LEMMA IdsOfEntries ==
    ASSUME NEW queue
    PROVE  /\ \A e \in Entries(queue) : e.id \in Ids(queue)
           /\ \A id \in Ids(queue) : \E e \in Entries(queue) : e.id = id
BY DEF Ids, Entries

\* The oldest entry goes
LEMMA TailSound ==
    ASSUME NEW V, NEW queue, Sound(queue, V), Len(queue) # 0
    PROVE  /\ Sound(Tail(queue), V) /\ Len(Tail(queue)) = Len(queue) - 1
           /\ \A e \in Entries(Tail(queue)) :
                 e \in Entries(queue) /\ queue[1].id < e.id
           /\ \A e \in Entries(queue) : e = queue[1] \/ e \in Entries(Tail(queue))
<1>. DEFINE tail == Tail(queue)
<1>1. DOMAIN queue = 1..Len(queue) /\ Len(queue) \in Nat \ {0}
      /\ queue \in Seq([id : Nat, value : V])
  BY SoundIsIndexed DEF Sound
<1>2. /\ tail \in Seq([id : Nat, value : V]) /\ Len(tail) = Len(queue) - 1
      /\ DOMAIN tail = 1..Len(queue) - 1
      /\ \A i \in 1..Len(queue) - 1 : tail[i] = queue[i + 1]
  BY <1>1
<1>3. Sound(tail, V)
  <2>. HIDE DEF tail
  <2>1. ASSUME NEW i \in DOMAIN tail, NEW j \in DOMAIN tail, i < j
        PROVE  tail[i].id < tail[j].id
    <3>0. i \in 1..Len(queue) - 1 /\ j \in 1..Len(queue) - 1
      BY <1>2
    <3>1. i \in Nat /\ j \in Nat /\ i + 1 \in 1..Len(queue) /\ j + 1 \in 1..Len(queue)
      <4>. DEFINE n == Len(queue)
      <4>1. n \in Nat
        BY <1>1
      <4>. HIDE DEF n
      <4>2. i \in 1..n - 1 /\ j \in 1..n - 1
        BY <3>0 DEF n
      <4>3. i \in Nat /\ j \in Nat /\ i + 1 \in 1..n /\ j + 1 \in 1..n
        BY <4>1, <4>2
      <4>. QED BY <4>3 DEF n
    <3>2. queue[i + 1].id < queue[j + 1].id
      <4>1. i + 1 \in DOMAIN queue /\ j + 1 \in DOMAIN queue /\ i + 1 < j + 1
        BY <1>1, <2>1, <3>1
      <4>. QED BY <4>1 DEF Sound
    <3>3. tail[i] = queue[i + 1] /\ tail[j] = queue[j + 1]
      BY <1>2, <3>0
    <3>. QED BY <3>2, <3>3
  <2>2. Len(tail) <= Capacity
    BY <1>1, <1>2, CapacityAssumption DEF Sound
  <2>. QED BY <1>2, <2>1, <2>2 DEF Sound
<1>4. \A e \in Entries(tail) : e \in Entries(queue) /\ queue[1].id < e.id
  <2>. SUFFICES ASSUME NEW i \in 1..Len(queue) - 1
                PROVE  tail[i] \in Entries(queue) /\ queue[1].id < tail[i].id
    BY <1>2 DEF Entries
  <2>1. i + 1 \in DOMAIN queue /\ 1 \in DOMAIN queue /\ 1 < i + 1 /\ tail[i] = queue[i + 1]
    <3>1. DOMAIN queue = 1..Len(queue) /\ tail[i] = queue[i + 1]
      BY <1>1, <1>2
    <3>. QED BY <1>1, <3>1
  <2>2. \A a, b \in DOMAIN queue : a < b => queue[a].id < queue[b].id
    BY DEF Sound
  <2>. HIDE DEF tail
  <2>. QED BY <2>1, <2>2 DEF Entries
<1>5. \A e \in Entries(queue) : e = queue[1] \/ e \in Entries(tail)
  <2>. SUFFICES ASSUME NEW i \in 1..Len(queue) PROVE queue[i] = queue[1] \/ queue[i] \in Entries(tail)
    BY <1>1 DEF Entries
  <2>1. CASE i = 1
    BY <2>1
  <2>2. CASE i # 1
    <3>1. i - 1 \in DOMAIN tail /\ tail[i - 1] = queue[i]
      BY <1>1, <1>2, <2>2
    <3>. QED BY <3>1 DEF Entries
  <2>. QED BY <2>1, <2>2
<1>. QED BY <1>2, <1>3, <1>4, <1>5

\* A newer entry comes
LEMMA AppendSound ==
    ASSUME NEW V, NEW queue, Sound(queue, V), Len(queue) < Capacity,
           NEW id \in Nat, NEW value \in V, \A old \in Ids(queue) : old < id
    PROVE  LET entry == [id |-> id, value |-> value] IN
           /\ Sound(Append(queue, entry), V)
           /\ Entries(Append(queue, entry)) = Entries(queue) \union {entry}
<1>. DEFINE entry == [id |-> id, value |-> value]
            new == Append(queue, entry)
<1>1. DOMAIN queue = 1..Len(queue) /\ Len(queue) \in Nat
      /\ queue \in Seq([id : Nat, value : V]) /\ entry \in [id : Nat, value : V]
  BY SoundIsIndexed DEF Sound
<1>2. /\ new \in Seq([id : Nat, value : V]) /\ Len(new) = Len(queue) + 1
      /\ DOMAIN new = 1..Len(queue) + 1
      /\ \A i \in 1..Len(queue) : new[i] = queue[i]
      /\ new[Len(queue) + 1] = entry
  BY <1>1
<1>3. \A i \in 1..Len(queue) : queue[i].id < id
  BY <1>1 DEF Ids
<1>4. Sound(new, V)
  <2>1. ASSUME NEW i \in DOMAIN new, NEW j \in DOMAIN new, i < j
        PROVE  new[i].id < new[j].id
    <3>1. i \in 1..Len(queue)
      BY <1>1, <1>2, <2>1
    <3>2. CASE j = Len(queue) + 1
      BY <1>2, <1>3, <3>1, <3>2
    <3>3. CASE j # Len(queue) + 1
      BY <1>1, <1>2, <2>1, <3>1, <3>3 DEF Sound
    <3>. QED BY <3>2, <3>3
  <2>2. Len(new) <= Capacity
    BY <1>1, <1>2, CapacityAssumption
  <2>. HIDE DEF new
  <2>. QED BY <1>2, <2>1, <2>2 DEF Sound
<1>5. Entries(new) = Entries(queue) \union {entry}
  BY <1>1, <1>2 DEF Entries
<1>. QED BY <1>4, <1>5

\* Put keeps a queue sound when what it puts is there already or is newer
\* than all that is there; only a full queue loses an entry, its oldest
LEMMA PutSound ==
    ASSUME NEW V, NEW queue, Sound(queue, V), NEW id \in Nat, NEW value \in V,
           id \in Ids(queue) \/ \A old \in Ids(queue) : old < id
    PROVE  LET entry == [id |-> id, value |-> value]
               new == Put(queue, id, value)
           IN  /\ Sound(new, V)
               /\ entry \in Entries(new) /\ id \in Ids(new)
               /\ \A e \in Entries(new) :
                     e = entry \/ (e \in Entries(queue) /\ e.id # id)
               /\ \A old \in Ids(queue) : old \in Ids(new) \/
                     /\ id \notin Ids(queue) /\ Len(queue) = Capacity
                     /\ \A other \in Ids(new) : old < other
                     /\ \A other \in Ids(queue) : old <= other
<1>. DEFINE entry == [id |-> id, value |-> value]
            new == Put(queue, id, value)
<1>. entry \in [id : Nat, value : V]
  OBVIOUS
<1>1. CASE id \in Ids(queue)
  <2>1. new = [i \in DOMAIN queue |-> IF queue[i].id = id THEN entry ELSE queue[i]]
    BY <1>1 DEF Put
  <2>. HIDE DEF entry
  <2>2. /\ DOMAIN new = 1..Len(queue) /\ Len(queue) \in Nat
        /\ \A i \in 1..Len(queue) : new[i] = IF queue[i].id = id THEN entry ELSE queue[i]
    BY <2>1, SoundIsIndexed
  <2>3. \A i \in 1..Len(queue) : new[i].id = queue[i].id
    BY <2>2 DEF entry
  <2>4. new \in Seq([id : Nat, value : V]) /\ Len(new) = Len(queue)
    <3>1. new = [i \in 1..Len(queue) |-> IF queue[i].id = id THEN entry ELSE queue[i]]
      BY <2>1, SoundIsIndexed
    <3>2. \A i \in 1..Len(queue) :
             (IF queue[i].id = id THEN entry ELSE queue[i]) \in [id : Nat, value : V]
      BY SoundIsIndexed
    <3>. QED BY <2>2, <3>1, <3>2
  <2>5. Sound(new, V)
    BY <2>2, <2>3, <2>4, SoundIsIndexed DEF Sound
  <2>6. \E i \in 1..Len(queue) : queue[i].id = id
    BY <1>1, SoundIsIndexed DEF Ids
  <2>7. entry \in Entries(new) /\ Ids(new) = Ids(queue)
    BY <2>2, <2>3, <2>6, SoundIsIndexed DEF Entries, Ids
  <2>8. \A e \in Entries(new) : e = entry \/ (e \in Entries(queue) /\ e.id # id)
    BY <2>2, SoundIsIndexed DEF Entries
  <2>. HIDE DEF new
  <2>. QED BY <1>1, <2>5, <2>7, <2>8 DEF new, entry
<1>2. CASE id \notin Ids(queue) /\ Len(queue) >= Capacity
  <2>1. new = Append(Tail(queue), entry)
    BY <1>2 DEF Put
  <2>2. Len(queue) = Capacity /\ Len(queue) # 0
    <3>1. Len(queue) \in Nat /\ Len(queue) <= Capacity
      BY SoundIsIndexed DEF Sound
    <3>. QED BY <1>2, <3>1, CapacityAssumption
  <2>3. /\ Sound(Tail(queue), V) /\ Len(Tail(queue)) < Capacity
        /\ \A e \in Entries(Tail(queue)) : e \in Entries(queue) /\ queue[1].id < e.id
        /\ \A e \in Entries(queue) : e = queue[1] \/ e \in Entries(Tail(queue))
    <3>1. Len(queue) \in Nat
      BY SoundIsIndexed
    <3>. DEFINE tail == Tail(queue)
    <3>2. /\ Sound(tail, V) /\ Len(tail) = Len(queue) - 1
          /\ \A e \in Entries(tail) : e \in Entries(queue) /\ queue[1].id < e.id
          /\ \A e \in Entries(queue) : e = queue[1] \/ e \in Entries(tail)
      BY <2>2, TailSound
    <3>. HIDE DEF tail
    <3>3. Len(tail) < Capacity
      BY <2>2, <3>1, <3>2
    <3>. QED BY <3>2, <3>3 DEF tail
  <2>4. \A old \in Ids(Tail(queue)) : old < id
    BY <1>2, <2>3, IdsOfEntries
  <2>5. Sound(new, V) /\ Entries(new) = Entries(Tail(queue)) \union {entry}
    <3>. DEFINE tail == Tail(queue)
    <3>1. Sound(tail, V) /\ Len(tail) < Capacity /\ \A old \in Ids(tail) : old < id
      BY <2>3, <2>4
    <3>. HIDE DEF tail, new
    <3>2. Sound(Append(tail, entry), V) /\ Entries(Append(tail, entry)) = Entries(tail) \union {entry}
      BY <3>1, AppendSound
    <3>. QED BY <2>1, <3>2 DEF tail
  <2>6. \A e \in Entries(queue) : e.id # id
    BY <1>2, IdsOfEntries
  <2>7. \A e \in Entries(new) : queue[1].id < e.id
    <3>1. queue[1] \in Entries(queue)
      BY <2>2, SoundIsIndexed DEF Entries
    <3>2. queue[1].id < entry.id
      BY <1>2, <3>1, IdsOfEntries
    <3>. QED BY <2>3, <2>5, <3>2
  <2>8. \A old \in Ids(queue) :
           \/ old \in Ids(new)
           \/ /\ \A other \in Ids(new) : old < other
              /\ \A other \in Ids(queue) : old <= other
    <3>. HIDE DEF new
    <3>. SUFFICES ASSUME NEW old \in Ids(queue)
                  PROVE  \/ old \in Ids(new)
                         \/ /\ \A other \in Ids(new) : old < other
                            /\ \A other \in Ids(queue) : old <= other
      OBVIOUS
    <3>0. PICK e \in Entries(queue) : e.id = old
      BY IdsOfEntries
    <3>1. CASE e = queue[1]
      <4>1. \A other \in Ids(new) : e.id < other
        BY <2>7, <3>1, IdsOfEntries
      <4>2. \A i \in 1..Len(queue) : queue[1].id <= queue[i].id
        <5>1. /\ Len(queue) \in Nat \ {0} /\ DOMAIN queue = 1..Len(queue)
              /\ \A i \in 1..Len(queue) : queue[i].id \in Nat
          BY <2>2, SoundIsIndexed
        <5>2. \A i \in 1..Len(queue) : 1 < i => queue[1].id < queue[i].id
          BY <5>1 DEF Sound
        <5>3. 1 \in 1..Len(queue) /\ \A i \in 1..Len(queue) : i = 1 \/ 1 < i
          BY <5>1
        <5>. QED BY <5>1, <5>2, <5>3
      <4>3. \A other \in Ids(queue) : e.id <= other
        BY <3>1, <4>2, SoundIsIndexed DEF Ids
      <4>. QED BY <3>0, <4>1, <4>3
    <3>2. CASE e # queue[1]
      <4>1. e \in Entries(new)
        BY <2>3, <2>5, <3>2
      <4>. QED BY <3>0, <4>1, IdsOfEntries
    <3>. QED BY <3>1, <3>2
  <2>9. entry.id = id
    OBVIOUS
  <2>. HIDE DEF new, entry
  <2>10. id \in Ids(new)
    BY <2>5, <2>9, IdsOfEntries
  <2>. QED BY <1>2, <2>2, <2>3, <2>5, <2>6, <2>8, <2>10 DEF new, entry
<1>3. CASE id \notin Ids(queue) /\ ~(Len(queue) >= Capacity)
  <2>1. new = Append(queue, entry) /\ Len(queue) < Capacity
    BY <1>3, SoundIsIndexed, CapacityAssumption DEF Put
  <2>2. Sound(new, V) /\ Entries(new) = Entries(queue) \union {entry}
    BY <1>3, <2>1, AppendSound
  <2>3. \A e \in Entries(queue) : e.id # id
    BY <1>3, IdsOfEntries
  <2>4. entry.id = id
    OBVIOUS
  <2>. HIDE DEF new, entry
  <2>5. id \in Ids(new) /\ Ids(queue) \subseteq Ids(new)
    BY <2>2, <2>4, IdsOfEntries
  <2>. QED BY <2>2, <2>3, <2>5 DEF new, entry
<1>. QED BY <1>1, <1>2, <1>3

\* Without takes out the entries of one request and no other
LEMMA WithoutSound ==
    ASSUME NEW V, NEW queue, Sound(queue, V), NEW id
    PROVE  /\ Sound(Without(queue, id), V)
           /\ Entries(Without(queue, id)) = {e \in Entries(queue) : e.id # id}
           /\ Ids(Without(queue, id)) = Ids(queue) \ {id}
<1>. DEFINE new == Without(queue, id)
            place == Place(queue, id)
<1>1. CASE id \notin Ids(queue)
  BY <1>1, IdsOfEntries DEF Without
<1>2. CASE id \in Ids(queue)
  <2>1. new = [i \in 1..Len(queue) - 1 |-> IF i < place THEN queue[i] ELSE queue[i + 1]]
    BY <1>2 DEF Without
  <2>2. place \in 1..Len(queue) /\ queue[place].id = id
    <3>1. PICK i \in 1..Len(queue) : queue[i].id = id
      BY <1>2, SoundIsIndexed DEF Ids
    <3>2. \A j \in 1..i - 1 : queue[j].id # id
      BY <3>1, SoundIsIndexed
    <3>. QED BY <3>1, <3>2, SoundIsIndexed DEF Place
  <2>. HIDE DEF place
  <2>3. /\ Len(queue) \in Nat \ {0} /\ DOMAIN new = 1..Len(queue) - 1
        /\ \A i \in 1..Len(queue) - 1 :
              new[i] = IF i < place THEN queue[i] ELSE queue[i + 1]
    BY <2>1, <2>2, SoundIsIndexed
  <2>4. new \in Seq([id : Nat, value : V]) /\ Len(new) = Len(queue) - 1
    <3>1. \A i \in 1..Len(queue) - 1 :
             (IF i < place THEN queue[i] ELSE queue[i + 1]) \in [id : Nat, value : V]
      BY <2>2, <2>3, SoundIsIndexed
    <3>. QED BY <2>1, <2>3, <3>1
  <2>5. Sound(new, V)
    <3>1. ASSUME NEW i \in DOMAIN new, NEW j \in DOMAIN new, i < j
          PROVE  new[i].id < new[j].id
      <4>1. PICK a \in 1..Len(queue) : new[i] = queue[a] /\ a = IF i < place THEN i ELSE i + 1
        BY <2>2, <2>3
      <4>2. PICK b \in 1..Len(queue) : new[j] = queue[b] /\ b = IF j < place THEN j ELSE j + 1
        BY <2>2, <2>3
      <4>3. a < b
        BY <2>2, <2>3, <3>1, <4>1, <4>2
      <4>. QED BY <4>1, <4>2, <4>3, SoundIsIndexed DEF Sound
    <3>. QED BY <2>3, <2>4, <3>1, SoundIsIndexed, CapacityAssumption DEF Sound
  <2>6. Entries(new) = {e \in Entries(queue) : e.id # id}
    <3>1. ASSUME NEW i \in 1..Len(queue) - 1
          PROVE  new[i] \in Entries(queue) /\ new[i].id # id
      <4>1. PICK a \in 1..Len(queue) : new[i] = queue[a] /\ a # place
        <5>1. i \in Int /\ i \in 1..Len(queue) /\ i + 1 \in 1..Len(queue) /\ place \in Int
          BY <2>2, <2>3
        <5>2. CASE i < place
          BY <2>3, <5>1, <5>2
        <5>3. CASE ~(i < place)
          <6>1. new[i] = queue[i + 1] /\ i + 1 # place
            BY <2>3, <5>1, <5>3
          <6>. QED BY <5>1, <6>1
        <5>. QED BY <5>2, <5>3
      <4>. QED BY <2>2, <4>1, SoundIsIndexed DEF Entries
    <3>2. ASSUME NEW a \in 1..Len(queue), queue[a].id # id
          PROVE  queue[a] \in Entries(new)
      <4>1. a # place
        BY <2>2, <3>2
      <4>2. PICK i \in 1..Len(queue) - 1 : new[i] = queue[a]
        <5>1. CASE a < place
          <6>1. a \in 1..Len(queue) - 1
            BY <2>2, <5>1
          <6>. HIDE DEF new
          <6>. QED BY <2>3, <5>1, <6>1
        <5>2. CASE place < a
          <6>1. a - 1 \in 1..Len(queue) - 1 /\ ~(a - 1 < place) /\ a - 1 + 1 = a
            BY <2>2, <2>3, <5>2
          <6>. HIDE DEF new
          <6>. QED BY <2>3, <6>1
        <5>. QED BY <2>2, <4>1, <5>1, <5>2
      <4>. QED BY <2>3, <4>2 DEF Entries
    <3>. QED BY <2>3, <3>1, <3>2, SoundIsIndexed DEF Entries
  <2>7. Ids(new) = Ids(queue) \ {id}
    BY <2>6, IdsOfEntries
  <2>. QED BY <2>5, <2>6, <2>7
<1>. QED BY <1>1, <1>2

\* A queue has as many ids as entries
LEMMA IdsCounted ==
    ASSUME NEW V, NEW queue, Sound(queue, V)
    PROVE  IsFiniteSet(Ids(queue)) /\ Cardinality(Ids(queue)) = Len(queue)
<1>. DEFINE idAt == [i \in 1..Len(queue) |-> queue[i].id]
<1>1. Len(queue) \in Nat
  BY SoundIsIndexed
<1>2. IsFiniteSet(1..Len(queue)) /\ Cardinality(1..Len(queue)) = Len(queue)
  <2>1. \A n \in Nat : IsFiniteSet(1..n) /\ Cardinality(1..n) = n
    <3>1. ASSUME NEW n \in Nat PROVE IsFiniteSet(1..n) /\ Cardinality(1..n) = n
      <4>1. 1 \in Int /\ n \in Int
        OBVIOUS
      <4>2. IsFiniteSet(1..n) /\ Cardinality(1..n) = IF 1 > n THEN 0 ELSE n - 1 + 1
        BY <4>1, FS_Interval
      <4>. QED BY <4>2
    <3>. QED BY <3>1
  <2>. QED BY <1>1, <2>1
<1>3. idAt \in Bijection(1..Len(queue), Ids(queue))
  BY SoundIsIndexed DEF Bijection, Injection, Surjection, Ids, IsInjective
<1>. QED BY <1>2, <1>3, FS_Bijection DEF ExistsBijection

\* When a queue has all that another has and one more, the other is not full
LEMMA RoomForOneMore ==
    ASSUME NEW V, NEW W, NEW less, NEW more, Sound(less, V), Sound(more, W),
           Ids(less) \subseteq Ids(more), NEW id \in Ids(more), id \notin Ids(less)
    PROVE  Len(less) < Capacity
<1>1. /\ IsFiniteSet(Ids(less)) /\ Cardinality(Ids(less)) = Len(less)
      /\ IsFiniteSet(Ids(more)) /\ Cardinality(Ids(more)) = Len(more)
  BY IdsCounted
<1>2. Cardinality(Ids(less)) < Cardinality(Ids(more))
  BY <1>1, FS_Subset
<1>. QED BY <1>1, <1>2, SoundIsIndexed, CapacityAssumption DEF Sound

-----------------------------------------------------------------------------
(***************************************************************************)
(* The invariant                                                           *)
(***************************************************************************)

\* Where each worker is between popping a request and becoming free
RunningAt == [ota |-> 2..9, rcp |-> 2..6]

\* Where it ends
Last == [ota |-> 11, rcp |-> 8]

Types ==
    /\ at \in [Kinds -> Nat] /\ \A k \in Kinds : at[k] \in 1..Last[k]
    /\ slot \in [Kinds -> Nat] /\ job \in [Kinds -> Nat]
    /\ pending \in [Kinds -> BOOLEAN] /\ busy \in [Kinds -> BOOLEAN]
    /\ ok \in [Kinds -> BOOLEAN]
    /\ accepted \in [Kinds -> SUBSET Nat] /\ succeeded \in [Kinds -> SUBSET Nat]
    /\ nextId \in Nat \ {0}
    /\ web \in [pc : {"idle", "otherBusy", "otherPending", "enqueue", "note",
                      "publish"}, kind : Kinds, id : Nat]
    /\ DOMAIN mailbox = Kinds /\ DOMAIN snapshot = Kinds

\* The web server's task handles one request, with the newest id; it has
\* accepted it, or it has not yet
Submission ==
    /\ \A k \in Kinds : \A r \in accepted[k] : r # NoRequest /\ r < nextId
    /\ nextId <= MaxRequests + 1
    /\ web.pc # "idle" => web.id + 1 = nextId /\ web.id # NoRequest
    /\ web.pc \in {"otherBusy", "otherPending", "enqueue"} =>
           \A k \in Kinds : web.id \notin accepted[k]
    /\ web.pc \in {"note", "publish"} => web.id \in accepted[web.kind]
    /\ web.pc = "enqueue" => slot[Other(web.kind)] = NoRequest

\* The slot, the flags and the worker of a manager
Manager(k) ==
    /\ pending[k] <=> slot[k] # NoRequest
    /\ slot[k] # NoRequest => slot[k] \in accepted[k]
    /\ at[k] # 1 => job[k] \in accepted[k]
    /\ at[k] \in RunningAt[k] => slot[k] = NoRequest /\ (busy[k] \/ at[k] = 2)
    /\ busy[k] => at[k] \in RunningAt[k]

Inv == Types /\ Submission /\ (\A k \in Kinds : Manager(k)) /\ NeverBothWait

-----------------------------------------------------------------------------

LEMMA Running_ ==
    ASSUME Types, NEW k \in Kinds
    PROVE  /\ Running(k) <=> at[k] \in RunningAt[k]
           /\ Step(k) = "pop" <=> at[k] = 1
           /\ Step(k) = "busy" <=> at[k] = 2
BY DEF Types, Running, RunningAt, Step, Program, Kinds, Last

LEMMA Lengths == \A k \in Kinds : Len(Program[k]) = Last[k] /\ Last[k] \in {8, 11}
<1>1. Len(Program["ota"]) = Last["ota"] /\ Last["ota"] = 11
  BY DEF Program, Last
<1>2. Len(Program["rcp"]) = Last["rcp"] /\ Last["rcp"] = 8
  BY DEF Program, Last
<1>. QED BY <1>1, <1>2 DEF Kinds

\* A worker's step moves it forward in its program, and no other worker
LEMMA Advance ==
    ASSUME Types, NEW k \in Kinds, NEW step, Does(k, step)
    PROVE  /\ at' = [at EXCEPT ![k] = at'[k]]
           /\ at' \in [Kinds -> Nat] /\ \A m \in Kinds : at'[m] \in 1..Last[m]
           /\ at'[k] = IF at[k] = Last[k] THEN 1 ELSE at[k] + 1
           /\ at[k] \in 1..Last[k]
           /\ Step(k) = step /\ Program[k][at[k]] = step
<1>1. at[k] \in 1..Last[k] /\ Last[k] \in {8, 11} /\ Len(Program[k]) = Last[k]
  BY Lengths DEF Types
<1>2. /\ at' = [at EXCEPT ![k] = at'[k]]
      /\ at'[k] = IF at[k] = Last[k] THEN 1 ELSE at[k] + 1
      /\ at'[k] \in 1..Last[k] /\ at'[k] \in Nat
  BY <1>1 DEF Does, Types
<1>3. at' \in [Kinds -> Nat]
  BY <1>2 DEF Types
<1>4. \A m \in Kinds : at'[m] \in 1..Last[m]
  BY <1>2 DEF Types
<1>5. Step(k) = step /\ Program[k][at[k]] = step
  BY DEF Does, Step
<1>. QED BY <1>1, <1>2, <1>3, <1>4, <1>5

LEMMA Initially == Init => Inv
BY UpdatesAssumption
   DEF Init, Inv, Types, Submission, Manager, NeverBothWait, Kinds, Last,
       RunningAt, IdleWeb, NoRequest

LEMMA WebKeepsInv ==
    ASSUME Inv,
           \/ \E k \in Kinds : Submit(k)
           \/ ReadOtherBusy \/ ReadOtherPending \/ Refuse
           \/ NoteQueued \/ PublishQueued
    PROVE  Inv'
<1>. USE DEF Inv, managerVars, workerVars, statusVars, deviceVars
<1>1. UNCHANGED <<managerVars, workerVars, accepted, snapshot>>
  BY DEF Submit, ReadOtherBusy, ReadOtherPending, Refuse, NoteQueued, PublishQueued
<1>2. Types'
  BY <1>1 DEF Types, Submit, ReadOtherBusy, ReadOtherPending, Refuse, NoteQueued,
              PublishQueued, WebAt, IdleWeb, NoRequest, Kinds
<1>3. Submission'
  <2>1. CASE \E k \in Kinds : Submit(k)
    BY <1>1, <2>1, UpdatesAssumption DEF Submission, Submit, Types, NoRequest
  <2>2. CASE ReadOtherPending
    BY <1>1, <2>2 DEF Submission, ReadOtherPending, WebAt, IdleWeb, Types, Manager,
                      Other, Kinds, NoRequest
  <2>3. CASE ReadOtherBusy \/ Refuse \/ NoteQueued \/ PublishQueued
    BY <1>1, <2>3 DEF Submission, ReadOtherBusy, Refuse, NoteQueued, PublishQueued,
                      WebAt, IdleWeb, Types, NoRequest
  <2>. QED BY <2>1, <2>2, <2>3
<1>4. (\A k \in Kinds : Manager(k)') /\ NeverBothWait'
  BY <1>1 DEF Manager, NeverBothWait
<1>. QED BY <1>2, <1>3, <1>4

LEMMA AcceptKeepsInv ==
    ASSUME Inv, Accept
    PROVE  Inv'
<1>. USE DEF Inv, workerVars, statusVars, deviceVars
<1>1. /\ web.kind \in Kinds /\ web.pc = "enqueue" /\ web.id \in Nat \ {0}
      /\ slot[web.kind] = NoRequest /\ slot[Other(web.kind)] = NoRequest
      /\ ~busy[web.kind] /\ at[web.kind] # 2
  BY Running_ DEF Accept, Types, Submission, PopHoldsLock, Step, NoRequest
<1>2. Types'
  BY <1>1 DEF Types, Accept, WebAt, Kinds
<1>3. Submission'
  BY <1>1 DEF Submission, Accept, WebAt, Types, NoRequest
<1>4. \A k \in Kinds : Manager(k)'
  BY <1>1 DEF Manager, Accept, Types, RunningAt, NoRequest
<1>5. NeverBothWait'
  BY <1>1 DEF NeverBothWait, Accept, Types, Other, Kinds, NoRequest
<1>. QED BY <1>2, <1>3, <1>4, <1>5

LEMMA WorkerKeepsInv ==
    ASSUME Inv, NEW k \in Kinds, WorkerStep(k)
    PROVE  Inv'
<1>. USE DEF Inv, managerVars, workerVars, statusVars, webVars, deviceVars
<1>1. CASE Pop(k)
  <2>. Does(k, "pop")
    BY <1>1 DEF Pop
  <2>0. at[k] = 1
    BY Running_, Advance
  <2>1. /\ at' = [at EXCEPT ![k] = 2] /\ at[k] = 1
        /\ slot[k] # NoRequest /\ slot[k] \in Nat /\ ~busy[k]
    BY <1>1, <2>0, Advance DEF Pop, Kinds, Manager, RunningAt, Last, Types
  <2>2. Types'
    BY <1>1, <2>1 DEF Pop, Types, Kinds, Last, NoRequest
  <2>3. Submission' /\ NeverBothWait'
    BY <1>1, <2>1 DEF Pop, Submission, NeverBothWait, Types, Kinds, Other, NoRequest
  <2>4. \A m \in Kinds : Manager(m)'
    BY <1>1, <2>1 DEF Pop, Manager, Types, RunningAt, NoRequest, Kinds
  <2>. QED BY <2>2, <2>3, <2>4
<1>2. CASE BecomeBusy(k)
  <2>. Does(k, "busy")
    BY <1>2 DEF BecomeBusy
  <2>0. at[k] = 2
    BY Running_, Advance
  <2>1. at' = [at EXCEPT ![k] = 3] /\ at[k] = 2
    BY <2>0, Advance DEF Last, Kinds
  <2>2. Types'
    BY <1>2, <2>1 DEF BecomeBusy, Types, Kinds, Last
  <2>3. Submission' /\ NeverBothWait'
    BY <1>2 DEF BecomeBusy, Submission, NeverBothWait
  <2>4. \A m \in Kinds : Manager(m)'
    BY <1>2, <2>1 DEF BecomeBusy, Manager, Types, RunningAt, Kinds
  <2>. QED BY <2>2, <2>3, <2>4
<1>3. CASE BecomeFree(k)
  <2>1. /\ at' = [at EXCEPT ![k] = at[k] + 1]
        /\ k = "ota" => at[k] = 9
        /\ k = "rcp" => at[k] = 6
    BY <1>3, Advance DEF BecomeFree, Program, Kinds, Types, Last
  <2>2. Types'
    BY <1>3, <2>1 DEF BecomeFree, Types, Kinds, Last
  <2>3. Submission' /\ NeverBothWait'
    BY <1>3 DEF BecomeFree, Submission, NeverBothWait
  <2>4. \A m \in Kinds : Manager(m)'
    BY <1>3, <2>1 DEF BecomeFree, Manager, Types, RunningAt, Kinds
  <2>. QED BY <2>2, <2>3, <2>4
<1>4. CASE \/ PublishStarted(k) \/ NoteWorking(k) \/ PauseMqtt(k)
           \/ EndTransfer(k) \/ ResumeMqtt(k) \/ PublishFinished(k)
           \/ QueueResult(k) \/ ScheduleReboot(k)
  <2>. DEFINE Others == {"started", "working", "pause", "transfer", "resume",
                         "finished", "result", "reboot"}
  <2>1. PICK step \in Others : Does(k, step)
    BY <1>4 DEF PublishStarted, NoteWorking, PauseMqtt, EndTransfer, ResumeMqtt,
                PublishFinished, QueueResult, ScheduleReboot
  <2>2. /\ at' = [at EXCEPT ![k] = at'[k]] /\ at[k] \notin {1, 2}
        /\ at' \in [Kinds -> Nat] /\ \A m \in Kinds : at'[m] \in 1..Last[m]
        /\ at[k] \in RunningAt[k] <=> at'[k] \in RunningAt[k]
    BY <2>1, Advance DEF Program, Kinds, Types, Last, RunningAt
  <2>3. UNCHANGED <<slot, pending, busy, job, web, nextId, accepted, snapshot>>
    BY <1>4 DEF PublishStarted, NoteWorking, PauseMqtt, EndTransfer, ResumeMqtt,
                PublishFinished, QueueResult, ScheduleReboot
  <2>4. /\ ok' \in [Kinds -> BOOLEAN] /\ succeeded' \in [Kinds -> SUBSET Nat]
        /\ DOMAIN mailbox' = Kinds
    BY <1>4 DEF PublishStarted, NoteWorking, PauseMqtt, EndTransfer, ResumeMqtt,
                PublishFinished, QueueResult, ScheduleReboot, Types
  <2>5. Types'
    BY <2>2, <2>3, <2>4 DEF Types
  <2>6. Submission' /\ NeverBothWait'
    BY <2>3 DEF Submission, NeverBothWait
  <2>7. \A m \in Kinds : Manager(m)'
    BY <2>2, <2>3 DEF Manager, Types
  <2>. QED BY <2>5, <2>6, <2>7
<1>. QED BY <1>1, <1>2, <1>3, <1>4 DEF WorkerStep

LEMMA StepKeepsInv == Inv /\ [Next]_vars => Inv'
<1>. SUFFICES ASSUME Inv, [Next]_vars PROVE Inv'
  OBVIOUS
<1>. USE DEF managerVars, workerVars, statusVars, webVars, deviceVars
<1>1. CASE \E k \in Kinds : Progress(k) \/ ApplyStatus(k)
           \/ \E id \in Requests : TakeResult(k, id)
  <2>1. /\ UNCHANGED <<managerVars, workerVars, webVars>>
        /\ DOMAIN mailbox' = DOMAIN mailbox /\ DOMAIN snapshot' = DOMAIN snapshot
    BY <1>1 DEF Progress, ApplyStatus, TakeResult
  <2>2. Types' /\ Submission' /\ NeverBothWait'
    BY <2>1 DEF Inv, Types, Submission, NeverBothWait
  <2>3. \A k \in Kinds : Manager(k)'
    BY <2>1 DEF Inv, Manager
  <2>. QED BY <2>2, <2>3 DEF Inv
<1>2. CASE Restart
  BY <1>2, UpdatesAssumption
     DEF Restart, Inv, Types, Submission, Manager, NeverBothWait, Kinds, Last,
              RunningAt, IdleWeb, NoRequest
<1>3. CASE UNCHANGED vars
  BY <1>3 DEF vars, Inv, Types, Submission, Manager, NeverBothWait
<1>. QED BY <1>1, <1>2, <1>3, WebKeepsInv, AcceptKeepsInv, WorkerKeepsInv DEF Next

THEOREM InvHolds == Spec => []Inv
BY Initially, StepKeepsInv, PTL DEF Spec

\* NeverBothWait holds in every state: the web server's task looks at the
\* other manager's request before it files one of its own
THEOREM OnlyOneKindWaits == Spec => []NeverBothWait
<1>1. Inv => NeverBothWait
  BY DEF Inv
<1>. QED BY <1>1, InvHolds, PTL

-----------------------------------------------------------------------------
(* The refinement *)

\* No request of a manager waits or runs but the one in its slot and the one
\* its worker has
LEMMA PhaseOf ==
    ASSUME Inv, NEW k \in Kinds, NEW r \in Requests
    PROVE  /\ Phases(k)[r] = "queued" <=> r = slot[k]
           /\ Phases(k)[r] = "running" <=> at[k] \in RunningAt[k] /\ r = job[k]
           /\ Phases(k)[r] = "new" <=> r \notin accepted[k]
           /\ Phases(k)[r] \in {"new", "queued", "running", "ended"}
BY Running_ DEF Inv, Manager, Phases, Phase, Requests, NoRequest, RunningAt, Kinds

LEMMA IdsAreRequests ==
    ASSUME Inv
    PROVE  /\ \A k \in Kinds : \A r \in accepted[k] : r \in Requests
           /\ web.pc # "idle" => web.id \in Requests
<1>1. /\ MaxRequests \in Nat /\ nextId \in Nat /\ web.id \in Nat
      /\ \A k \in Kinds : \A r \in accepted[k] : r \in Nat
  BY UpdatesAssumption DEF Inv, Types
<1>. QED BY <1>1 DEF Inv, Submission, Requests, NoRequest

AcceptIn(phase, after) ==
    \E r \in Requests :
        /\ phase[r] = "new"
        /\ \A other \in Requests : phase[other] \notin {"queued", "running"}
        /\ after = [phase EXCEPT ![r] = "queued"]

StartIn(phase, after) ==
    \E r \in Requests :
        phase[r] = "queued" /\ after = [phase EXCEPT ![r] = "running"]

EndIn(phase, after) ==
    \E r \in Requests :
        phase[r] = "running" /\ after = [phase EXCEPT ![r] = "ended"]

\* What a step does to the phases of kind k's requests
LEMMA PhaseStep ==
    ASSUME Inv, Inv', [Next]_vars, NEW k \in Kinds
    PROVE  \/ Phases(k)' = Phases(k)
           \/ Phases(k)' = [r \in Requests |-> "new"]
           \/ AcceptIn(Phases(k), Phases(k)')
           \/ StartIn(Phases(k), Phases(k)')
           \/ EndIn(Phases(k), Phases(k)')
<1>. USE DEF managerVars, workerVars, statusVars, webVars, deviceVars
<1>1. Running(k)' <=> at'[k] \in RunningAt[k]
  BY DEF Inv, Types, Running, RunningAt, Step, Program, Kinds, Last
<1>2. \A r \in Requests :
         /\ Phases(k)'[r] = "queued" <=> r = slot'[k]
         /\ Phases(k)'[r] = "running" <=> at'[k] \in RunningAt[k] /\ r = job'[k]
         /\ Phases(k)'[r] = "new" <=> r \notin accepted'[k]
         /\ Phases(k)'[r] \in {"new", "queued", "running", "ended"}
  BY <1>1 DEF Inv, Manager, Phases, Phase, Requests, NoRequest, RunningAt, Kinds
<1>3. ASSUME NEW r \in Requests, NEW new \in {"queued", "running", "ended"},
             Phases(k)'[r] = new,
             \A other \in Requests \ {r} : Phases(k)'[other] = Phases(k)[other]
      PROVE  Phases(k)' = [Phases(k) EXCEPT ![r] = new]
  BY <1>3 DEF Phases
<1>4. CASE /\ slot'[k] = slot[k] /\ job'[k] = job[k] /\ accepted'[k] = accepted[k]
           /\ at[k] \in RunningAt[k] <=> at'[k] \in RunningAt[k]
  <2>1. \A r \in Requests : Phases(k)'[r] = Phases(k)[r]
    BY <1>2, <1>4, PhaseOf
  <2>. QED BY <2>1 DEF Phases
<1>5. CASE Restart
  <2>1. \A r \in Requests : Phases(k)'[r] = "new"
    BY <1>2, <1>5 DEF Restart
  <2>. QED BY <2>1 DEF Phases
<1>6. CASE Accept
  <2>1. CASE web.kind # k
    BY <1>4, <1>6, <2>1 DEF Accept, Inv, Types
  <2>2. CASE web.kind = k
    <3>1. /\ web.id \in Requests /\ web.id \notin accepted[k] /\ at'[k] = at[k]
          /\ slot[k] = NoRequest /\ ~busy[k] /\ at[k] # 2 /\ job'[k] = job[k]
          /\ slot'[k] = web.id /\ accepted'[k] = accepted[k] \union {web.id}
      BY <1>6, <2>2, Running_, IdsAreRequests
         DEF Accept, Inv, Types, Submission, PopHoldsLock, Step
    <3>2. at[k] \notin RunningAt[k]
      BY <3>1 DEF Inv, Manager
    <3>3. /\ Phases(k)[web.id] = "new" /\ Phases(k)'[web.id] = "queued"
          /\ \A other \in Requests : Phases(k)[other] \notin {"queued", "running"}
      BY <1>2, <3>1, <3>2, PhaseOf DEF Requests, NoRequest
    <3>4. \A other \in Requests \ {web.id} : Phases(k)'[other] = Phases(k)[other]
      BY <1>2, <3>1, <3>2, PhaseOf DEF Requests, NoRequest
    <3>5. Phases(k)' = [Phases(k) EXCEPT ![web.id] = "queued"]
      BY <1>3, <3>1, <3>3, <3>4
    <3>. QED BY <3>1, <3>3, <3>5 DEF AcceptIn
  <2>. QED BY <2>1, <2>2
<1>7. CASE Pop(k)
  <2>1. /\ slot[k] \in Requests /\ at[k] = 1 /\ at'[k] = 2 /\ job'[k] = slot[k]
        /\ slot'[k] = NoRequest /\ accepted' = accepted /\ slot[k] \in accepted[k]
    <3>1. Does(k, "pop") /\ slot[k] \in accepted[k]
      BY <1>7 DEF Pop, Inv, Manager
    <3>2. at[k] = 1 /\ at'[k] = 2 /\ slot[k] \in Requests
      BY <3>1, Running_, Advance, IdsAreRequests DEF Inv, Last, Kinds
    <3>. QED BY <1>7, <3>1, <3>2 DEF Pop, Inv, Types
  <2>2. Phases(k)[slot[k]] = "queued" /\ Phases(k)'[slot[k]] = "running"
    BY <1>2, <2>1, PhaseOf DEF RunningAt, Kinds
  <2>3. \A other \in Requests \ {slot[k]} : Phases(k)'[other] = Phases(k)[other]
    BY <1>2, <2>1, PhaseOf DEF RunningAt, Kinds, Requests, NoRequest
  <2>4. Phases(k)' = [Phases(k) EXCEPT ![slot[k]] = "running"]
    BY <1>3, <2>1, <2>2, <2>3
  <2>. QED BY <2>1, <2>2, <2>4 DEF StartIn
<1>8. CASE BecomeFree(k)
  <2>1. /\ at[k] \in RunningAt[k] /\ at'[k] \notin RunningAt[k]
        /\ job[k] \in accepted[k] /\ job[k] \in Requests
        /\ job' = job /\ slot' = slot /\ accepted' = accepted
    <3>1. Does(k, "free") /\ job' = job /\ slot' = slot /\ accepted' = accepted
      BY <1>8 DEF BecomeFree
    <3>2. /\ k = "ota" => at[k] = 9 /\ at'[k] = 10
          /\ k = "rcp" => at[k] = 6 /\ at'[k] = 7
      BY <3>1, Advance DEF Program, Kinds, Inv, Types, Last
    <3>3. job[k] \in accepted[k] /\ job[k] \in Requests
      BY <3>2, IdsAreRequests DEF Inv, Manager, Kinds
    <3>. QED BY <3>1, <3>2, <3>3 DEF RunningAt, Kinds
  <2>2. slot[k] = NoRequest
    BY <2>1 DEF Inv, Manager
  <2>3. Phases(k)[job[k]] = "running" /\ Phases(k)'[job[k]] = "ended"
    BY <1>2, <2>1, <2>2, PhaseOf DEF Requests, NoRequest
  <2>4. \A other \in Requests \ {job[k]} : Phases(k)'[other] = Phases(k)[other]
    BY <1>2, <2>1, <2>2, PhaseOf
  <2>5. Phases(k)' = [Phases(k) EXCEPT ![job[k]] = "ended"]
    BY <1>3, <2>1, <2>3, <2>4
  <2>. QED BY <2>1, <2>3, <2>5 DEF EndIn
<1>9. CASE BecomeBusy(k)
  <2>1. at[k] = 2 /\ at'[k] = 3
    BY <1>9, Running_, Advance DEF BecomeBusy, Inv, Last, Kinds
  <2>. QED BY <1>4, <1>9, <2>1 DEF BecomeBusy, RunningAt, Kinds
<1>10. CASE \/ PublishStarted(k) \/ NoteWorking(k) \/ PauseMqtt(k)
            \/ EndTransfer(k) \/ ResumeMqtt(k) \/ PublishFinished(k)
            \/ QueueResult(k) \/ ScheduleReboot(k)
  <2>. DEFINE Others == {"started", "working", "pause", "transfer", "resume",
                         "finished", "result", "reboot"}
  <2>1. PICK step \in Others : Does(k, step)
    BY <1>10 DEF PublishStarted, NoteWorking, PauseMqtt, EndTransfer, ResumeMqtt,
                 PublishFinished, QueueResult, ScheduleReboot
  <2>2. at[k] \in RunningAt[k] <=> at'[k] \in RunningAt[k]
    BY <2>1, Advance DEF Program, Kinds, Inv, Types, Last, RunningAt
  <2>3. UNCHANGED <<slot, job, accepted>>
    BY <1>10 DEF PublishStarted, NoteWorking, PauseMqtt, EndTransfer, ResumeMqtt,
                 PublishFinished, QueueResult, ScheduleReboot
  <2>. QED BY <1>4, <2>2, <2>3
<1>11. ASSUME NEW m \in Kinds, WorkerStep(m), m # k
       PROVE  /\ slot'[k] = slot[k] /\ job'[k] = job[k]
              /\ accepted' = accepted /\ at'[k] = at[k]
  <2>1. \E step : Does(m, step)
    BY <1>11 DEF WorkerStep, Pop, BecomeBusy, PublishStarted, NoteWorking, PauseMqtt,
                 EndTransfer, ResumeMqtt, PublishFinished, BecomeFree, QueueResult,
                 ScheduleReboot
  <2>2. at'[k] = at[k]
    BY <1>11, <2>1 DEF Does, Inv, Types
  <2>3. CASE Pop(m)
    BY <1>11, <2>2, <2>3 DEF Pop, Inv, Types
  <2>4. CASE ~Pop(m)
    <3>1. UNCHANGED <<slot, job, accepted>>
      BY <1>11, <2>4 DEF WorkerStep, BecomeBusy, PublishStarted, NoteWorking, PauseMqtt,
                         EndTransfer, ResumeMqtt, PublishFinished, BecomeFree, QueueResult,
                         ScheduleReboot
    <3>. QED BY <2>2, <3>1
  <2>. QED BY <2>3, <2>4
<1>12. ASSUME \/ ReadOtherBusy \/ ReadOtherPending \/ Refuse
              \/ NoteQueued \/ PublishQueued
              \/ \E m \in Kinds :
                    \/ Submit(m) \/ Progress(m) \/ ApplyStatus(m)
                    \/ \E id \in Requests : TakeResult(m, id)
              \/ UNCHANGED vars
       PROVE  UNCHANGED <<slot, job, accepted, at>>
  BY <1>12 DEF ReadOtherBusy, ReadOtherPending, Refuse, NoteQueued, PublishQueued,
               Submit, Progress, ApplyStatus, TakeResult, vars
<1>13. CASE \E m \in Kinds : WorkerStep(m)
  <2>1. PICK m \in Kinds : WorkerStep(m)
    BY <1>13
  <2>2. CASE m # k
    BY <1>4, <1>11, <2>1, <2>2
  <2>3. CASE m = k
    BY <1>7, <1>8, <1>9, <1>10, <2>1, <2>3 DEF WorkerStep
  <2>. QED BY <2>2, <2>3
<1>. QED BY <1>4, <1>5, <1>6, <1>12, <1>13 DEF Next

LEMMA PhasesInitially == Init => \A k \in Kinds : Phases(k) = [r \in Requests |-> "new"]
BY DEF Init, Phases, Phase, Running, Step, Program, Kinds, Requests, NoRequest

\* ImplementsQueues holds of every behaviour: each manager carries out one
\* request after the other, and accepts none while it has one
THEOREM EachManagerIsAQueue == Spec => ImplementsQueues
<1>1. Init => OtaQueue!Init /\ RcpQueue!Init
  BY PhasesInitially DEF OtaQueue!Init, RcpQueue!Init, Kinds
<1>2. Inv /\ Inv' /\ [Next]_vars => [OtaQueue!Next]_(Phases("ota"))
  <2>. SUFFICES ASSUME Inv, Inv', [Next]_vars PROVE [OtaQueue!Next]_(Phases("ota"))
    OBVIOUS
  <2>1. "ota" \in Kinds
    BY DEF Kinds
  <2>. QED BY <2>1, PhaseStep
           DEF OtaQueue!Next, OtaQueue!Accept, OtaQueue!Start, OtaQueue!End,
               OtaQueue!Restart, AcceptIn, StartIn, EndIn
<1>3. Inv /\ Inv' /\ [Next]_vars => [RcpQueue!Next]_(Phases("rcp"))
  <2>. SUFFICES ASSUME Inv, Inv', [Next]_vars PROVE [RcpQueue!Next]_(Phases("rcp"))
    OBVIOUS
  <2>1. "rcp" \in Kinds
    BY DEF Kinds
  <2>. QED BY <2>1, PhaseStep
           DEF RcpQueue!Next, RcpQueue!Accept, RcpQueue!Start, RcpQueue!End,
               RcpQueue!Restart, AcceptIn, StartIn, EndIn
<1>. QED BY <1>1, <1>2, <1>3, InvHolds, PTL
         DEF ImplementsQueues, Spec, OtaQueue!Spec, RcpQueue!Spec

-----------------------------------------------------------------------------
(* What a step does to one kind of update *)

\* Where each worker carries its update out, and where it publishes the result
TransferAt == [ota |-> 6, rcp |-> 5]
ResultAt == [ota |-> 10, rcp |-> 8]

SameRequests(k) == slot'[k] = slot[k] /\ job'[k] = job[k] /\ accepted'[k] = accepted[k]
SameOutcome(k) == ok'[k] = ok[k] /\ succeeded'[k] = succeeded[k]
Advances(k) == at'[k] = IF at[k] = Last[k] THEN 1 ELSE at[k] + 1

\* The web server's task files a request
Accepts(k) ==
    /\ web.kind = k /\ web.pc = "enqueue" /\ web' = [web EXCEPT !.pc = "note"]
    /\ slot[k] = NoRequest /\ slot'[k] = web.id
    /\ accepted'[k] = accepted[k] \union {web.id}
    /\ at[k] \notin RunningAt[k] /\ at'[k] = at[k] /\ job'[k] = job[k]
    /\ SameOutcome(k) /\ store' = store

\* The worker takes it
Pops(k) ==
    /\ at[k] = 1 /\ at'[k] = 2
    /\ slot[k] # NoRequest /\ job'[k] = slot[k] /\ slot'[k] = NoRequest
    /\ accepted'[k] = accepted[k] /\ SameOutcome(k)
    /\ web' = web /\ store' = store

\* The worker carries it out
Transfers(k) ==
    /\ at[k] = TransferAt[k] /\ Advances(k) /\ SameRequests(k)
    /\ ok'[k] \in BOOLEAN
    /\ succeeded'[k] = IF ok'[k] THEN succeeded[k] \union {job[k]} ELSE succeeded[k]
    /\ web' = web /\ store' = store

\* The worker takes another step
Moves(k) ==
    /\ at[k] \notin {1, TransferAt[k]} /\ Advances(k)
    /\ SameRequests(k) /\ SameOutcome(k) /\ web' = web

\* Somebody else does
Stays(k) == at'[k] = at[k] /\ SameRequests(k) /\ SameOutcome(k)

\* The steps that the store sees, and the others
NotesQueued(k) ==
    /\ Stays(k) /\ web.kind = k /\ web.pc = "note" /\ web' = [web EXCEPT !.pc = "publish"]
    /\ store'[k] = Note(store[k], web.id, "queued")
NotesWorking(k) ==
    Moves(k) /\ at[k] < ResultAt[k] /\ store'[k] = Note(store[k], job[k], "working")
Publishes(k) ==
    Moves(k) /\ at[k] = ResultAt[k] /\ store'[k] = PublishResult(store[k], job[k], ok[k])
Takes(k) ==
    /\ Stays(k) /\ web.pc = "idle" /\ web' = web
    /\ \E id \in Ids(store[k].results) : store'[k] = Take(store[k], id)
MovesOnly(k) == Moves(k) /\ at[k] # ResultAt[k] /\ store'[k] = store[k]
StaysOnly(k) ==
    /\ Stays(k) /\ store'[k] = store[k]
    /\ web' = web \/ web.kind # k \/ web.pc # "note"

\* What every step does to kind k
LEMMA KindStep ==
    ASSUME Inv, Inv', DOMAIN store = Kinds, [Next]_vars, NEW k \in Kinds
    PROVE  \/ Accepts(k) \/ Pops(k) \/ Transfers(k)
           \/ NotesQueued(k) \/ NotesWorking(k) \/ Publishes(k) \/ Takes(k)
           \/ MovesOnly(k) \/ StaysOnly(k) \/ Restart
<1>. USE DEF managerVars, workerVars, statusVars, webVars, deviceVars
<1>0. Types /\ Types'
  BY DEF Inv
<1>1. CASE Accept
  <2>1. CASE web.kind = k
    <3>1. /\ web.pc = "enqueue" /\ slot[k] = NoRequest /\ ~busy[k]
          /\ ~PopHoldsLock(k) /\ web' = [web EXCEPT !.pc = "note"]
          /\ slot'[k] = web.id /\ accepted'[k] = accepted[k] \union {web.id}
          /\ UNCHANGED <<workerVars, statusVars>>
      BY <1>0, <1>1, <2>1 DEF Accept, WebAt, Types
    <3>2. at[k] \notin RunningAt[k]
      BY <1>0, <3>1, Running_ DEF Inv, Manager, PopHoldsLock, Step
    <3>. QED BY <2>1, <3>1, <3>2 DEF Accepts, SameOutcome
  <2>2. CASE web.kind # k
    BY <1>0, <1>1, <2>2 DEF Accept, StaysOnly, Stays, SameRequests, SameOutcome, Types
  <2>. QED BY <2>1, <2>2
<1>2. ASSUME NEW m \in Kinds, WorkerStep(m), m # k
      PROVE  StaysOnly(k)
  <2>0. \A step : Does(m, step) => at'[k] = at[k]
    BY <1>0, <1>2 DEF Does, Types
  <2>1. CASE Pop(m)
    BY <1>0, <1>2, <2>0, <2>1 DEF Pop, Types, StaysOnly, Stays, SameRequests, SameOutcome
  <2>2. CASE EndTransfer(m)
    BY <1>0, <1>2, <2>0, <2>2 DEF EndTransfer, Types, StaysOnly, Stays, SameRequests, SameOutcome
  <2>3. CASE NoteWorking(m) \/ QueueResult(m)
    BY <1>0, <1>2, <2>0, <2>3
       DEF NoteWorking, QueueResult, Types, StaysOnly, Stays, SameRequests, SameOutcome
  <2>4. CASE BecomeBusy(m) \/ PublishStarted(m) \/ PauseMqtt(m)
    BY <1>0, <1>2, <2>0, <2>4
       DEF BecomeBusy, PublishStarted, PauseMqtt, Types, StaysOnly, Stays, SameRequests, SameOutcome
  <2>5. CASE ResumeMqtt(m) \/ PublishFinished(m) \/ BecomeFree(m) \/ ScheduleReboot(m)
    BY <1>0, <1>2, <2>0, <2>5
       DEF ResumeMqtt, PublishFinished, BecomeFree, ScheduleReboot, Types, StaysOnly, Stays,
           SameRequests, SameOutcome
  <2>. QED BY <1>2, <2>1, <2>2, <2>3, <2>4, <2>5 DEF WorkerStep
<1>3. CASE Pop(k)
  <2>1. Does(k, "pop")
    BY <1>3 DEF Pop
  <2>2. at[k] = 1 /\ at'[k] = 2
    BY <1>0, <2>1, Running_, Advance DEF Last, Kinds
  <2>. QED BY <1>0, <1>3, <2>2 DEF Pop, Pops, SameOutcome, Types
<1>4. CASE EndTransfer(k)
  <2>1. Does(k, "transfer")
    BY <1>4 DEF EndTransfer
  <2>2. at[k] = TransferAt[k] /\ Advances(k)
    BY <1>0, <2>1, Advance DEF Program, Kinds, Last, TransferAt, Advances
  <2>. QED BY <1>0, <1>4, <2>2 DEF EndTransfer, Transfers, SameRequests, Types
<1>5. ASSUME NEW step \in {"busy", "started", "working", "pause", "resume", "finished",
                           "free", "reboot"},
             Does(k, step)
      PROVE  at[k] \notin {1, TransferAt[k], ResultAt[k]} /\ Advances(k)
  BY <1>0, <1>5, Advance DEF Program, Kinds, Last, TransferAt, ResultAt, Advances
<1>6. CASE NoteWorking(k)
  <2>1. Does(k, "working")
    BY <1>6 DEF NoteWorking
  <2>2. at[k] < ResultAt[k]
    BY <1>0, <2>1, Advance DEF Program, Kinds, Last, ResultAt
  <2>. QED BY <1>0, <1>5, <1>6, <2>1, <2>2
           DEF NoteWorking, NotesWorking, Moves, SameRequests, SameOutcome, Types
<1>7. CASE QueueResult(k)
  <2>1. Does(k, "result")
    BY <1>7 DEF QueueResult
  <2>2. at[k] = ResultAt[k] /\ at[k] \notin {1, TransferAt[k]} /\ Advances(k)
    BY <1>0, <2>1, Advance DEF Program, Kinds, Last, TransferAt, ResultAt, Advances
  <2>. QED BY <1>0, <1>7, <2>2
           DEF QueueResult, Publishes, Moves, SameRequests, SameOutcome, Types
<1>8. CASE \/ BecomeBusy(k) \/ PublishStarted(k) \/ PauseMqtt(k) \/ ResumeMqtt(k)
           \/ PublishFinished(k) \/ BecomeFree(k) \/ ScheduleReboot(k)
  <2>1. \E step \in {"busy", "started", "pause", "resume", "finished", "free",
                     "reboot"} : Does(k, step)
    BY <1>8 DEF BecomeBusy, PublishStarted, PauseMqtt, ResumeMqtt, PublishFinished,
                BecomeFree, ScheduleReboot
  <2>2. at[k] \notin {1, TransferAt[k], ResultAt[k]} /\ Advances(k)
    BY <1>5, <2>1
  <2>3. UNCHANGED <<slot, job, accepted, ok, succeeded, web, store>>
    BY <1>8 DEF BecomeBusy, PublishStarted, PauseMqtt, ResumeMqtt, PublishFinished,
                BecomeFree, ScheduleReboot
  <2>. QED BY <2>2, <2>3 DEF MovesOnly, Moves, SameRequests, SameOutcome
<1>9. CASE NoteQueued
  BY <1>0, <1>9 DEF NoteQueued, WebAt, NotesQueued, StaysOnly, Stays, SameRequests,
                    SameOutcome, Types
<1>10. ASSUME NEW m \in Kinds, NEW id \in Requests, TakeResult(m, id)
       PROVE  Takes(k) \/ StaysOnly(k)
  BY <1>0, <1>10 DEF TakeResult, Takes, StaysOnly, Stays, SameRequests, SameOutcome, Types
<1>11. CASE \/ ReadOtherBusy \/ ReadOtherPending \/ Refuse \/ PublishQueued
            \/ \E m \in Kinds : Submit(m) \/ Progress(m) \/ ApplyStatus(m)
            \/ UNCHANGED vars
  <2>1. UNCHANGED <<slot, job, accepted, ok, succeeded, store, at>>
    BY <1>11 DEF ReadOtherBusy, ReadOtherPending, Refuse, PublishQueued, Submit, Progress,
                 ApplyStatus, vars
  <2>2. web' = web \/ web.pc # "note"
    BY <1>11 DEF ReadOtherBusy, ReadOtherPending, Refuse, PublishQueued, Submit, Progress,
                 ApplyStatus, vars
  <2>. QED BY <2>1, <2>2 DEF StaysOnly, Stays, SameRequests, SameOutcome
<1>12. CASE \E m \in Kinds : WorkerStep(m)
  BY <1>2, <1>3, <1>4, <1>6, <1>7, <1>8, <1>12 DEF WorkerStep
<1>. QED BY <1>1, <1>9, <1>10, <1>11, <1>12 DEF Next

\* The web server's request has the newest id
LEMMA WebIsNewest ==
    ASSUME Inv, web.pc # "idle"
    PROVE  /\ web.id \in Nat /\ web.id # NoRequest /\ web.kind \in Kinds
           /\ \A k \in Kinds : \A r \in accepted[k] : r \in Nat /\ r <= web.id
<1>1. /\ web.id \in Nat /\ nextId \in Nat /\ web.id + 1 = nextId /\ web.kind \in Kinds
      /\ web.id # NoRequest
  BY DEF Inv, Types, Submission
<1>2. \A k \in Kinds : \A r \in accepted[k] : r \in Nat /\ r < nextId
  BY DEF Inv, Types, Submission
<1>. QED BY <1>1, <1>2

-----------------------------------------------------------------------------
(* The requests of one kind, in the order in which they are accepted *)

\* The newest accepted request waits, or is the worker's
Order(k) ==
    /\ job[k] \in accepted[k] \union {NoRequest}
    /\ slot[k] # NoRequest => job[k] < slot[k]
    /\ \A r \in accepted[k] : r <= job[k] \/ r = slot[k]

\* ok tells how the worker's request ended, once it has
Outcome(k) ==
    /\ succeeded[k] \subseteq accepted[k]
    /\ slot[k] \notin succeeded[k]
    /\ at[k] \in 2..TransferAt[k] => job[k] \notin succeeded[k]
    /\ at[k] \notin 2..TransferAt[k] => (ok[k] <=> job[k] \in succeeded[k])

History(k) == Order(k) /\ Outcome(k)

LEMMA HistoryInitially == Init => \A k \in Kinds : History(k)
BY DEF Init, History, Order, Outcome, Kinds, NoRequest, TransferAt

\* Every step keeps the requests of a kind in their order, and their outcomes
LEMMA StepKeepsHistory ==
    ASSUME Inv, Inv', DOMAIN store = Kinds, [Next]_vars, NEW k \in Kinds, History(k)
    PROVE  History(k)'
<1>0. /\ at[k] \in 1..Last[k] /\ slot[k] \in Nat /\ job[k] \in Nat
      /\ accepted[k] \subseteq Nat /\ Last[k] \in {8, 11} /\ TransferAt[k] \in {5, 6}
      /\ ok[k] \in BOOLEAN /\ NoRequest \notin accepted[k] /\ NoRequest = 0
      /\ slot[k] # NoRequest => slot[k] \in accepted[k]
      /\ at[k] # 1 => job[k] \in accepted[k]
      /\ at[k] \in 2..TransferAt[k] => slot[k] = NoRequest
  BY DEF Inv, Types, Submission, Manager, RunningAt, Last, TransferAt, Kinds, NoRequest
<1>1. CASE Accepts(k)
  <2>1. /\ web.id \in Nat /\ web.id \notin accepted[k]
        /\ \A r \in accepted[k] : r < web.id
    <3>1. web.pc = "enqueue" /\ web.id \notin accepted[k]
      BY <1>1 DEF Accepts, Inv, Submission
    <3>2. web.id \in Nat /\ \A r \in accepted[k] : r \in Nat /\ r <= web.id
      BY <3>1, WebIsNewest
    <3>. QED BY <3>1, <3>2
  <2>2. Order(k)'
    BY <1>0, <1>1, <2>1 DEF Accepts, History, Order, Inv, Submission
  <2>3. Outcome(k)'
    BY <1>0, <1>1, <2>1 DEF Accepts, SameOutcome, History, Outcome
  <2>. QED BY <2>2, <2>3 DEF History
<1>2. CASE Pops(k)
  <2>1. Order(k)'
    BY <1>0, <1>2 DEF Pops, History, Order
  <2>2. Outcome(k)'
    BY <1>0, <1>2 DEF Pops, SameOutcome, History, Outcome
  <2>. QED BY <2>1, <2>2 DEF History
<1>3. CASE Transfers(k)
  <2>1. Order(k)'
    BY <1>0, <1>3 DEF Transfers, SameRequests, History, Order
  <2>2. at[k] \in 2..TransferAt[k] /\ at'[k] \notin 2..TransferAt[k]
    BY <1>0, <1>3 DEF Transfers, Advances
  <2>3. Outcome(k)'
    BY <1>0, <1>3, <2>2 DEF Transfers, SameRequests, History, Outcome
  <2>. QED BY <2>1, <2>3 DEF History
<1>4. CASE Moves(k)
  BY <1>0, <1>4 DEF Moves, Advances, SameRequests, SameOutcome, History, Order, Outcome
<1>5. CASE Stays(k)
  BY <1>5 DEF Stays, SameRequests, SameOutcome, History, Order, Outcome
<1>6. CASE Restart
  BY <1>6 DEF Restart, History, Order, Outcome, TransferAt, Kinds, NoRequest
<1>. QED BY <1>1, <1>2, <1>3, <1>4, <1>5, <1>6, KindStep
         DEF NotesQueued, NotesWorking, Publishes, Takes, MovesOnly, StaysOnly

-----------------------------------------------------------------------------
(* What the clients are told *)

Statuses == {"queued", "working", "ready"}

\* The worker has a request whose result it has not published
Unresolved(k) == at[k] \in 2..ResultAt[k]

\* The accepted requests without a result, and the one whose status the web
\* server has still to note
Open(k) == {r \in accepted[k] : r = slot[k] \/ (Unresolved(k) /\ r = job[k])}
Noting(k, r) == web.pc = "note" /\ web.kind = k /\ web.id = r

\* Both queues of the store are in the order of the requests and lose their
\* oldest entries first, so that a result which has lost its poll status is
\* older than every status; at most one request is newer than the worker's
Told(k) ==
    LET results == store[k].results
        statuses == store[k].statuses
    IN  /\ store[k] = [results |-> results, statuses |-> statuses]
        /\ Sound(results, BOOLEAN) /\ Sound(statuses, Statuses)
        /\ Ids(results) \subseteq accepted[k] /\ Ids(statuses) \subseteq accepted[k]
        /\ \A e \in Entries(results) :
              /\ e.id <= job[k] /\ (Unresolved(k) => e.id # job[k])
              /\ e.value = (e.id \in succeeded[k])
        /\ \A e \in Entries(statuses) : e.value = "ready" => e.id \in Ids(results)
        /\ \A id \in Ids(results) :
              id \in Ids(statuses) \/ \A other \in Ids(statuses) : id < other
        /\ \A r \in Open(k) : r \in Ids(statuses) \/ Noting(k, r)

LEMMA ToldInitially == Init => \A k \in Kinds : Told(k)
<1>. SUFFICES ASSUME Init, NEW k \in Kinds PROVE Told(k)
  OBVIOUS
<1>1. store[k] = [results |-> <<>>, statuses |-> <<>>] /\ accepted[k] = {}
  BY DEF Init, EmptyBox
<1>. QED BY <1>1, EmptySound DEF Told, Open

\* Facts about numbers that the lemmas below need
LEMMA KindFacts ==
    ASSUME Inv, NEW k \in Kinds, History(k)
    PROVE  /\ at[k] \in 1..Last[k] /\ slot[k] \in Nat /\ job[k] \in Nat
           /\ Last[k] \in {8, 11} /\ TransferAt[k] \in {5, 6} /\ ResultAt[k] \in {8, 10}
           /\ ResultAt[k] = 8 <=> Last[k] = 8
           /\ accepted[k] \subseteq Nat \ {NoRequest} /\ NoRequest = 0
           /\ slot[k] # NoRequest => slot[k] \in accepted[k] /\ job[k] < slot[k]
           /\ at[k] # 1 => job[k] \in accepted[k]
           /\ \A r \in accepted[k] : r <= job[k] \/ r = slot[k]
BY DEF Inv, Types, Submission, Manager, Last, TransferAt, ResultAt, Kinds, NoRequest,
       History, Order

\* What PutSound says of a put
IsPut(V, queue, id, value) ==
    LET new == Put(queue, id, value)
    IN  /\ Sound(new, V) /\ id \in Ids(new)
        /\ \A e \in Entries(new) :
              e = [id |-> id, value |-> value] \/ (e \in Entries(queue) /\ e.id # id)
        /\ \A old \in Ids(queue) : old \in Ids(new) \/
              /\ id \notin Ids(queue) /\ Len(queue) = Capacity
              /\ \A other \in Ids(new) : old < other
              /\ \A other \in Ids(queue) : old <= other

LEMMA PutIs ==
    ASSUME NEW V, NEW queue, Sound(queue, V), NEW id \in Nat, NEW value \in V,
           id \in Ids(queue) \/ \A old \in Ids(queue) : old < id
    PROVE  IsPut(V, queue, id, value)
BY PutSound DEF IsPut

\* What is put into the statuses does not push an open request out of them
LEMMA OpenKeepsStatus ==
    ASSUME Inv, NEW k \in Kinds, History(k),
           NEW statuses, Sound(statuses, Statuses), Ids(statuses) \subseteq accepted[k],
           NEW id \in accepted[k], NEW value \in Statuses,
           id \in Ids(statuses) \/ \A old \in Ids(statuses) : old < id,
           NEW r \in Open(k), r \in Ids(statuses)
    PROVE  r \in Ids(Put(statuses, id, value))
<1>. DEFINE new == Put(statuses, id, value)
<1>0. accepted[k] \subseteq Nat /\ slot[k] \in Nat /\ job[k] \in Nat
  BY KindFacts
<1>1. /\ id \in Ids(new)
      /\ \A old \in Ids(statuses) : old \in Ids(new) \/
            /\ id \notin Ids(statuses) /\ Len(statuses) = Capacity
            /\ \A other \in Ids(new) : old < other
            /\ \A other \in Ids(statuses) : old <= other
  BY <1>0, PutSound
<1>. HIDE DEF new
<1>2. SUFFICES ASSUME id \notin Ids(statuses), Len(statuses) = Capacity, r < id,
                      \A other \in Ids(statuses) : r <= other
               PROVE  FALSE
  BY <1>1 DEF new
<1>3. PICK other \in Ids(statuses) : other # r
  <2>1. 1 \in 1..Len(statuses) /\ 2 \in 1..Len(statuses)
    BY <1>2, CapacityAssumption
  <2>2. statuses[1].id # statuses[2].id
    BY <2>1, SoundIsIndexed
  <2>3. statuses[1].id \in Ids(statuses) /\ statuses[2].id \in Ids(statuses)
    BY <2>1, SoundIsIndexed DEF Ids
  <2>. QED BY <2>2, <2>3
<1>4. r < other /\ other \in accepted[k] /\ r \in accepted[k]
  BY <1>0, <1>2, <1>3
<1>5. r = job[k] /\ other = slot[k]
  BY <1>0, <1>4, KindFacts DEF Open
<1>6. id = slot[k] \/ id <= job[k]
  BY KindFacts
<1>. QED BY <1>0, <1>2, <1>3, <1>5, <1>6

\* A status is noted of the web server's request or of the worker's
LEMMA NoteKeepsTold ==
    ASSUME Inv, NEW k \in Kinds, History(k), Told(k),
           NEW id \in accepted[k], NEW value \in {"queued", "working"},
           store'[k] = Note(store[k], id, value),
           Noting(k, id) \/ (Unresolved(k) /\ id = job[k]),
           slot'[k] = slot[k], job'[k] = job[k], accepted'[k] = accepted[k],
           succeeded'[k] = succeeded[k], Unresolved(k)' <=> Unresolved(k),
           \A r \in accepted[k] : Noting(k, r) => r = id \/ Noting(k, r)'
    PROVE  Told(k)'
<1>. DEFINE results == store[k].results
            statuses == store[k].statuses
            new == Put(statuses, id, value)
<1>0. /\ store[k] = [results |-> results, statuses |-> statuses]
      /\ Sound(results, BOOLEAN) /\ Sound(statuses, Statuses)
      /\ Ids(results) \subseteq accepted[k] /\ Ids(statuses) \subseteq accepted[k]
      /\ \A e \in Entries(results) :
            /\ e.id <= job[k] /\ (Unresolved(k) => e.id # job[k])
            /\ e.value = (e.id \in succeeded[k])
      /\ \A e \in Entries(statuses) : e.value = "ready" => e.id \in Ids(results)
      /\ \A other \in Ids(results) :
            other \in Ids(statuses) \/ \A later \in Ids(statuses) : other < later
      /\ \A r \in Open(k) : r \in Ids(statuses) \/ Noting(k, r)
  BY DEF Told
<1>1. store'[k] = [results |-> results, statuses |-> new]
  <2>1. [store[k] EXCEPT !.statuses = new] = [results |-> results, statuses |-> new]
    <3>. HIDE DEF results, statuses, new
    <3>. QED BY <1>0
  <2>. QED BY <2>1 DEF Note
<1>. HIDE DEF results, statuses
<1>2. accepted[k] \subseteq Nat /\ job[k] \in Nat /\ value \in Statuses
  BY KindFacts DEF Statuses
<1>3. id \in Ids(statuses) \/ \A old \in accepted[k] : old <= id
  <2>1. CASE Noting(k, id)
    BY <2>1, WebIsNewest DEF Noting
  <2>2. CASE id = job[k] /\ id \notin Ids(statuses) /\ Unresolved(k)
    BY <1>0, <2>1, <2>2 DEF Open
  <2>. QED BY <2>1, <2>2
<1>4. id \in Ids(statuses) \/ \A old \in Ids(statuses) : old < id
  BY <1>0, <1>2, <1>3
<1>5. /\ Sound(new, Statuses) /\ id \in Ids(new)
      /\ \A e \in Entries(new) :
            e = [id |-> id, value |-> value] \/ (e \in Entries(statuses) /\ e.id # id)
      /\ \A old \in Ids(statuses) :
            old \in Ids(new) \/
               /\ id \notin Ids(statuses) /\ Len(statuses) = Capacity
               /\ \A other \in Ids(new) : old < other
               /\ \A other \in Ids(statuses) : old <= other
  <2>1. Sound(statuses, Statuses) /\ id \in Nat /\ value \in Statuses
    BY <1>0, <1>2
  <2>2. IsPut(Statuses, statuses, id, value)
    BY <1>4, <2>1, PutIs
  <2>. QED BY <2>2 DEF IsPut
<1>6. \A r \in Open(k) : r \in Ids(statuses) => r \in Ids(new)
  BY <1>0, <1>2, <1>4, OpenKeepsStatus
<1>. HIDE DEF new
<1>7. /\ \A other \in Ids(new) : other = id \/ other \in Ids(statuses)
      /\ \A e \in Entries(new) : e.value = "ready" => e.id \in Ids(results)
  BY <1>0, <1>5, IdsOfEntries
<1>8. \A other \in Ids(results) :
         other \in Ids(new) \/ \A later \in Ids(new) : other < later
  <2>. SUFFICES ASSUME NEW other \in Ids(results), other \notin Ids(new)
                PROVE  \A later \in Ids(new) : other < later
    OBVIOUS
  <2>1. CASE other \in Ids(statuses)
    BY <1>5, <2>1
  <2>2. CASE other \notin Ids(statuses)
    <3>1. \A later \in Ids(statuses) : other < later
      BY <1>0, <2>2
    <3>2. id \notin Ids(statuses) => other < id
      BY <1>0, <1>2, <1>3, <1>5
    <3>. QED BY <1>7, <3>1, <3>2
  <2>. QED BY <2>1, <2>2
<1>9. Open(k)' = Open(k)
  BY DEF Open
<1>10. \A r \in Open(k) : r \in Ids(new) \/ Noting(k, r)'
  BY <1>0, <1>5, <1>6 DEF Open
<1>11. store'[k].results = results /\ store'[k].statuses = new
  BY <1>1
<1>12. \A e \in Entries(results) :
         /\ e.id <= job'[k] /\ (Unresolved(k)' => e.id # job'[k])
         /\ e.value = (e.id \in succeeded'[k])
  BY <1>0
<1>13. Ids(results) \subseteq accepted'[k] /\ Ids(new) \subseteq accepted'[k]
  BY <1>0, <1>7
<1>. QED BY <1>0, <1>1, <1>5, <1>7, <1>8, <1>9, <1>10, <1>11, <1>12, <1>13 DEF Told

\* The result of the worker's request is published
LEMMA PublishKeepsTold ==
    ASSUME Inv, NEW k \in Kinds, History(k), Told(k), Publishes(k)
    PROVE  Told(k)'
<1>. DEFINE results == store[k].results
            statuses == store[k].statuses
            newResults == Put(results, job[k], ok[k])
            newStatuses == Put(statuses, job[k], "ready")
<1>0. /\ store[k] = [results |-> results, statuses |-> statuses]
      /\ Sound(results, BOOLEAN) /\ Sound(statuses, Statuses)
      /\ Ids(results) \subseteq accepted[k] /\ Ids(statuses) \subseteq accepted[k]
      /\ \A e \in Entries(results) :
            /\ e.id <= job[k] /\ (Unresolved(k) => e.id # job[k])
            /\ e.value = (e.id \in succeeded[k])
      /\ \A e \in Entries(statuses) : e.value = "ready" => e.id \in Ids(results)
      /\ \A other \in Ids(results) :
            other \in Ids(statuses) \/ \A later \in Ids(statuses) : other < later
      /\ \A r \in Open(k) : r \in Ids(statuses) \/ Noting(k, r)
  BY DEF Told
<1>1. store'[k].results = newResults /\ store'[k].statuses = newStatuses
      /\ store'[k] = [results |-> newResults, statuses |-> newStatuses]
  BY DEF Publishes, PublishResult
<1>. HIDE DEF results, statuses
<1>2. /\ Unresolved(k) /\ ~Unresolved(k)' /\ job[k] \in accepted[k]
      /\ accepted[k] \subseteq Nat /\ job[k] \in Nat /\ slot[k] \in Nat /\ NoRequest = 0
      /\ slot[k] \in accepted[k] => job[k] < slot[k]
      /\ at[k] \notin 2..TransferAt[k] /\ ok[k] \in BOOLEAN
  BY KindFacts DEF Publishes, Moves, Advances, Unresolved, Inv, Types
<1>3. /\ slot'[k] = slot[k] /\ job'[k] = job[k] /\ accepted'[k] = accepted[k]
      /\ succeeded'[k] = succeeded[k] /\ web' = web
  BY DEF Publishes, Moves, SameRequests, SameOutcome
<1>4. \A old \in Ids(results) : old \in Nat /\ old < job[k]
  BY <1>0, <1>2, IdsOfEntries
<1>5. job[k] \in Ids(statuses) \/ \A old \in Ids(statuses) : old < job[k]
  <2>1. job[k] \in Open(k)
    BY <1>2 DEF Open
  <2>2. CASE Noting(k, job[k])
    BY <1>0, <1>2, <2>2, WebIsNewest DEF Noting
  <2>. QED BY <1>0, <2>1, <2>2
<1>6. /\ Sound(newResults, BOOLEAN) /\ job[k] \in Ids(newResults)
      /\ \A e \in Entries(newResults) :
            \/ e = [id |-> job[k], value |-> ok[k]]
            \/ e \in Entries(results) /\ e.id # job[k]
      /\ \A old \in Ids(results) : old \in Ids(newResults) \/
            /\ job[k] \notin Ids(results) /\ Len(results) = Capacity
            /\ \A other \in Ids(newResults) : old < other
            /\ \A other \in Ids(results) : old <= other
  <2>1. Sound(results, BOOLEAN) /\ job[k] \in Nat /\ ok[k] \in BOOLEAN
    BY <1>0, <1>2
  <2>2. \A old \in Ids(results) : old < job[k]
    BY <1>4
  <2>. HIDE DEF results
  <2>3. job[k] \in Ids(results) \/ \A old \in Ids(results) : old < job[k]
    BY <2>2
  <2>4. IsPut(BOOLEAN, results, job[k], ok[k])
    BY <2>1, <2>3, PutIs
  <2>. QED BY <2>4 DEF IsPut
<1>7. /\ Sound(newStatuses, Statuses) /\ job[k] \in Ids(newStatuses)
      /\ \A e \in Entries(newStatuses) :
            \/ e = [id |-> job[k], value |-> "ready"]
            \/ e \in Entries(statuses) /\ e.id # job[k]
      /\ \A old \in Ids(statuses) : old \in Ids(newStatuses) \/
            /\ job[k] \notin Ids(statuses) /\ Len(statuses) = Capacity
            /\ \A other \in Ids(newStatuses) : old < other
            /\ \A other \in Ids(statuses) : old <= other
  <2>1. Sound(statuses, Statuses) /\ job[k] \in Nat /\ "ready" \in Statuses
    BY <1>0, <1>2 DEF Statuses
  <2>2. IsPut(Statuses, statuses, job[k], "ready")
    BY <1>5, <2>1, PutIs
  <2>. QED BY <2>2 DEF IsPut
<1>8. \A r \in Open(k) : r \in Ids(statuses) => r \in Ids(newStatuses)
  <2>1. "ready" \in Statuses
    BY DEF Statuses
  <2>. QED BY <1>0, <1>2, <1>5, <2>1, OpenKeepsStatus
<1>. HIDE DEF newResults, newStatuses
<1>9. Ids(newResults) \subseteq Ids(results) \union {job[k]}
      /\ Ids(newStatuses) \subseteq Ids(statuses) \union {job[k]}
  BY <1>6, <1>7, IdsOfEntries
<1>10. \A e \in Entries(newResults) :
          /\ e.id <= job'[k] /\ (Unresolved(k)' => e.id # job'[k])
          /\ e.value = (e.id \in succeeded'[k])
  <2>1. ok[k] = (job[k] \in succeeded[k])
    BY <1>2 DEF History, Outcome
  <2>. QED BY <1>0, <1>2, <1>3, <1>6, <2>1
<1>11. \A e \in Entries(newStatuses) : e.value = "ready" => e.id \in Ids(newResults)
  <2>. SUFFICES ASSUME NEW e \in Entries(newStatuses), e.value = "ready",
                       e.id \notin Ids(newResults)
                PROVE  FALSE
    OBVIOUS
  <2>1. e \in Entries(statuses) /\ e.id \in Ids(results) /\ e.id \in Ids(newStatuses)
    BY <1>0, <1>6, <1>7, IdsOfEntries
  <2>2. Len(results) = Capacity /\ \A other \in Ids(results) : e.id <= other
    BY <1>6, <2>1
  <2>3. Ids(results) \subseteq Ids(statuses)
    <3>1. e.id \in Ids(statuses) /\ e.id \in Nat
      BY <1>4, <2>1, IdsOfEntries
    <3>. QED BY <1>0, <1>4, <2>2, <3>1
  <2>4. Ids(results) \subseteq Ids(newStatuses)
    BY <1>4, <1>7, <2>1, <2>2, <2>3
  <2>5. job[k] \notin Ids(results) /\ job[k] \in Ids(newStatuses)
    BY <1>4, <1>7
  <2>6. Len(results) < Capacity
    BY <1>0, <1>7, <2>4, <2>5, RoomForOneMore
  <2>. QED BY <2>2, <2>6, CapacityAssumption
<1>12. \A id \in Ids(newResults) :
          id \in Ids(newStatuses) \/ \A later \in Ids(newStatuses) : id < later
  <2>. SUFFICES ASSUME NEW id \in Ids(results), id \notin Ids(newStatuses)
                PROVE  \A later \in Ids(newStatuses) : id < later
    BY <1>7, <1>9
  <2>1. CASE id \in Ids(statuses)
    BY <1>7, <2>1
  <2>2. CASE id \notin Ids(statuses)
    <3>1. \A later \in Ids(statuses) : id < later
      BY <1>0, <2>2
    <3>. QED BY <1>4, <1>9, <3>1
  <2>. QED BY <2>1, <2>2
<1>13. \A r \in Open(k)' : r \in Ids(newStatuses) \/ Noting(k, r)'
  <2>1. \A r \in Open(k)' : r \in Open(k)
    BY <1>2, <1>3 DEF Open
  <2>. QED BY <1>0, <1>3, <1>8, <2>1 DEF Noting
<1>14. Ids(newResults) \subseteq accepted'[k] /\ Ids(newStatuses) \subseteq accepted'[k]
  BY <1>0, <1>2, <1>3, <1>9
<1>. QED BY <1>1, <1>6, <1>7, <1>10, <1>11, <1>12, <1>13, <1>14 DEF Told

\* A client takes its result
LEMMA TakeKeepsTold ==
    ASSUME Inv, NEW k \in Kinds, History(k), Told(k), Takes(k)
    PROVE  Told(k)'
<1>. DEFINE results == store[k].results
            statuses == store[k].statuses
<1>0. /\ Sound(results, BOOLEAN) /\ Sound(statuses, Statuses)
      /\ Ids(results) \subseteq accepted[k] /\ Ids(statuses) \subseteq accepted[k]
      /\ \A e \in Entries(results) :
            /\ e.id <= job[k] /\ (Unresolved(k) => e.id # job[k])
            /\ e.value = (e.id \in succeeded[k])
      /\ \A e \in Entries(statuses) : e.value = "ready" => e.id \in Ids(results)
      /\ \A other \in Ids(results) :
            other \in Ids(statuses) \/ \A later \in Ids(statuses) : other < later
      /\ \A r \in Open(k) : r \in Ids(statuses) \/ Noting(k, r)
  BY DEF Told
<1>1. PICK id \in Ids(results) : store'[k] = Take(store[k], id)
  BY DEF Takes
<1>. DEFINE newResults == Without(results, id)
            newStatuses == Without(statuses, id)
<1>2. store'[k].results = newResults /\ store'[k].statuses = newStatuses
      /\ store'[k] = [results |-> newResults, statuses |-> newStatuses]
  BY <1>1 DEF Take
<1>. HIDE DEF results, statuses
<1>3. /\ Sound(newResults, BOOLEAN) /\ Sound(newStatuses, Statuses)
      /\ Entries(newResults) = {e \in Entries(results) : e.id # id}
      /\ Entries(newStatuses) = {e \in Entries(statuses) : e.id # id}
      /\ Ids(newResults) = Ids(results) \ {id} /\ Ids(newStatuses) = Ids(statuses) \ {id}
  BY <1>0, WithoutSound
<1>. HIDE DEF newResults, newStatuses
<1>4. /\ slot'[k] = slot[k] /\ job'[k] = job[k] /\ accepted'[k] = accepted[k]
      /\ succeeded'[k] = succeeded[k] /\ at'[k] = at[k] /\ web' = web /\ web.pc = "idle"
  BY DEF Takes, Stays, SameRequests, SameOutcome
<1>5. Open(k)' = Open(k) /\ Unresolved(k)' = Unresolved(k)
  BY <1>4 DEF Open, Unresolved
<1>6. id \notin Open(k)
  <2>1. \E e \in Entries(results) : e.id = id
    BY <1>1, IdsOfEntries
  <2>. QED BY <1>0, <2>1, KindFacts DEF Open
<1>7. \A r \in Open(k)' : r \in Ids(newStatuses) \/ Noting(k, r)'
  BY <1>0, <1>3, <1>4, <1>5, <1>6 DEF Noting
<1>8. \A e \in Entries(newResults) :
         /\ e.id <= job'[k] /\ (Unresolved(k)' => e.id # job'[k])
         /\ e.value = (e.id \in succeeded'[k])
  BY <1>0, <1>3, <1>4, <1>5
<1>9. \A e \in Entries(newStatuses) : e.value = "ready" => e.id \in Ids(newResults)
  BY <1>0, <1>3
<1>10. \A other \in Ids(newResults) :
          other \in Ids(newStatuses) \/ \A later \in Ids(newStatuses) : other < later
  BY <1>0, <1>3
<1>11. Ids(newResults) \subseteq accepted'[k] /\ Ids(newStatuses) \subseteq accepted'[k]
  BY <1>0, <1>3, <1>4
<1>. QED BY <1>2, <1>3, <1>7, <1>8, <1>9, <1>10, <1>11 DEF Told

\* The steps that leave kind k's part of the store alone
LEMMA OthersKeepTold ==
    ASSUME Inv, NEW k \in Kinds, History(k), Told(k),
           Accepts(k) \/ Pops(k) \/ Transfers(k) \/ MovesOnly(k) \/ StaysOnly(k)
    PROVE  Told(k)'
<1>. DEFINE results == store[k].results
            statuses == store[k].statuses
<1>0. /\ store[k] = [results |-> results, statuses |-> statuses]
      /\ Sound(results, BOOLEAN) /\ Sound(statuses, Statuses)
      /\ Ids(results) \subseteq accepted[k] /\ Ids(statuses) \subseteq accepted[k]
      /\ \A e \in Entries(results) :
            /\ e.id <= job[k] /\ (Unresolved(k) => e.id # job[k])
            /\ e.value = (e.id \in succeeded[k])
      /\ \A e \in Entries(statuses) : e.value = "ready" => e.id \in Ids(results)
      /\ \A other \in Ids(results) :
            other \in Ids(statuses) \/ \A later \in Ids(statuses) : other < later
      /\ \A r \in Open(k) : r \in Ids(statuses) \/ Noting(k, r)
  BY DEF Told
<1>1. store'[k] = store[k]
  BY DEF Accepts, Pops, Transfers, MovesOnly, StaysOnly
<1>2. store'[k].results = results /\ store'[k].statuses = statuses
  BY <1>1
<1>. HIDE DEF results, statuses
<1>. SUFFICES /\ accepted[k] \subseteq accepted'[k]
              /\ \A e \in Entries(results) :
                    /\ e.id <= job'[k] /\ (Unresolved(k)' => e.id # job'[k])
                    /\ e.value = (e.id \in succeeded'[k])
              /\ \A r \in Open(k)' : r \in Ids(statuses) \/ Noting(k, r)'
  BY <1>0, <1>1, <1>2 DEF Told
<1>3. /\ \A e \in Entries(results) : e.id \in accepted[k]
      /\ accepted[k] \subseteq Nat \ {0}
  BY <1>0, KindFacts, IdsOfEntries
<1>4. CASE Accepts(k)
  BY <1>0, <1>4 DEF Accepts, SameOutcome, Unresolved, Open, Noting
<1>5. CASE Pops(k)
  <2>1. slot[k] \in Open(k) /\ ~Unresolved(k) /\ job[k] < slot[k] /\ slot[k] \in Nat
        /\ job[k] \in Nat /\ NoRequest \notin accepted[k]
    BY <1>5, KindFacts DEF Pops, Open, Unresolved
  <2>2. Open(k)' \subseteq {slot[k]}
    BY <1>5, <2>1 DEF Pops, Open
  <2>. QED BY <1>0, <1>3, <1>5, <2>1, <2>2 DEF Pops, SameOutcome, Noting
<1>6. CASE Transfers(k)
  <2>1. Unresolved(k) /\ Unresolved(k)'
    BY <1>6, KindFacts DEF Transfers, Advances, Unresolved
  <2>. QED BY <1>0, <1>6, <2>1 DEF Transfers, SameRequests, Open, Noting
<1>7. CASE MovesOnly(k)
  <2>1. Unresolved(k)' <=> Unresolved(k)
    BY <1>7, KindFacts DEF MovesOnly, Moves, Advances, Unresolved
  <2>. QED BY <1>0, <1>7, <2>1 DEF MovesOnly, Moves, SameRequests, SameOutcome, Open, Noting
<1>8. CASE StaysOnly(k)
  BY <1>0, <1>8
     DEF StaysOnly, Stays, SameRequests, SameOutcome, Unresolved, Open, Noting
<1>. QED BY <1>4, <1>5, <1>6, <1>7, <1>8

LEMMA StepKeepsTold ==
    ASSUME Inv, Inv', DOMAIN store = Kinds, [Next]_vars, NEW k \in Kinds,
           History(k), Told(k)
    PROVE  Told(k)'
<1>1. CASE NotesQueued(k)
  <2>1. /\ slot'[k] = slot[k] /\ job'[k] = job[k] /\ accepted'[k] = accepted[k]
        /\ succeeded'[k] = succeeded[k] /\ at'[k] = at[k]
        /\ Noting(k, web.id) /\ store'[k] = Note(store[k], web.id, "queued")
        /\ \A r \in accepted[k] : Noting(k, r) => r = web.id
    BY <1>1 DEF NotesQueued, Stays, SameRequests, SameOutcome, Noting
  <2>2. web.id \in accepted[k]
    BY <1>1 DEF NotesQueued, Inv, Submission
  <2>3. Unresolved(k)' <=> Unresolved(k)
    BY <2>1 DEF Unresolved
  <2>. QED BY <2>1, <2>2, <2>3, NoteKeepsTold
<1>2. CASE NotesWorking(k)
  <2>1. /\ slot'[k] = slot[k] /\ job'[k] = job[k] /\ accepted'[k] = accepted[k]
        /\ succeeded'[k] = succeeded[k] /\ web' = web
        /\ at[k] # 1 /\ at[k] < ResultAt[k] /\ Advances(k)
        /\ store'[k] = Note(store[k], job[k], "working")
    BY <1>2 DEF NotesWorking, Moves, SameRequests, SameOutcome
  <2>2. Unresolved(k) /\ Unresolved(k)'
    BY <2>1, KindFacts DEF Advances, Unresolved
  <2>3. \A r \in accepted[k] : Noting(k, r) => Noting(k, r)'
    BY <2>1 DEF Noting
  <2>4. job[k] \in accepted[k]
    BY <2>1, KindFacts
  <2>. QED BY <2>1, <2>2, <2>3, <2>4, NoteKeepsTold
<1>3. CASE Restart
  <2>1. store'[k] = [results |-> <<>>, statuses |-> <<>>] /\ accepted'[k] = {}
    BY <1>3 DEF Restart, EmptyBox
  <2>. QED BY <2>1, EmptySound DEF Told, Open
<1>. QED BY <1>1, <1>2, <1>3, KindStep, PublishKeepsTold, TakeKeepsTold, OthersKeepTold

-----------------------------------------------------------------------------
(* The other variables *)

Notices == [kind : {"none", "queued", "started", "progress", "finished", "reboot"},
            id : MaybeRequest, ok : BOOLEAN]
Views == [id : MaybeRequest, busy : BOOLEAN,
          stage : {"idle", "queued", "working", "done", "failed", "reboot"}]

Shapes ==
    /\ mailbox \in [Kinds -> Notices] /\ snapshot \in [Kinds -> Views]
    /\ store = [k \in Kinds |-> store[k]]
    /\ web.id \in MaybeRequest
    /\ mqtt \in {"started", "stopped", "released"}
    /\ paused \in BOOLEAN /\ mqttFailed \in BOOLEAN /\ rebootDue \in BOOLEAN

LEMMA ShapesInitially == Init => Shapes
<1>. SUFFICES ASSUME Init PROVE Shapes
  OBVIOUS
<1>1. /\ NoUpdate \in Notices /\ NoRequest \in MaybeRequest /\ IdleWeb.id \in MaybeRequest
      /\ [id |-> NoRequest, stage |-> "idle", busy |-> FALSE] \in Views
  BY DEF NoUpdate, Notices, Views, MaybeRequest, IdleWeb
<1>2. store = [k \in Kinds |-> store[k]]
  BY DEF Init
<1>. QED BY <1>1, <1>2 DEF Init, Shapes

LEMMA UpdatesAreNotices ==
    \A id \in MaybeRequest :
        /\ \A kind \in {"none", "queued", "started", "progress", "reboot"} :
              Update(kind, id) \in Notices
        /\ \A success \in BOOLEAN :
              [kind |-> "finished", id |-> id, ok |-> success] \in Notices
BY DEF Update, Notices

\* What the runtime task takes over into the snapshot
LEMMA AppliedShape ==
    ASSUME Shapes, NEW k \in Kinds, mailbox[k].kind # "none"
    PROVE  Applied(snapshot[k], mailbox[k]) \in Views
<1>. DEFINE shown == snapshot[k]
            update == mailbox[k]
<1>1. /\ update.id \in MaybeRequest /\ update.ok \in BOOLEAN
      /\ update.kind \in {"queued", "started", "progress", "finished", "reboot"}
      /\ shown.busy \in BOOLEAN
      /\ shown.stage \in {"idle", "queued", "working", "done", "failed", "reboot"}
  <2>1. update \in Notices /\ shown \in Views
    BY DEF Shapes
  <2>. HIDE DEF shown
  <2>2. shown.busy \in BOOLEAN
        /\ shown.stage \in {"idle", "queued", "working", "done", "failed", "reboot"}
    BY <2>1 DEF Views
  <2>3. /\ update.id \in MaybeRequest /\ update.ok \in BOOLEAN
        /\ update.kind \in {"queued", "started", "progress", "finished", "reboot"}
    BY <2>1 DEF Notices
  <2>. QED BY <2>2, <2>3
<1>. HIDE DEF shown, update
<1>2. Applied(shown, update) \in Views
  BY <1>1 DEF Applied, Views
<1>. QED BY <1>2 DEF shown, update

LEMMA StepKeepsShapes ==
    ASSUME Inv, Inv', \A k \in Kinds : History(k), Shapes, [Next]_vars
    PROVE  Shapes'
<1>. USE DEF managerVars, workerVars, statusVars, webVars, deviceVars
<1>0. /\ \A k \in Kinds : job[k] \in MaybeRequest /\ ok[k] \in BOOLEAN
      /\ web.pc # "idle" => web.id \in Requests
  BY IdsAreRequests DEF MaybeRequest, Inv, Types, History, Order
<1>1. ASSUME NEW k \in Kinds, WorkerStep(k) PROVE Shapes'
  <2>1. web' = web /\ snapshot' = snapshot
    BY <1>1 DEF WorkerStep, Pop, BecomeBusy, PublishStarted, NoteWorking, PauseMqtt,
                EndTransfer, ResumeMqtt, PublishFinished, BecomeFree, QueueResult,
                ScheduleReboot
  <2>2. store' = [m \in Kinds |-> store'[m]]
    BY <1>1 DEF WorkerStep, Pop, BecomeBusy, PublishStarted, NoteWorking, PauseMqtt,
                EndTransfer, ResumeMqtt, PublishFinished, BecomeFree, QueueResult,
                ScheduleReboot, Shapes
  <2>3. mailbox' \in [Kinds -> Notices]
    BY <1>0, <1>1, UpdatesAreNotices
       DEF WorkerStep, Pop, BecomeBusy, PublishStarted, NoteWorking, PauseMqtt,
           EndTransfer, ResumeMqtt, PublishFinished, BecomeFree, QueueResult,
           ScheduleReboot, Shapes
  <2>4. /\ mqtt' \in {"started", "stopped", "released"}
        /\ paused' \in BOOLEAN /\ mqttFailed' \in BOOLEAN /\ rebootDue' \in BOOLEAN
    BY <1>1 DEF WorkerStep, Pop, BecomeBusy, PublishStarted, NoteWorking, PauseMqtt,
                EndTransfer, ResumeMqtt, PublishFinished, BecomeFree, QueueResult,
                ScheduleReboot, Shapes
  <2>. QED BY <2>1, <2>2, <2>3, <2>4 DEF Shapes
<1>2. ASSUME NEW k \in Kinds, ApplyStatus(k) PROVE Shapes'
  <2>1. NoUpdate \in Notices
    BY DEF NoUpdate, Notices, MaybeRequest
  <2>. QED BY <1>2, <2>1, AppliedShape DEF ApplyStatus, Shapes
<1>3. ASSUME NEW k \in Kinds, Progress(k) PROVE Shapes'
  BY <1>0, <1>3, UpdatesAreNotices DEF Progress, Shapes
<1>4. ASSUME NEW k \in Kinds, NEW id \in Requests, TakeResult(k, id) PROVE Shapes'
  BY <1>4 DEF TakeResult, Shapes
<1>5. CASE \/ ReadOtherBusy \/ ReadOtherPending \/ Refuse \/ Accept
           \/ NoteQueued \/ PublishQueued
  <2>1. web.kind \in Kinds /\ web.pc # "idle"
    BY <1>5 DEF Inv, Types, ReadOtherBusy, ReadOtherPending, Refuse, Accept, NoteQueued,
                PublishQueued
  <2>2. web'.id \in MaybeRequest
    BY <1>0, <1>5, <2>1
       DEF ReadOtherBusy, ReadOtherPending, Refuse, Accept, NoteQueued, PublishQueued,
           WebAt, IdleWeb, MaybeRequest, Inv, Types
  <2>3. UNCHANGED <<snapshot, deviceVars>>
    BY <1>5 DEF ReadOtherBusy, ReadOtherPending, Refuse, Accept, NoteQueued, PublishQueued
  <2>4. store' = [m \in Kinds |-> store'[m]]
    BY <1>5 DEF ReadOtherBusy, ReadOtherPending, Refuse, Accept, NoteQueued,
                PublishQueued, Shapes
  <2>5. mailbox' \in [Kinds -> Notices]
    BY <1>0, <1>5, <2>1, UpdatesAreNotices
       DEF ReadOtherBusy, ReadOtherPending, Refuse, Accept, NoteQueued, PublishQueued,
           Shapes, MaybeRequest
  <2>. QED BY <2>2, <2>3, <2>4, <2>5 DEF Shapes
<1>6. ASSUME NEW k \in Kinds, Submit(k) PROVE Shapes'
  <2>1. nextId \in Requests
    BY <1>6, UpdatesAssumption DEF Submit, Inv, Types, Requests
  <2>. QED BY <1>6, <2>1 DEF Submit, Shapes, MaybeRequest
<1>7. CASE Restart
  <2>1. /\ NoUpdate \in Notices /\ IdleWeb.id \in MaybeRequest
        /\ [id |-> NoRequest, stage |-> "idle", busy |-> FALSE] \in Views
    BY DEF NoUpdate, Notices, Views, MaybeRequest, IdleWeb
  <2>2. store' = [k \in Kinds |-> store'[k]]
    BY <1>7 DEF Restart
  <2>. QED BY <1>7, <2>1, <2>2 DEF Restart, Shapes
<1>8. CASE UNCHANGED vars
  BY <1>8 DEF vars, Shapes
<1>. QED BY <1>1, <1>2, <1>3, <1>4, <1>5, <1>6, <1>7, <1>8 DEF Next

ClientsInv == Inv /\ Shapes /\ \A k \in Kinds : History(k) /\ Told(k)

LEMMA ClientsInvariant == Spec => []ClientsInv
<1>1. Init => ClientsInv
  BY Initially, ShapesInitially, HistoryInitially, ToldInitially DEF ClientsInv
<1>2. ClientsInv /\ [Next]_vars => ClientsInv'
  <2>. SUFFICES ASSUME ClientsInv, [Next]_vars PROVE ClientsInv'
    OBVIOUS
  <2>1. Inv /\ Inv' /\ DOMAIN store = Kinds
    BY StepKeepsInv DEF ClientsInv, Shapes
  <2>2. \A k \in Kinds : History(k)'
    BY <2>1, StepKeepsHistory DEF ClientsInv
  <2>3. \A k \in Kinds : Told(k)'
    BY <2>1, StepKeepsTold DEF ClientsInv
  <2>4. Shapes'
    BY <2>1, StepKeepsShapes DEF ClientsInv
  <2>. QED BY <2>1, <2>2, <2>3, <2>4 DEF ClientsInv
<1>. QED BY <1>1, <1>2, PTL DEF Spec

\* A queue of the store as TypeOK has it
LEMMA SoundIsQueue ==
    ASSUME NEW V, NEW queue, Sound(queue, V), Ids(queue) \subseteq Requests
    PROVE  queue \in UNION {[1..n -> [id : Requests, value : V]] : n \in 0..Capacity}
<1>1. /\ queue = [i \in 1..Len(queue) |-> queue[i]] /\ Len(queue) \in 0..Capacity
      /\ \A i \in 1..Len(queue) : queue[i] \in [id : Nat, value : V]
      /\ \A i \in 1..Len(queue) : queue[i].id \in Requests
  <2>1. Len(queue) \in Nat /\ Len(queue) <= Capacity
    BY SoundIsIndexed DEF Sound
  <2>. QED BY <2>1, SoundIsIndexed, CapacityAssumption DEF Ids
<1>2. \A i \in 1..Len(queue) : queue[i] \in [id : Requests, value : V]
  BY <1>1
<1>3. queue \in [1..Len(queue) -> [id : Requests, value : V]]
  BY <1>1, <1>2
<1>. QED BY <1>1, <1>3

\* TypeOK holds in every state: the queues of the store keep to their capacity
\* and hold nothing but results and poll statuses of requests
THEOREM UpdatesTypeCorrect == Spec => []TypeOK
<1>1. ClientsInv => TypeOK
  <2>. SUFFICES ASSUME ClientsInv PROVE TypeOK
    OBVIOUS
  <2>. USE DEF ClientsInv
  <2>1. /\ accepted \in [Kinds -> SUBSET Requests]
        /\ succeeded \in [Kinds -> SUBSET Requests]
        /\ slot \in [Kinds -> MaybeRequest] /\ job \in [Kinds -> MaybeRequest]
    BY IdsAreRequests
       DEF Inv, Types, Manager, History, Order, Outcome, MaybeRequest
  <2>2. at \in [Kinds -> Nat \ {0}] /\ \A k \in Kinds : at[k] <= Len(Program[k])
    BY Lengths DEF Inv, Types
  <2>3. store \in [Kinds -> [results : Queues, statuses : StatusQueues]]
    <3>. SUFFICES ASSUME NEW k \in Kinds
                  PROVE  store[k] \in [results : Queues, statuses : StatusQueues]
      BY DEF Shapes
    <3>1. /\ store[k] = [results |-> store[k].results, statuses |-> store[k].statuses]
          /\ Sound(store[k].results, BOOLEAN) /\ Sound(store[k].statuses, Statuses)
          /\ Ids(store[k].results) \subseteq Requests
          /\ Ids(store[k].statuses) \subseteq Requests
      BY <2>1 DEF Told
    <3>2. store[k].results \in Queues
      BY <3>1, SoundIsQueue DEF Queues
    <3>3. store[k].statuses \in StatusQueues
      BY <3>1, SoundIsQueue DEF StatusQueues, Statuses
    <3>. QED BY <3>1, <3>2, <3>3
  <2>4. nextId \in 1..MaxRequests + 1
    BY UpdatesAssumption DEF Inv, Types, Submission
  <2>5. web \in [pc : {"idle", "otherBusy", "otherPending", "enqueue", "note",
                       "publish"}, kind : Kinds, id : MaybeRequest]
    BY DEF Inv, Types, Shapes
  <2>. QED BY <2>1, <2>2, <2>3, <2>4, <2>5 DEF TypeOK, Inv, Types, Shapes, Notices, Views
<1>. QED BY <1>1, ClientsInvariant, PTL

\* ReadyHasResult holds in every state: a client that is told its result is
\* ready finds it, and it tells how the client's own request ended
THEOREM ReadyResultsAreThere == Spec => []ReadyHasResult
<1>1. ClientsInv => ReadyHasResult
  <2>. SUFFICES ASSUME ClientsInv, NEW k \in Kinds
                PROVE  /\ \A e \in Entries(store[k].statuses) :
                             e.value = "ready" => e.id \in Ids(store[k].results)
                       /\ \A e \in Entries(store[k].results) :
                             /\ Phase(k, e.id) = "ended"
                             /\ e.value = (e.id \in succeeded[k])
    BY DEF ReadyHasResult, Entries
  <2>1. /\ \A e \in Entries(store[k].statuses) :
              e.value = "ready" => e.id \in Ids(store[k].results)
        /\ \A e \in Entries(store[k].results) :
              /\ e.id <= job[k] /\ (Unresolved(k) => e.id # job[k])
              /\ e.value = (e.id \in succeeded[k]) /\ e.id \in accepted[k]
    BY IdsOfEntries DEF ClientsInv, Told
  <2>2. ASSUME NEW e \in Entries(store[k].results) PROVE Phase(k, e.id) = "ended"
    <3>1. /\ e.id \in accepted[k] /\ e.id <= job[k] /\ Unresolved(k) => e.id # job[k]
      BY <2>1
    <3>2. e.id # slot[k]
      BY <2>1, KindFacts DEF ClientsInv
    <3>3. Running(k) => Unresolved(k)
      BY Running_ DEF ClientsInv, Inv, RunningAt, Unresolved, ResultAt, Kinds
    <3>. QED BY <2>1, <3>2, <3>3 DEF Phase
  <2>. QED BY <2>1, <2>2
<1>. QED BY <1>1, ClientsInvariant, PTL

\* AcceptedIsVisible holds in every state: a client that polls for a request
\* is told that it is on its way until its result is there
THEOREM AcceptedRequestsAreVisible == Spec => []AcceptedIsVisible
<1>1. ClientsInv => AcceptedIsVisible
  <2>. SUFFICES ASSUME ClientsInv, NEW k \in Kinds, NEW r \in Requests,
                       \/ r = slot[k]
                       \/ r = job[k] /\ (Running(k) \/ Step(k) \in {"finished", "result"}),
                       web.id # r \/ web.pc # "note"
                PROVE  PollStatus(store[k], r) # "notready"
    BY DEF AcceptedIsVisible
  <2>1. Running(k) \/ Step(k) \in {"finished", "result"} => Unresolved(k)
    BY Running_ DEF ClientsInv, Inv, Types, RunningAt, Unresolved, ResultAt, Kinds, Step,
                    Program, Last
  <2>2. r \in Open(k)
    BY <2>1, KindFacts DEF ClientsInv, Open, Requests, Unresolved
  <2>3. r \in Ids(store[k].statuses) /\ Sound(store[k].statuses, Statuses)
    BY <2>2 DEF ClientsInv, Told, Noting
  <2>. DEFINE statuses == store[k].statuses
              found == CHOOSE entry \in {statuses[i] : i \in DOMAIN statuses} :
                           entry.id = r
  <2>4. found \in Entries(statuses)
    <3>1. \E entry \in Entries(statuses) : entry.id = r
      BY <2>3, IdsOfEntries
    <3>. QED BY <3>1 DEF Entries
  <2>5. found.value \in Statuses
    <3>. HIDE DEF found
    <3>. QED BY <2>3, <2>4, SoundIsIndexed DEF Entries
  <2>. QED BY <2>3, <2>5 DEF PollStatus, Statuses
<1>. QED BY <1>1, ClientsInvariant, PTL

-----------------------------------------------------------------------------
(* What the API shows of the co-processor's updates *)

\* The web server announces a request while it waits: the worker needs the lock
Announced ==
    web.kind = "rcp" /\ web.pc \in {"note", "publish"} => slot["rcp"] = web.id

\* When the worker has said that it has finished, and no further request
\* waits, nothing overwrites this but the runtime that takes it
Shown ==
    at["rcp"] \in {1, 8} /\ slot["rcp"] = NoRequest /\ accepted["rcp"] # {} =>
        \/ mailbox["rcp"] = [kind |-> "finished", id |-> job["rcp"], ok |-> ok["rcp"]]
        \/ /\ mailbox["rcp"].kind = "none"
           /\ snapshot["rcp"] = [id |-> job["rcp"], busy |-> FALSE,
                                 stage |-> IF ok["rcp"] THEN "done" ELSE "failed"]

RcpInv == Announced /\ Shown

LEMMA RcpInitially == Init => RcpInv
BY DEF Init, RcpInv, Announced, Shown, Kinds, NoRequest, IdleWeb

LEMMA AcceptKeepsRcpInv == ASSUME Inv, Inv', RcpInv, Accept PROVE RcpInv'
<1>. USE DEF workerVars, statusVars, deviceVars
<1>1. CASE web.kind # "rcp"
  BY <1>1 DEF Accept, RcpInv, Announced, Shown, WebAt, Inv, Types, Kinds
<1>2. CASE web.kind = "rcp"
  <2>1. /\ slot'["rcp"] = web.id /\ web.id # NoRequest
        /\ web' = [web EXCEPT !.pc = "note"] /\ web'.id = web.id
    BY <1>2, WebIsNewest DEF Accept, WebAt, Inv, Types, Kinds
  <2>. QED BY <2>1 DEF RcpInv, Announced, Shown
<1>. QED BY <1>1, <1>2

\* The steps of the co-processor's worker
LEMMA WorkerKeepsRcpInv ==
    ASSUME Inv, Inv', RcpInv, WorkerStep("rcp")
    PROVE  RcpInv'
<1>. USE DEF managerVars, workerVars, statusVars, webVars, deviceVars
<1>0. "rcp" \in Kinds /\ Types /\ at["rcp"] \in 1..8 /\ Last["rcp"] = 8
  BY DEF Kinds, Inv, Types, Last
<1>1. CASE Pop("rcp")
  <2>1. Does("rcp", "pop") /\ ~EnqueueHoldsLock("rcp")
    BY <1>1 DEF Pop
  <2>2. at["rcp"] = 1 /\ at'["rcp"] = 2
    BY <1>0, <2>1, Running_, Advance
  <2>3. web' = web /\ ~ (web.kind = "rcp" /\ web.pc \in {"note", "publish"})
    BY <1>1, <2>1 DEF Pop, EnqueueHoldsLock
  <2>. QED BY <2>2, <2>3 DEF RcpInv, Announced, Shown
<1>2. CASE PublishFinished("rcp")
  <2>1. Does("rcp", "finished")
    BY <1>2 DEF PublishFinished
  <2>2. at["rcp"] = 7 /\ at'["rcp"] = 8
    BY <1>0, <2>1, Advance DEF Program
  <2>3. /\ UNCHANGED <<slot, job, ok, web>>
        /\ mailbox'["rcp"] = [kind |-> "finished", id |-> job["rcp"], ok |-> ok["rcp"]]
    BY <1>0, <1>2 DEF PublishFinished, Types
  <2>. QED BY <2>2, <2>3 DEF RcpInv, Announced, Shown
<1>3. CASE QueueResult("rcp")
  <2>1. Does("rcp", "result")
    BY <1>3 DEF QueueResult
  <2>2. at["rcp"] = 8 /\ at'["rcp"] = 1
    BY <1>0, <2>1, Advance DEF Program
  <2>. QED BY <1>3, <2>2 DEF QueueResult, RcpInv, Announced, Shown
<1>4. CASE \/ BecomeBusy("rcp") \/ PublishStarted("rcp") \/ NoteWorking("rcp")
           \/ BecomeFree("rcp") \/ EndTransfer("rcp")
  <2>. DEFINE Others == {"busy", "started", "working", "free", "transfer"}
  <2>1. PICK step \in Others : Does("rcp", step)
    BY <1>4 DEF BecomeBusy, PublishStarted, NoteWorking, BecomeFree, EndTransfer
  <2>2. at'["rcp"] \notin {1, 8}
    BY <1>0, <2>1, Advance DEF Program
  <2>3. UNCHANGED <<slot, web>>
    BY <1>4 DEF BecomeBusy, PublishStarted, NoteWorking, BecomeFree, EndTransfer
  <2>. QED BY <2>2, <2>3 DEF RcpInv, Announced, Shown
<1>5. ~ (PauseMqtt("rcp") \/ ResumeMqtt("rcp") \/ ScheduleReboot("rcp"))
  BY <1>0 DEF PauseMqtt, ResumeMqtt, ScheduleReboot, Does, Step, Program
<1>. QED BY <1>1, <1>2, <1>3, <1>4, <1>5 DEF WorkerStep

LEMMA StepKeepsRcpInv == Inv /\ Inv' /\ RcpInv /\ [Next]_vars => RcpInv'
<1>. SUFFICES ASSUME Inv, Inv', RcpInv, [Next]_vars PROVE RcpInv'
  OBVIOUS
<1>. USE DEF managerVars, workerVars, statusVars, webVars, deviceVars
<1>0. "rcp" \in Kinds
  BY DEF Kinds
<1>1. ASSUME WorkerStep("ota") PROVE RcpInv'
  <2>1. /\ UNCHANGED <<accepted, web, snapshot>> /\ slot'["rcp"] = slot["rcp"]
        /\ job'["rcp"] = job["rcp"] /\ at'["rcp"] = at["rcp"]
        /\ ok'["rcp"] = ok["rcp"] /\ mailbox'["rcp"] = mailbox["rcp"]
    BY <1>1 DEF WorkerStep, Pop, BecomeBusy, PublishStarted, NoteWorking, PauseMqtt,
                EndTransfer, ResumeMqtt, PublishFinished, BecomeFree, QueueResult,
                ScheduleReboot, Does, Inv, Types, Kinds
  <2>. QED BY <2>1 DEF RcpInv, Announced, Shown
<1>2. ASSUME NEW k \in Kinds, ApplyStatus(k) PROVE RcpInv'
  <2>1. UNCHANGED <<managerVars, workerVars, webVars>>
    BY <1>2 DEF ApplyStatus
  <2>2. CASE k = "ota"
    BY <1>2, <2>1, <2>2 DEF ApplyStatus, RcpInv, Announced, Shown, Inv, Types
  <2>3. CASE k = "rcp"
    <3>1. /\ mailbox["rcp"].kind # "none" /\ mailbox'["rcp"] = NoUpdate
          /\ snapshot'["rcp"] = Applied(snapshot["rcp"], mailbox["rcp"])
      BY <1>2, <2>3 DEF ApplyStatus, Inv, Types, Kinds
    <3>2. ASSUME mailbox["rcp"] =
                     [kind |-> "finished", id |-> job["rcp"], ok |-> ok["rcp"]]
          PROVE  snapshot'["rcp"] =
                     [id |-> job["rcp"], busy |-> FALSE,
                      stage |-> IF ok["rcp"] THEN "done" ELSE "failed"]
      BY <3>1, <3>2 DEF Applied
    <3>3. Shown'
      BY <2>1, <3>1, <3>2 DEF RcpInv, Shown, NoUpdate
    <3>. QED BY <2>1, <3>3 DEF RcpInv, Announced
  <2>. QED BY <2>2, <2>3 DEF Kinds
<1>3. ASSUME NoteQueued \/ PublishQueued PROVE RcpInv'
  <2>1. /\ UNCHANGED <<managerVars, workerVars, accepted, snapshot>>
        /\ web.pc \in {"note", "publish"}
        /\ web' = [web EXCEPT !.pc = "publish"] \/ web' = IdleWeb
        /\ web.kind # "rcp" => mailbox'["rcp"] = mailbox["rcp"]
    <3>1. CASE NoteQueued
      BY <3>1 DEF NoteQueued, WebAt
    <3>2. CASE PublishQueued
      BY <3>2, <1>0 DEF PublishQueued, WebAt, Inv, Types
    <3>. QED BY <1>3, <3>1, <3>2
  <2>2. web.kind = "rcp" => slot["rcp"] # NoRequest
    BY <2>1, WebIsNewest DEF RcpInv, Announced
  <2>3. Announced'
    BY <2>1 DEF RcpInv, Announced, IdleWeb, Inv, Types
  <2>4. Shown'
    BY <2>1, <2>2 DEF RcpInv, Shown
  <2>. QED BY <2>3, <2>4 DEF RcpInv
<1>4. ASSUME \/ ReadOtherBusy \/ ReadOtherPending \/ Refuse
             \/ \E k \in Kinds :
                   \/ Submit(k) \/ Progress(k)
                   \/ \E id \in Requests : TakeResult(k, id)
             \/ UNCHANGED vars
      PROVE  RcpInv'
  <2>1. /\ UNCHANGED <<managerVars, workerVars, accepted, snapshot>>
        /\ mailbox'["rcp"] = mailbox["rcp"]
        /\ web' = web \/ web'.pc \notin {"note", "publish"}
    <3>1. CASE ReadOtherBusy \/ ReadOtherPending \/ Refuse
      BY <3>1 DEF ReadOtherBusy, ReadOtherPending, Refuse, WebAt, IdleWeb, Inv, Types
    <3>2. ASSUME NEW k \in Kinds, NEW id \in Requests,
                 TakeResult(k, id)
          PROVE  /\ UNCHANGED <<managerVars, workerVars, accepted, snapshot>>
                 /\ mailbox'["rcp"] = mailbox["rcp"]
                 /\ web' = web \/ web'.pc \notin {"note", "publish"}
      BY <3>2 DEF TakeResult
    <3>3. ASSUME NEW k \in Kinds, Submit(k)
          PROVE  /\ UNCHANGED <<managerVars, workerVars, accepted, snapshot>>
                 /\ mailbox'["rcp"] = mailbox["rcp"]
                 /\ web' = web \/ web'.pc \notin {"note", "publish"}
      BY <3>3 DEF Submit
    <3>4. ASSUME NEW k \in Kinds, Progress(k)
          PROVE  /\ UNCHANGED <<managerVars, workerVars, accepted, snapshot, web>>
                 /\ mailbox'["rcp"] = mailbox["rcp"]
      BY <3>4, <1>0 DEF Progress, Inv, Types
    <3>5. CASE UNCHANGED vars
      BY <3>5 DEF vars
    <3>. QED BY <1>4, <3>1, <3>2, <3>3, <3>4, <3>5
  <2>. QED BY <2>1 DEF RcpInv, Announced, Shown
<1>5. CASE Restart
  BY <1>5 DEF Restart, RcpInv, Announced, Shown, Kinds, NoRequest, IdleWeb
<1>. QED BY <1>1, <1>2, <1>3, <1>4, <1>5, AcceptKeepsRcpInv, WorkerKeepsRcpInv
         DEF Next, Kinds

\* RcpSettles holds in every state: because the radio's manager announces a
\* request under the lock that its worker needs, the API ends up showing how
\* the last update of the co-processor ended
THEOREM RcpUpdatesSettle == Spec => []RcpSettles
<1>1. Inv /\ History("rcp") /\ RcpInv => RcpSettles
  <2>. SUFFICES ASSUME Inv, History("rcp"), RcpInv, Quiet("rcp") PROVE Settled("rcp")
    BY DEF RcpSettles, Settled
  <2>0. "rcp" \in Kinds
    BY DEF Kinds
  <2>1. /\ slot["rcp"] = NoRequest /\ at["rcp"] = 1 /\ accepted["rcp"] # {}
        /\ mailbox["rcp"].kind = "none"
    BY <2>0, Running_ DEF Quiet, Inv
  <2>2. /\ job["rcp"] \in accepted["rcp"]
        /\ \A r \in accepted["rcp"] : r \in Nat /\ r <= job["rcp"]
    BY <2>0, <2>1, KindFacts DEF History, Order
  <2>3. LastAccepted("rcp") = job["rcp"]
    BY <2>2 DEF LastAccepted
  <2>4. /\ snapshot["rcp"] = [id |-> job["rcp"], busy |-> FALSE,
                              stage |-> IF ok["rcp"] THEN "done" ELSE "failed"]
        /\ ok["rcp"] <=> job["rcp"] \in succeeded["rcp"]
    BY <2>1 DEF RcpInv, Shown, History, Outcome
  <2>. QED BY <2>3, <2>4 DEF Settled
<1>2. ClientsInv => Inv /\ History("rcp")
  BY DEF ClientsInv, Kinds
<1>. QED BY <1>1, <1>2, ClientsInvariant, RcpInitially, StepKeepsRcpInv, PTL DEF Spec

\* ClientsAreTold holds in every state, for any number of requests
THEOREM UpdateClientsAreTold == Spec => []ClientsAreTold
<1>1. TypeOK /\ ReadyHasResult /\ AcceptedIsVisible /\ RcpSettles => ClientsAreTold
  BY DEF ClientsAreTold
<1>. QED BY <1>1, UpdatesTypeCorrect, ReadyResultsAreThere, AcceptedRequestsAreVisible,
            RcpUpdatesSettle, PTL

-----------------------------------------------------------------------------
(* MQTT during an update of the gateway *)

\* There is a reason for MQTT not to run after the update
Excused == succeeded["ota"] # {} \/ mqttFailed

MqttInv ==
    /\ mqtt # "started" => at["ota"] \in {6, 7} \/ Excused
    /\ at["ota"] \in {6, 7} /\ ~paused => Excused

\* What a step does to MQTT: the worker pauses it, transfers, resumes it, or
\* the step does nothing to it
Pauses ==
    /\ at["ota"] = 5 /\ at'["ota"] = 6
    /\ paused' \/ mqttFailed' \/ mqtt = "released"
    /\ ~paused' => mqtt' = mqtt
    /\ mqttFailed => mqttFailed'
    /\ succeeded'["ota"] = succeeded["ota"]
Downloads ==
    /\ at["ota"] = 6 /\ at'["ota"] = 7
    /\ UNCHANGED <<mqtt, paused, mqttFailed>>
    /\ succeeded["ota"] \subseteq succeeded'["ota"]
Resumes ==
    /\ at["ota"] = 7 /\ at'["ota"] = 8
    /\ IF paused /\ ~ok["ota"] THEN mqttFailed' = (mqttFailed \/ mqtt' # "started")
                               ELSE UNCHANGED <<mqtt, mqttFailed>>
    /\ succeeded'["ota"] = succeeded["ota"]
LeavesMqtt ==
    /\ at["ota"] \in {6, 7} <=> at'["ota"] \in {6, 7}
    /\ UNCHANGED <<mqtt, paused, mqttFailed>>
    /\ succeeded'["ota"] = succeeded["ota"]

LEMMA MqttStep ==
    ASSUME ClientsInv, ClientsInv', [Next]_vars
    PROVE  Pauses \/ Downloads \/ Resumes \/ LeavesMqtt \/ Restart
<1>. USE DEF managerVars, workerVars, statusVars, webVars, deviceVars
<1>0. "ota" \in Kinds /\ Types /\ at["ota"] \in 1..11 /\ Last["ota"] = 11
  BY DEF Kinds, ClientsInv, Inv, Types, Last
<1>1. CASE PauseMqtt("ota")
  <2>1. Does("ota", "pause")
    BY <1>1 DEF PauseMqtt
  <2>2. at["ota"] = 5 /\ at'["ota"] = 6
    BY <1>0, <2>1, Advance DEF Program
  <2>3. mqtt \in {"started", "stopped", "released"}
    BY DEF ClientsInv, Shapes
  <2>. QED BY <1>1, <2>2, <2>3 DEF PauseMqtt, Pauses
<1>2. CASE EndTransfer("ota")
  <2>1. Does("ota", "transfer")
    BY <1>2 DEF EndTransfer
  <2>2. at["ota"] = 6 /\ at'["ota"] = 7
    BY <1>0, <2>1, Advance DEF Program
  <2>. QED BY <1>0, <1>2, <2>2 DEF EndTransfer, Types, Downloads
<1>3. CASE ResumeMqtt("ota")
  <2>1. Does("ota", "resume")
    BY <1>3 DEF ResumeMqtt
  <2>2. at["ota"] = 7 /\ at'["ota"] = 8
    BY <1>0, <2>1, Advance DEF Program
  <2>. QED BY <1>3, <2>2 DEF ResumeMqtt, Resumes
<1>4. CASE \/ Pop("ota") \/ BecomeBusy("ota") \/ PublishStarted("ota")
           \/ NoteWorking("ota") \/ PublishFinished("ota") \/ BecomeFree("ota")
           \/ QueueResult("ota") \/ ScheduleReboot("ota")
  <2>1. \E step \in {"pop", "busy", "started", "working", "finished", "free", "result",
                     "reboot"} : Does("ota", step)
    BY <1>4 DEF Pop, BecomeBusy, PublishStarted, NoteWorking, PublishFinished, BecomeFree,
                QueueResult, ScheduleReboot
  <2>2. at["ota"] \notin {5, 6, 7} /\ at'["ota"] \notin {6, 7}
    BY <1>0, <2>1, Advance DEF Program
  <2>. QED BY <1>4, <2>2
           DEF Pop, BecomeBusy, PublishStarted, NoteWorking, PublishFinished, BecomeFree,
               QueueResult, ScheduleReboot, LeavesMqtt
<1>5. ASSUME WorkerStep("rcp")
      PROVE  LeavesMqtt
  <2>1. ~ (PauseMqtt("rcp") \/ ResumeMqtt("rcp") \/ ScheduleReboot("rcp"))
    BY DEF PauseMqtt, ResumeMqtt, ScheduleReboot, Does, Step, Program, ClientsInv, Inv,
           Types, Kinds, Last
  <2>. QED BY <1>0, <1>5, <2>1
           DEF WorkerStep, Pop, BecomeBusy, PublishStarted, NoteWorking, EndTransfer,
               PublishFinished, BecomeFree, QueueResult, Does, Types, Kinds, LeavesMqtt
<1>6. CASE \/ ReadOtherBusy \/ ReadOtherPending \/ Refuse \/ Accept
           \/ NoteQueued \/ PublishQueued
           \/ \E k \in Kinds :
                 \/ Submit(k) \/ Progress(k) \/ ApplyStatus(k)
                 \/ \E id \in Requests : TakeResult(k, id)
           \/ UNCHANGED vars
  <2>1. UNCHANGED <<at, mqtt, paused, mqttFailed, succeeded>>
    BY <1>6 DEF ReadOtherBusy, ReadOtherPending, Refuse, Accept, NoteQueued, PublishQueued,
                Submit, Progress, ApplyStatus, TakeResult, vars
  <2>. QED BY <2>1 DEF LeavesMqtt
<1>. QED BY <1>1, <1>2, <1>3, <1>4, <1>5, <1>6 DEF Next, WorkerStep, Kinds

\* MqttComesBack holds in every state: MQTT stays stopped only during a
\* transfer, after a successful one, or when the HAL has failed
THEOREM MqttIsStarted == Spec => []MqttComesBack
<1>1. Init => MqttInv
  BY DEF Init, MqttInv, Kinds
<1>2. ClientsInv /\ ClientsInv' /\ MqttInv /\ [Next]_vars => MqttInv'
  <2>. SUFFICES ASSUME ClientsInv, ClientsInv', MqttInv, [Next]_vars PROVE MqttInv'
    OBVIOUS
  <2>1. CASE Pauses
    BY <2>1 DEF Pauses, MqttInv, Excused
  <2>2. CASE Downloads
    BY <2>2 DEF Downloads, MqttInv, Excused
  <2>3. CASE Resumes
    <3>1. ok["ota"] => succeeded["ota"] # {}
      BY <2>3 DEF Resumes, ClientsInv, History, Outcome, Kinds, TransferAt
    <3>2. CASE paused /\ ~ok["ota"]
      <4>1. mqttFailed' = (mqttFailed \/ mqtt' # "started") /\ at'["ota"] = 8
        BY <2>3, <3>2 DEF Resumes
      <4>2. mqtt' # "started" => mqttFailed'
        BY <4>1, Zenon
      <4>. QED BY <4>1, <4>2 DEF MqttInv, Excused
    <3>3. CASE ~(paused /\ ~ok["ota"])
      <4>1. /\ UNCHANGED <<mqtt, mqttFailed>> /\ at["ota"] = 7 /\ at'["ota"] = 8
            /\ succeeded'["ota"] = succeeded["ota"]
        BY <2>3, <3>3 DEF Resumes
      <4>. QED BY <3>1, <3>3, <4>1 DEF MqttInv, Excused
    <3>. QED BY <3>2, <3>3
  <2>4. CASE LeavesMqtt
    BY <2>4 DEF LeavesMqtt, MqttInv, Excused
  <2>5. CASE Restart
    BY <2>5 DEF Restart, MqttInv, Kinds
  <2>. QED BY <2>1, <2>2, <2>3, <2>4, <2>5, MqttStep
<1>3. ClientsInv /\ MqttInv => MqttComesBack
  <2>. SUFFICES ASSUME ClientsInv, MqttInv, at["ota"] \in {6, 7}
                PROVE  Step("ota") \in {"transfer", "resume"}
    BY DEF MqttInv, MqttComesBack, Excused
  <2>. QED BY DEF Step, Program
<1>. QED BY <1>1, <1>2, <1>3, ClientsInvariant, PTL DEF Spec

-----------------------------------------------------------------------------
(***************************************************************************)
(* The Wi-Fi's requests, NetworkOperations for any sizes that meet         *)
(* Network!Bounds: what is told of a scan.  Its clients ask in any order,  *)
(* and results need not come in the order of the ids.                      *)
(***************************************************************************)
CONSTANTS QueueBound, Limit, ConnectTimeout, Delay, Asked, Saves, MaxFaults

VARIABLES requests, box, posting, asked, lastId, scans, worker, scanning, task, connect,
          retry, next, connected, events, saved, mode, station, clients, told, hasIp, bits,
          faults

Network == INSTANCE NetworkOperations WITH busy <- scanning

-----------------------------------------------------------------------------
(* Queues of entries with ids in S and values in V, each id once           *)

Distinct(queue) == \A i, j \in DOMAIN queue : queue[i].id = queue[j].id => i = j

IsTable(queue, E) == queue \in Seq(E) /\ Distinct(queue)

\* The oldest entry of a full queue
IsNextOut(queue, id) == Capacity <= Len(queue) /\ queue[1].id = id

LEMMA TableIs ==
    ASSUME NEW E, NEW queue, IsTable(queue, E)
    PROVE  /\ Len(queue) \in Nat /\ DOMAIN queue = 1 .. Len(queue)
           /\ \A i \in 1 .. Len(queue) : queue[i] \in E
           /\ \A i, j \in 1 .. Len(queue) : queue[i].id = queue[j].id => i = j
BY DEF IsTable, Distinct

LEMMA TableTail ==
    ASSUME NEW E, NEW queue, IsTable(queue, E), Len(queue) # 0
    PROVE  /\ IsTable(Tail(queue), E)
           /\ \A id \in Ids(queue) : id \in Ids(Tail(queue)) \/ id = queue[1].id
           /\ Ids(Tail(queue)) \subseteq Ids(queue)
<1> DEFINE tail == Tail(queue)
           n == Len(queue)
<1>1. /\ n \in Nat \ {0} /\ DOMAIN queue = 1 .. n
      /\ \A i \in 1 .. n : queue[i] \in E
      /\ \A i, j \in 1 .. n : queue[i].id = queue[j].id => i = j
  BY TableIs
<1>2. /\ tail \in Seq(E) /\ Len(tail) = n - 1 /\ DOMAIN tail = 1 .. n - 1
      /\ \A i \in 1 .. n - 1 : tail[i] = queue[i + 1] /\ i + 1 \in 1 .. n
  BY <1>1 DEF IsTable
<1> HIDE DEF tail, n
<1>3. Distinct(tail)
  <2>1. ASSUME NEW i \in 1 .. n - 1, NEW j \in 1 .. n - 1, tail[i].id = tail[j].id
        PROVE  i = j
    <3>1. i + 1 = j + 1
      BY <1>1, <1>2, <2>1
    <3> QED BY <1>1, <3>1
  <2> QED BY <1>2, <2>1 DEF Distinct
<1>4. ASSUME NEW id \in Ids(queue), id # queue[1].id PROVE id \in Ids(tail)
  <2>1. PICK i \in 1 .. n : queue[i].id = id
    BY <1>1 DEF Ids
  <2>2. i # 1 /\ i - 1 \in 1 .. n - 1 /\ (i - 1) + 1 = i
    BY <1>1, <1>4, <2>1
  <2>3. tail[i - 1].id = id
    BY <1>2, <2>1, <2>2
  <2> QED BY <1>2, <2>2, <2>3 DEF Ids
<1>5. ASSUME NEW id \in Ids(tail) PROVE id \in Ids(queue)
  <2>1. PICK i \in 1 .. n - 1 : tail[i].id = id
    BY <1>2, <1>5 DEF Ids
  <2>2. i + 1 \in 1 .. n /\ queue[i + 1].id = id
    BY <1>2, <2>1
  <2> QED BY <1>1, <2>2 DEF Ids
<1>6. IsTable(tail, E)
  BY <1>2, <1>3 DEF IsTable
<1> QED BY <1>4, <1>5, <1>6 DEF tail

LEMMA TableAppend ==
    ASSUME NEW E, NEW queue, IsTable(queue, E), NEW entry \in E, entry.id \notin Ids(queue)
    PROVE  /\ IsTable(Append(queue, entry), E)
           /\ Ids(Append(queue, entry)) = Ids(queue) \cup {entry.id}
<1> DEFINE new == Append(queue, entry)
           n == Len(queue)
<1>1. /\ n \in Nat /\ DOMAIN queue = 1 .. n
      /\ \A i, j \in 1 .. n : queue[i].id = queue[j].id => i = j
  BY TableIs
<1>2. /\ new \in Seq(E) /\ DOMAIN new = 1 .. n + 1 /\ new[n + 1] = entry
      /\ \A i \in 1 .. n : new[i] = queue[i]
  BY <1>1 DEF IsTable
<1>3. \A i \in 1 .. n + 1 : i = n + 1 \/ i \in 1 .. n
  BY <1>1
<1>4. n + 1 \in 1 .. n + 1 /\ \A i \in 1 .. n : i \in 1 .. n + 1
  BY <1>1
<1> HIDE DEF new, n
<1>5. \A i \in 1 .. n : queue[i].id # entry.id
  BY <1>1 DEF Ids
<1>6. Distinct(new)
  <2>1. ASSUME NEW i \in 1 .. n + 1, NEW j \in 1 .. n + 1, new[i].id = new[j].id
        PROVE  i = j
    BY <1>1, <1>2, <1>3, <1>5, <2>1
  <2> QED BY <1>2, <2>1 DEF Distinct
<1>7. ASSUME NEW id \in Ids(new) PROVE id \in Ids(queue) \cup {entry.id}
  BY <1>1, <1>2, <1>3, <1>7 DEF Ids
<1>8. ASSUME NEW id \in Ids(queue) \cup {entry.id} PROVE id \in Ids(new)
  BY <1>1, <1>2, <1>4, <1>8 DEF Ids
<1>9. IsTable(new, E)
  BY <1>2, <1>6 DEF IsTable
<1> QED BY <1>7, <1>8, <1>9 DEF new

\* A full table loses its oldest entry, and only when an id is new to it
LEMMA TablePut ==
    ASSUME NEW E, NEW queue, IsTable(queue, E), NEW id, NEW value,
           [id |-> id, value |-> value] \in E
    PROVE  /\ IsTable(Put(queue, id, value), E) /\ id \in Ids(Put(queue, id, value))
           /\ \A old \in Ids(queue) :
                 \/ old \in Ids(Put(queue, id, value))
                 \/ IsNextOut(queue, old) /\ id \notin Ids(queue)
<1> DEFINE entry == [id |-> id, value |-> value]
           new == Put(queue, id, value)
           n == Len(queue)
<1>0. entry.id = id /\ entry \in E
  OBVIOUS
<1>1. /\ n \in Nat /\ DOMAIN queue = 1 .. n
      /\ \A i \in 1 .. n : queue[i] \in E
      /\ \A i, j \in 1 .. n : queue[i].id = queue[j].id => i = j
  BY TableIs
<1>2. CASE id \in Ids(queue)
  <2>1. new = [i \in 1 .. n |-> IF queue[i].id = id THEN entry ELSE queue[i]]
    BY <1>1, <1>2 DEF Put
  <2> HIDE DEF new, entry, n
  <2>2. \A i \in 1 .. n : new[i] \in E /\ new[i].id = queue[i].id
    BY <1>0, <1>1, <2>1
  <2>3. DOMAIN new = 1 .. n /\ new \in [1 .. n -> E]
    BY <2>1, <2>2
  <2>4. new \in Seq(E)
    BY <1>1, <2>3
  <2>5. Distinct(new)
    BY <1>1, <2>2, <2>3 DEF Distinct
  <2>6. Ids(new) = Ids(queue)
    BY <1>1, <2>2, <2>3 DEF Ids
  <2> QED BY <1>2, <2>4, <2>5, <2>6 DEF IsTable, new
<1>3. CASE id \notin Ids(queue) /\ ~ (n >= Capacity)
  <2>1. new = Append(queue, entry)
    BY <1>3 DEF Put
  <2> HIDE DEF new, entry, n
  <2>2. IsTable(new, E) /\ Ids(new) = Ids(queue) \cup {id}
    BY <1>0, <1>3, <2>1, TableAppend
  <2> QED BY <2>2 DEF new
<1>4. CASE id \notin Ids(queue) /\ n >= Capacity
  <2>1. new = Append(Tail(queue), entry) /\ n # 0 /\ Capacity <= n
    BY <1>1, <1>4, CapacityAssumption DEF Put
  <2>2. /\ IsTable(Tail(queue), E) /\ Ids(Tail(queue)) \subseteq Ids(queue)
        /\ \A old \in Ids(queue) : old \in Ids(Tail(queue)) \/ old = queue[1].id
    BY <2>1, TableTail
  <2> HIDE DEF new, entry
  <2>3. IsTable(new, E) /\ Ids(new) = Ids(Tail(queue)) \cup {id}
    BY <1>0, <1>4, <2>1, <2>2, TableAppend
  <2> QED BY <1>4, <2>1, <2>2, <2>3 DEF new, IsNextOut
<1> QED BY <1>2, <1>3, <1>4

LEMMA TableWithout ==
    ASSUME NEW E, NEW queue, IsTable(queue, E), NEW id
    PROVE  /\ IsTable(Without(queue, id), E)
           /\ \A old \in Ids(queue) : old # id => old \in Ids(Without(queue, id))
<1> DEFINE new == Without(queue, id)
           place == Place(queue, id)
           n == Len(queue)
<1>1. /\ n \in Nat /\ DOMAIN queue = 1 .. n
      /\ \A i \in 1 .. n : queue[i] \in E
      /\ \A i, j \in 1 .. n : queue[i].id = queue[j].id => i = j
  BY TableIs
<1>2. CASE id \notin Ids(queue)
  BY <1>2 DEF Without
<1>3. CASE id \in Ids(queue)
  <2>1. place \in 1 .. n /\ queue[place].id = id
    <3>1. PICK i \in 1 .. n : queue[i].id = id
      BY <1>1, <1>3 DEF Ids
    <3>2. \A j \in 1 .. i - 1 : j \in 1 .. n /\ j # i
      BY <1>1
    <3>3. \A j \in 1 .. i - 1 : queue[j].id # id
      BY <1>1, <3>1, <3>2
    <3> QED BY <1>1, <3>1, <3>3 DEF Place
  <2>2. new = [i \in 1 .. n - 1 |-> IF i < place THEN queue[i] ELSE queue[i + 1]]
    BY <1>3 DEF Without
  <2> HIDE DEF new, place, n
  <2>3. \A i \in 1 .. n - 1 : i \in 1 .. n /\ i + 1 \in 1 .. n /\ n - 1 \in Nat
    BY <1>1
  <2>4. DOMAIN new = 1 .. n - 1
        /\ \A i \in 1 .. n - 1 : new[i] = IF i < place THEN queue[i] ELSE queue[i + 1]
    BY <2>2
  <2>5. new \in Seq(E)
    <3>1. new \in [1 .. n - 1 -> E]
      BY <1>1, <2>2, <2>3
    <3>2. n - 1 \in Nat
      BY <1>1, <2>1
    <3> QED BY <3>1, <3>2
  <2>6. Distinct(new)
    <3>1. ASSUME NEW i \in 1 .. n - 1, NEW j \in 1 .. n - 1, new[i].id = new[j].id
          PROVE  i = j
      <4> DEFINE was(k) == IF k < place THEN k ELSE k + 1
      <4>1. /\ was(i) \in 1 .. n /\ was(j) \in 1 .. n
            /\ new[i] = queue[was(i)] /\ new[j] = queue[was(j)]
        BY <2>3, <2>4
      <4>2. was(i) = was(j)
        <5> HIDE DEF was
        <5> QED BY <1>1, <3>1, <4>1
      <4> QED BY <2>1, <4>2
    <3> QED BY <2>4, <3>1 DEF Distinct
  <2>7. ASSUME NEW old \in Ids(queue), old # id PROVE old \in Ids(new)
    <3>1. PICK i \in 1 .. n : queue[i].id = old
      BY <1>1 DEF Ids
    <3>2. i # place
      BY <2>1, <2>7, <3>1
    <3>3. CASE i < place
      <4>1. i \in 1 .. n - 1
        BY <1>1, <2>1, <3>3
      <4> QED BY <2>4, <3>1, <3>3, <4>1 DEF Ids
    <3>4. CASE i > place
      <4>1. i - 1 \in 1 .. n - 1 /\ (i - 1) + 1 = i /\ ~ (i - 1 < place)
        BY <1>1, <2>1, <3>4
      <4>2. new[i - 1] = queue[i]
        BY <2>4, <4>1
      <4> QED BY <2>4, <3>1, <4>1, <4>2 DEF Ids
    <3> QED BY <1>1, <2>1, <3>2, <3>3, <3>4
  <2> QED BY <2>5, <2>6, <2>7 DEF IsTable, new
<1> QED BY <1>2, <1>3

\* A table that has room for every id never loses one
LEMMA RoomForAll ==
    ASSUME NEW E, NEW queue, IsTable(queue, E), NEW n \in Nat, n <= Capacity,
           Ids(queue) \subseteq 1 .. n, NEW id \in 1 .. n, id \notin Ids(queue)
    PROVE  Len(queue) < Capacity
<1> DEFINE m == Len(queue)
           idAt == [i \in 1 .. m |-> queue[i].id]
           S == (1 .. n) \ {id}
<1>1. /\ m \in Nat /\ DOMAIN queue = 1 .. m
      /\ \A i, j \in 1 .. m : queue[i].id = queue[j].id => i = j
  BY TableIs
<1>2. /\ IsFiniteSet(1 .. m) /\ Cardinality(1 .. m) = m
      /\ IsFiniteSet(1 .. n) /\ Cardinality(1 .. n) = n
  <2>1. \A k \in Nat : IsFiniteSet(1 .. k) /\ Cardinality(1 .. k) = k
    <3> SUFFICES ASSUME NEW k \in Nat PROVE IsFiniteSet(1 .. k) /\ Cardinality(1 .. k) = k
      OBVIOUS
    <3> QED BY FS_Interval
  <2> HIDE DEF m
  <2> QED BY <1>1, <2>1
<1>3. IsFiniteSet(S) /\ Cardinality(S) = n - 1
  BY <1>2, FS_RemoveElement
<1>4. idAt \in Injection(1 .. m, S)
  BY <1>1 DEF Ids, Injection, IsInjective
<1>5. Cardinality(1 .. m) <= Cardinality(S)
  <2> HIDE DEF idAt, S, m
  <2> QED BY <1>2, <1>3, <1>4, FS_Injection
<1>6. m <= n - 1
  BY <1>2, <1>3, <1>5
<1> HIDE DEF m
<1> QED BY <1>1, <1>6, CapacityAssumption DEF m

-----------------------------------------------------------------------------
(* Types of what the steps change together                                 *)

NetId == 1 .. MaxRequests
NetValues == {"queued", "inprogress", "ready", "ok", "halfailed", "nocapacity"}
NetEntry == [id : NetId, value : NetValues]
NetRequest == [id : NetId, op : {"scan", "connect", "status"},
               with : Asked \cup {"none"}, save : BOOLEAN]
NetPlaces == {"idle", "noting", "asking", "auto", "connecting", "waiting", "startap", "halted"}
Credentials == {"none", "good", "bad"}

\* The requests and their clients
RequestTypes ==
    /\ requests \in Seq(NetRequest) /\ Len(requests) <= QueueBound
    /\ posting \in 0 .. MaxRequests /\ lastId \in 0 .. MaxRequests
    /\ asked \subseteq [id : NetId, op : {"scan", "connect", "status"}]
    /\ \A entry \in asked : entry.id <= lastId
    /\ \A entry, other \in asked : entry.id = other.id => entry = other

\* The results and the statuses
BoxTypes ==
    /\ box = [results |-> box.results, statuses |-> box.statuses]
    /\ IsTable(box.results, NetEntry) /\ IsTable(box.statuses, NetEntry)

\* The worker, which has a scan when it is not idle
ScanTypes ==
    /\ scans \in Seq(NetId) /\ Len(scans) <= 1 /\ scanning \in BOOLEAN
    /\ worker \in [pc : {"idle", "popped", "begun", "scanning", "ok", "halfailed"},
                   id : 0 .. MaxRequests]
    /\ worker.pc # "idle" => worker.id \in NetId

\* The runtime task, which has a request while it handles a scan or a connect
TaskTypes ==
    /\ task \in [pc : NetPlaces, id : 0 .. MaxRequests, with : Credentials,
                 after : {"none", "boot", "down", "tick"}]
    /\ task.pc \in {"noting", "asking"} => task.id \in NetId
    /\ task.pc \in {"connecting", "waiting"} => retry < Limit

\* The policy
PolicyTypes ==
    /\ connect \in [id : 0 .. MaxRequests, left : 0 .. ConnectTimeout]
    /\ connect.id = 0 => connect.left = 0
    /\ retry \in 0 .. Limit /\ next \in Network!Never .. Delay /\ connected \in BOOLEAN

\* The driver and its events
DriverTypes ==
    /\ events \in Seq({"up", "down", "refresh"}) /\ told \in Seq({"gotip", "disconnected"})
    /\ saved \in Credentials /\ mode \in {"null", "sta", "ap", "apsta"}
    /\ station \in [link : {"down", "trying", "up"}, with : Credentials]
    /\ bits \subseteq {"gotip", "disconnected"}
    /\ hasIp \in BOOLEAN /\ clients \in BOOLEAN
    /\ faults \in 0 .. MaxFaults

NetTypes ==
    /\ RequestTypes /\ BoxTypes /\ ScanTypes /\ TaskTypes /\ PolicyTypes /\ DriverTypes

\* The operators of both modules, and the constants
LEMMA NetIs ==
    ASSUME Network!Bounds
    PROVE  /\ MaxRequests \in Nat /\ MaxFaults \in Nat
           /\ {QueueBound, Limit, ConnectTimeout, Delay} \subseteq Nat \ {0}
           /\ Asked \subseteq {"good", "bad"} /\ Saves \subseteq BOOLEAN
           /\ \A queue : Network!Ids(queue) = Ids(queue)
           /\ \A queue, id, value : Network!Put(queue, id, value) = Put(queue, id, value)
           /\ \A queue, id : Network!Without(queue, id) = Without(queue, id)
<1>1. \A queue : Network!Ids(queue) = Ids(queue)
  BY DEF Network!Ids, Ids
<1>2. \A queue, id, value : Network!Put(queue, id, value) = Put(queue, id, value)
  BY <1>1 DEF Network!Put, Put
<1>3. \A queue, id : Network!Place(queue, id) = Place(queue, id)
  BY DEF Network!Place, Place
<1>4. \A queue, id : Network!Without(queue, id) = Without(queue, id)
  BY <1>1, <1>3 DEF Network!Without, Without
<1>5. /\ MaxRequests \in Nat /\ MaxFaults \in Nat
      /\ {QueueBound, Limit, ConnectTimeout, Delay} \subseteq Nat \ {0}
      /\ Asked \subseteq {"good", "bad"} /\ Saves \subseteq BOOLEAN
  BY DEF Network!Bounds
<1> QED BY <1>1, <1>2, <1>4, <1>5

-----------------------------------------------------------------------------
(* What a step does to the box                                             *)

Notes(id, status) ==
    /\ box' = [box EXCEPT !.statuses = Put(@, id, status)]
    /\ asked' = asked /\ posting' \in {0, posting} /\ id \in NetId
    /\ status \in {"queued", "inprogress"} /\ (posting' # posting => id = posting)

Publishes_(id, value) ==
    /\ box' = [results |-> Put(box.results, id, value),
               statuses |-> Put(box.statuses, id, "ready")]
    /\ UNCHANGED <<asked, posting>> /\ id \in NetId
    /\ value \in {"ok", "halfailed", "nocapacity"}

TakesOut(entry) ==
    /\ box' = [results |-> Without(box.results, entry.id),
               statuses |-> Without(box.statuses, entry.id)]
    /\ posting' = posting /\ entry \in asked /\ asked' = asked \ {entry}

\* A scan that is asked for is being posted
AsksOnly ==
    /\ box' = box
    /\ \A entry \in asked' : entry \in asked \/ entry.op # "scan" \/ posting' = entry.id
    /\ posting' = posting \/ posting = 0

BoxStep ==
    \/ \E id, value : Notes(id, value) \/ Publishes_(id, value)
    \/ \E entry : TakesOut(entry)
    \/ AsksOnly

LEMMA HeadIs ==
    ASSUME NEW S, NEW q \in Seq(S), q # <<>>
    PROVE  /\ Head(q) \in S /\ Tail(q) \in Seq(S) /\ Len(q) \in Nat \ {0}
           /\ Len(Tail(q)) = Len(q) - 1
OBVIOUS

LEMMA RequestIs ==
    ASSUME Network!Bounds, RequestTypes, requests # <<>>
    PROVE  /\ Head(requests).id \in NetId /\ Head(requests).op \in {"scan", "connect", "status"}
           /\ Head(requests).with \in Credentials /\ Head(requests).save \in BOOLEAN
<1>1. Head(requests) \in NetRequest
  BY HeadIs DEF RequestTypes
<1> QED BY <1>1, NetIs DEF NetRequest, Credentials

\* Each step on the box is one of these
LEMMA BoxStepIs ==
    ASSUME Network!Bounds, NetTypes, Network!Next
    PROVE  BoxStep
<1> USE DEF Network!requestVars, NetTypes
<1>1. CASE \/ Network!AsksRefresh \/ Network!ClientComes
           \/ Network!WorkerPops \/ Network!WorkerScans \/ Network!WorkerEnds
           \/ Network!HandleUp \/ Network!HandleDown \/ Network!HandleRefresh
           \/ Network!TickConnects \/ Network!AutoGate \/ Network!AutoConnects
           \/ Network!AutoEnds \/ Network!StartAp \/ Network!EventHandler
           \/ Network!Associates \/ Network!Disconnects \/ Network!Tick
  <2>1. UNCHANGED <<box, asked, posting>>
    BY <1>1
    DEF Network!AsksRefresh, Network!ClientComes, Network!WorkerPops,
        Network!WorkerScans, Network!WorkerEnds, Network!HandleUp, Network!HandleDown,
        Network!HandleRefresh, Network!TickConnects, Network!AutoGate,
        Network!AutoConnects, Network!AutoEnds, Network!StartAp, Network!EventHandler,
        Network!Associates, Network!Disconnects, Network!Tick
  <2> QED BY <2>1 DEF BoxStep, AsksOnly
<1>2. CASE Network!Asks
  <2>1. PICK request : Network!Post(request)
    BY <1>2 DEF Network!Asks
  <2>2. QueueBound \in Nat /\ Len(requests) \in Nat
    BY NetIs DEF RequestTypes
  <2>3. CASE Len(requests) >= QueueBound
    BY <2>1, <2>2, <2>3 DEF Network!Post, AsksOnly, BoxStep
  <2>4. CASE Len(requests) < QueueBound
    BY <2>1, <2>2, <2>4 DEF Network!Post, AsksOnly, BoxStep
  <2> QED BY <2>2, <2>3, <2>4
<1>3. CASE Network!Takes
  <2>1. PICK entry \in asked :
            /\ box' = Network!Take(box, entry.id) /\ asked' = asked \ {entry}
            /\ posting' = posting
    BY <1>3 DEF Network!Takes
  <2>2. TakesOut(entry)
    BY <2>1, NetIs DEF TakesOut, Network!Take
  <2> QED BY <2>2 DEF BoxStep
<1>4. CASE Network!PostNotes
  <2>1. Notes(posting, "queued")
    BY <1>4, NetIs DEF Network!PostNotes, Network!Note, Notes, RequestTypes, NetId
  <2> QED BY <2>1 DEF BoxStep
<1>5. CASE Network!WorkerBegins
  <2>1. Notes(worker.id, "inprogress")
    BY <1>5, NetIs DEF Network!WorkerBegins, Network!Note, Notes, ScanTypes
  <2> QED BY <2>1 DEF BoxStep
<1>6. CASE Network!WorkerPublishes
  <2>1. Publishes_(worker.id, worker.pc)
    BY <1>6, NetIs DEF Network!WorkerPublishes, Network!PublishResult, Publishes_, ScanTypes
  <2> QED BY <2>1 DEF BoxStep
<1>7. CASE Network!HandleStatus
  <2>1. Publishes_(Head(requests).id, "ok")
    BY <1>7, NetIs, RequestIs
    DEF Network!HandleStatus, Network!NextRequest, Network!Request, Network!Answers,
        Network!PublishResult, Publishes_
  <2> QED BY <2>1 DEF BoxStep
<1>8. CASE Network!HandleScan
  <2>1. CASE Network!ScanPendingOrBusy
    <3>1. Publishes_(Head(requests).id, "nocapacity")
      BY <1>8, <2>1, NetIs, RequestIs
      DEF Network!HandleScan, Network!NextRequest, Network!Request, Network!Answers,
          Network!PublishResult, Publishes_
    <3> QED BY <3>1 DEF BoxStep
  <2>2. CASE ~ Network!ScanPendingOrBusy
    BY <1>8, <2>2 DEF Network!HandleScan, BoxStep, AsksOnly
  <2> QED BY <2>1, <2>2
<1>9. CASE Network!ScanNotes
  <2>1. Notes(task.id, "queued")
    BY <1>9, NetIs DEF Network!ScanNotes, Network!Note, Notes, TaskTypes
  <2> QED BY <2>1 DEF BoxStep
<1>10. CASE Network!HandleConnect
  <2>1. \/ UNCHANGED <<box, asked, posting>>
        \/ \E value \in {"nocapacity", "halfailed"} :
              Network!Answers(value) /\ UNCHANGED <<asked, posting>>
    BY <1>10 DEF Network!HandleConnect
  <2>2. requests # <<>>
    BY <1>10 DEF Network!HandleConnect, Network!NextRequest
  <2>3. ASSUME NEW value \in {"nocapacity", "halfailed"}, Network!Answers(value),
               UNCHANGED <<asked, posting>>
        PROVE  Publishes_(Head(requests).id, value)
    BY <2>2, <2>3, NetIs, RequestIs
    DEF Network!Answers, Network!Request, Network!PublishResult, Publishes_
  <2>4. CASE UNCHANGED <<box, asked, posting>>
    BY <2>4 DEF BoxStep, AsksOnly
  <2> QED BY <2>1, <2>3, <2>4 DEF BoxStep
<1>11. CASE Network!ConnectAsks
  <2>1. /\ UNCHANGED <<asked, posting>>
        /\ box' = box \/ box' = Network!PublishResult(box, task.id, "halfailed")
    BY <1>11 DEF Network!ConnectAsks
  <2>2. task.id \in NetId
    BY <1>11 DEF Network!ConnectAsks, TaskTypes
  <2>3. CASE box' = box
    BY <2>1, <2>3 DEF BoxStep, AsksOnly
  <2>4. CASE box' = Network!PublishResult(box, task.id, "halfailed")
    <3>1. Publishes_(task.id, "halfailed")
      BY <2>1, <2>2, <2>4, NetIs DEF Network!PublishResult, Publishes_
    <3> QED BY <3>1 DEF BoxStep
  <2> QED BY <2>1, <2>3, <2>4
<1>12. CASE Network!ConnectEnds
  <2>1. connect.id \in NetId
    BY <1>12, NetIs DEF Network!ConnectEnds, PolicyTypes, Network!NoConnect, NetId
  <2>2. \E value \in {"ok", "halfailed"} : Publishes_(connect.id, value)
    BY <1>12, <2>1, NetIs DEF Network!ConnectEnds, Network!PublishResult, Publishes_
  <2> QED BY <2>2 DEF BoxStep
<1> QED
  BY <1>1, <1>2, <1>3, <1>4, <1>5, <1>6, <1>7, <1>8, <1>9, <1>10, <1>11, <1>12
  DEF Network!Next, Network!Inputs, Network!Worker, Network!RuntimeTask

LEMMA BoxStaysTyped ==
    ASSUME Network!Bounds, NetTypes, BoxStep
    PROVE  BoxTypes'
<1> USE DEF BoxTypes
<1>0. /\ box = [results |-> box.results, statuses |-> box.statuses]
      /\ IsTable(box.results, NetEntry) /\ IsTable(box.statuses, NetEntry)
  BY DEF NetTypes
<1>1. ASSUME NEW id, NEW value, Notes(id, value) PROVE BoxTypes'
  <2>1. [id |-> id, value |-> value] \in NetEntry
    BY <1>1 DEF Notes, NetEntry, NetValues
  <2>2. IsTable(Put(box.statuses, id, value), NetEntry)
    BY <1>0, <2>1, TablePut
  <2>3. box'.results = box.results /\ box'.statuses = Put(box.statuses, id, value)
    BY <1>0, <1>1 DEF Notes
  <2>4. box' = [results |-> box'.results, statuses |-> box'.statuses]
    BY <1>0, <1>1 DEF Notes
  <2> QED BY <1>0, <2>2, <2>3, <2>4
<1>2. ASSUME NEW id, NEW value, Publishes_(id, value) PROVE BoxTypes'
  <2>1. [id |-> id, value |-> value] \in NetEntry /\ [id |-> id, value |-> "ready"] \in NetEntry
    BY <1>2 DEF Publishes_, NetEntry, NetValues
  <2>2. /\ IsTable(Put(box.statuses, id, "ready"), NetEntry)
        /\ IsTable(Put(box.results, id, value), NetEntry)
    BY <1>0, <2>1, TablePut
  <2> QED BY <1>2, <2>2 DEF Publishes_
<1>3. ASSUME NEW entry, TakesOut(entry) PROVE BoxTypes'
  <2>1. /\ IsTable(Without(box.statuses, entry.id), NetEntry)
        /\ IsTable(Without(box.results, entry.id), NetEntry)
    BY <1>0, TableWithout
  <2> QED BY <1>3, <2>1 DEF TakesOut
<1>4. CASE AsksOnly
  BY <1>0, <1>4 DEF AsksOnly
<1> QED BY <1>1, <1>2, <1>3, <1>4 DEF BoxStep

-----------------------------------------------------------------------------
(* What clients of scans are told                                          *)

IsSeen(id) == id \in Ids(box.results) \cup Ids(box.statuses)

\* A client that asked for a scan and has been told its id is told nothing of it
IsForgotten(entry) ==
    /\ entry \in asked /\ entry.op = "scan" /\ posting # entry.id
    /\ Network!PollStatus(box, entry.id) = "notready"

\* A result or a status of this id is the oldest entry of a full queue, where some
\* other id has neither the one nor the other yet
IsNextLost(id) ==
    \/ IsNextOut(box.results, id) /\ \E new \in NetId : new \notin Ids(box.results)
    \/ IsNextOut(box.statuses, id) /\ \E new \in NetId : new \notin Ids(box.statuses)

LEMMA PollIs ==
    ASSUME Network!Bounds, NEW b, IsTable(b.statuses, NetEntry), NEW id
    PROVE  Network!PollStatus(b, id) # "notready" <=> id \in Ids(b.results) \cup Ids(b.statuses)
<1> DEFINE those == {b.statuses[i] : i \in DOMAIN b.statuses}
<1>1. \A i \in DOMAIN b.statuses : b.statuses[i] \in NetEntry
  BY TableIs
<1>2. \A e \in those : e.value # "notready"
  <2>1. \A e \in NetEntry : e.value # "notready"
    BY DEF NetEntry, NetValues
  <2> QED BY <1>1, <2>1
<1>3. id \in Ids(b.statuses) => \E e \in those : e.id = id
  BY DEF Ids
<1> HIDE DEF those
<1>4. id \in Ids(b.statuses) => (CHOOSE e \in those : e.id = id) \in those
  BY <1>3
<1>5. Network!PollStatus(b, id) =
         IF id \in Ids(b.results) THEN "ready"
         ELSE IF id \in Ids(b.statuses)
              THEN (CHOOSE e \in those : e.id = id).value
              ELSE "notready"
  BY NetIs DEF Network!PollStatus, those
<1> QED BY <1>2, <1>4, <1>5

\* A step forgets only what is next to be lost
LEMMA StepForgets ==
    ASSUME Network!Bounds, NetTypes, BoxTypes', BoxStep,
           NEW entry \in asked', IsForgotten(entry)'
    PROVE  IsForgotten(entry) \/ IsNextLost(entry.id)
<1>1. IsTable(box.results, NetEntry) /\ IsTable(box.statuses, NetEntry) /\ BoxTypes
      /\ box = [results |-> box.results, statuses |-> box.statuses]
  BY DEF NetTypes, BoxTypes
<1>2. entry.op = "scan" /\ posting' # entry.id /\ ~ IsSeen(entry.id)'
  <2>1. IsTable(box'.statuses, NetEntry)
    BY DEF BoxTypes
  <2>2. Network!PollStatus(box', entry.id) # "notready"
           <=> entry.id \in Ids(box'.results) \cup Ids(box'.statuses)
    BY <2>1, PollIs
  <2>3. /\ entry.op = "scan" /\ posting' # entry.id
        /\ Network!PollStatus(box', entry.id) = "notready"
    BY DEF IsForgotten, Network!PollStatus, Network!Ids
  <2> QED BY <2>2, <2>3 DEF IsSeen
<1>3. entry.id \notin Ids(box'.results) /\ entry.id \notin Ids(box'.statuses)
  BY <1>2 DEF IsSeen
<1>4. ASSUME entry \in asked, posting # entry.id, ~ IsSeen(entry.id)
      PROVE  IsForgotten(entry)
  BY <1>1, <1>2, <1>4, PollIs DEF IsForgotten, IsSeen
<1>5. ASSUME NEW id, NEW value, Notes(id, value)
      PROVE  IsForgotten(entry) \/ IsNextLost(entry.id)
  <2>1. /\ box'.results = box.results /\ box'.statuses = Put(box.statuses, id, value)
        /\ entry \in asked /\ id \in NetId
    BY <1>1, <1>5 DEF Notes
  <2>2. [id |-> id, value |-> value] \in NetEntry
    BY <1>5 DEF Notes, NetEntry, NetValues
  <2>3. /\ id \in Ids(box'.statuses)
        /\ entry.id \in Ids(box.statuses) =>
              IsNextOut(box.statuses, entry.id) /\ id \notin Ids(box.statuses)
    BY <1>1, <1>3, <2>1, <2>2, TablePut
  <2>4. CASE entry.id \in Ids(box.statuses)
    BY <2>1, <2>3, <2>4 DEF IsNextLost
  <2>5. CASE entry.id \notin Ids(box.statuses)
    <3>1. entry.id # id
      BY <1>3, <2>3
    <3>2. posting # entry.id
      BY <1>2, <1>5, <3>1 DEF Notes
    <3>3. ~ IsSeen(entry.id)
      BY <1>3, <2>1, <2>5 DEF IsSeen
    <3> QED BY <1>4, <2>1, <3>2, <3>3
  <2> QED BY <2>4, <2>5
<1>6. ASSUME NEW id, NEW value, Publishes_(id, value)
      PROVE  IsForgotten(entry) \/ IsNextLost(entry.id)
  <2>1. /\ box'.results = Put(box.results, id, value)
        /\ box'.statuses = Put(box.statuses, id, "ready")
        /\ entry \in asked /\ posting # entry.id /\ id \in NetId
    BY <1>2, <1>6 DEF Publishes_
  <2>2. [id |-> id, value |-> value] \in NetEntry /\ [id |-> id, value |-> "ready"] \in NetEntry
    BY <1>6 DEF Publishes_, NetEntry, NetValues
  <2>3. entry.id \in Ids(box.statuses) =>
           IsNextOut(box.statuses, entry.id) /\ id \notin Ids(box.statuses)
    BY <1>1, <1>3, <2>1, <2>2, TablePut
  <2>4. entry.id \in Ids(box.results) =>
           IsNextOut(box.results, entry.id) /\ id \notin Ids(box.results)
    BY <1>1, <1>3, <2>1, <2>2, TablePut
  <2>5. CASE IsSeen(entry.id)
    BY <2>1, <2>3, <2>4, <2>5 DEF IsSeen, IsNextLost
  <2> QED BY <1>4, <2>1, <2>5
<1>7. ASSUME NEW other, TakesOut(other)
      PROVE  IsForgotten(entry) \/ IsNextLost(entry.id)
  <2>1. /\ box'.results = Without(box.results, other.id)
        /\ box'.statuses = Without(box.statuses, other.id)
        /\ entry \in asked /\ posting # entry.id /\ other \in asked /\ entry # other
    BY <1>2, <1>7 DEF TakesOut
  <2>2. entry.id # other.id
    BY <2>1 DEF NetTypes, RequestTypes
  <2>3. ~ IsSeen(entry.id)
    BY <1>1, <1>3, <2>1, <2>2, TableWithout DEF IsSeen
  <2> QED BY <1>4, <2>1, <2>3
<1>8. CASE AsksOnly
  <2>1. box' = box /\ entry \in asked
    BY <1>2, <1>8 DEF AsksOnly
  <2>2. ~ IsSeen(entry.id)
    BY <1>3, <2>1 DEF IsSeen
  <2>3. entry.id \in NetId
    BY <2>1 DEF NetTypes, RequestTypes
  <2>4. posting # entry.id
    BY <1>2, <1>8, <2>3, NetIs DEF AsksOnly, NetId
  <2> QED BY <1>4, <2>1, <2>2, <2>4
<1> QED BY <1>5, <1>6, <1>7, <1>8 DEF BoxStep

\* Where the queues have room for every id, nothing is next to be lost
LEMMA NothingIsLost ==
    ASSUME Network!Bounds, NetTypes, MaxRequests <= Capacity, NEW id
    PROVE  ~ IsNextLost(id)
<1>1. ASSUME NEW queue, IsTable(queue, NetEntry), NEW new \in NetId, new \notin Ids(queue)
      PROVE  ~ IsNextOut(queue, id)
  <2>1. Ids(queue) \subseteq 1 .. MaxRequests
    <3>1. \A i \in DOMAIN queue : queue[i] \in NetEntry
      BY <1>1, TableIs
    <3>2. \A e \in NetEntry : e.id \in 1 .. MaxRequests
      BY DEF NetEntry, NetId
    <3> QED BY <3>1, <3>2 DEF Ids
  <2>2. Len(queue) < Capacity /\ Len(queue) \in Nat
    BY <1>1, <2>1, NetIs, RoomForAll, TableIs DEF NetId
  <2> QED BY <2>2, CapacityAssumption DEF IsNextOut
<1>2. IsTable(box.results, NetEntry) /\ IsTable(box.statuses, NetEntry)
  BY DEF NetTypes, BoxTypes
<1> QED BY <1>1, <1>2 DEF IsNextLost

-----------------------------------------------------------------------------
(* Every step keeps the types                                              *)

LEMMA RequestsStayTyped ==
    ASSUME Network!Bounds, NetTypes, Network!Next
    PROVE  RequestTypes'
<1> USE DEF Network!requestVars
<1>0. /\ requests \in Seq(NetRequest) /\ Len(requests) <= QueueBound
      /\ posting \in 0 .. MaxRequests /\ lastId \in 0 .. MaxRequests
      /\ asked \subseteq [id : NetId, op : {"scan", "connect", "status"}]
      /\ \A entry \in asked : entry.id <= lastId
      /\ \A entry, other \in asked : entry.id = other.id => entry = other
      /\ MaxRequests \in Nat /\ QueueBound \in Nat
  BY NetIs DEF NetTypes, RequestTypes
<1>1. CASE UNCHANGED <<requests, posting, asked, lastId>>
  BY <1>0, <1>1 DEF RequestTypes
<1>2. CASE \/ Network!Worker \/ Network!ScanNotes \/ Network!ConnectAsks
           \/ Network!ConnectEnds \/ Network!HandleUp \/ Network!HandleDown
           \/ Network!HandleRefresh \/ Network!TickConnects \/ Network!AutoGate
           \/ Network!AutoConnects \/ Network!AutoEnds \/ Network!StartAp
           \/ Network!EventHandler \/ Network!Associates \/ Network!Disconnects
           \/ Network!Tick
  <2>1. CASE Network!Worker
    <3>1. UNCHANGED <<requests, posting, asked, lastId>>
      BY <2>1
      DEF Network!Worker, Network!WorkerPops, Network!WorkerBegins, Network!WorkerScans,
          Network!WorkerEnds, Network!WorkerPublishes
    <3> QED BY <1>1, <3>1
  <2>2. CASE \/ Network!ScanNotes \/ Network!ConnectAsks \/ Network!ConnectEnds
             \/ Network!HandleUp \/ Network!HandleDown \/ Network!HandleRefresh
             \/ Network!TickConnects
    <3>1. UNCHANGED <<requests, posting, asked, lastId>>
      BY <2>2
      DEF Network!ScanNotes, Network!ConnectAsks, Network!ConnectEnds, Network!HandleUp,
          Network!HandleDown, Network!HandleRefresh, Network!TickConnects
    <3> QED BY <1>1, <3>1
  <2>3. CASE \/ Network!AutoGate \/ Network!AutoConnects \/ Network!AutoEnds
             \/ Network!StartAp \/ Network!EventHandler \/ Network!Associates
             \/ Network!Disconnects \/ Network!Tick
    <3>1. UNCHANGED <<requests, posting, asked, lastId>>
      BY <2>3
      DEF Network!AutoGate, Network!AutoConnects, Network!AutoEnds, Network!StartAp,
          Network!EventHandler, Network!Associates, Network!Disconnects, Network!Tick
    <3> QED BY <1>1, <3>1
  <2> QED BY <1>2, <2>1, <2>2, <2>3
<1>3. CASE \/ Network!HandleStatus \/ Network!HandleScan \/ Network!HandleConnect
  <2>1. /\ requests # <<>> /\ requests' = Tail(requests)
        /\ UNCHANGED <<posting, asked, lastId>>
    BY <1>3
    DEF Network!HandleStatus, Network!HandleScan, Network!HandleConnect,
        Network!NextRequest
  <2>2. requests' \in Seq(NetRequest) /\ Len(requests') <= QueueBound
    BY <1>0, <2>1, HeadIs
  <2> QED BY <1>0, <2>1, <2>2 DEF RequestTypes
<1>4. CASE Network!AsksRefresh \/ Network!ClientComes
  <2>1. /\ lastId < MaxRequests /\ lastId' = lastId + 1
        /\ UNCHANGED <<requests, posting, asked>>
    BY <1>4 DEF Network!AsksRefresh, Network!ClientComes
  <2>2. lastId' \in 0 .. MaxRequests /\ \A entry \in asked : entry.id <= lastId'
    <3>1. \A entry \in asked : entry.id \in Nat
      BY <1>0 DEF NetId
    <3> QED BY <1>0, <2>1, <3>1
  <2> QED BY <1>0, <2>1, <2>2 DEF RequestTypes
<1>5. CASE Network!Takes \/ Network!PostNotes
  <2>1. /\ UNCHANGED <<requests, lastId>> /\ asked' \subseteq asked
        /\ posting' \in {0, posting}
    BY <1>5 DEF Network!Takes, Network!PostNotes
  <2> QED BY <1>0, <2>1 DEF RequestTypes
<1>6. ASSUME NEW request \in NetRequest, request.id = lastId + 1, Network!Post(request)
      PROVE  RequestTypes'
  <2> DEFINE entry == [id |-> request.id, op |-> request.op]
  <2>1. /\ lastId' = request.id /\ request.id \in 1 .. MaxRequests
        /\ entry \in [id : NetId, op : {"scan", "connect", "status"}]
    BY <1>6 DEF Network!Post, NetRequest, NetId
  <2>2. posting' \in 0 .. MaxRequests /\ lastId' \in 0 .. MaxRequests
    BY <1>0, <1>6, <2>1 DEF Network!Post
  <2>3. \A other \in asked : other.id \in Nat /\ other.id < entry.id
    <3>1. \A other \in asked : other.id \in Nat /\ other.id <= lastId
      BY <1>0 DEF NetId
    <3> QED BY <1>0, <1>6, <3>1
  <2>4. entry.id = request.id /\ request.id \in Nat
    BY <2>1
  <2>5. CASE Len(requests) >= QueueBound
    <3>1. UNCHANGED <<requests, asked>>
      BY <1>6, <2>5 DEF Network!Post
    <3>2. \A other \in asked : other.id <= lastId'
      BY <2>1, <2>3, <2>4
    <3> QED BY <1>0, <2>2, <3>1, <3>2 DEF RequestTypes
  <2>6. CASE ~ (Len(requests) >= QueueBound)
    <3>1. requests' = Append(requests, request) /\ asked' = asked \cup {entry}
      BY <1>6, <2>6 DEF Network!Post
    <3>2. requests' \in Seq(NetRequest) /\ Len(requests') <= QueueBound
      BY <1>0, <1>6, <2>6, <3>1
    <3> HIDE DEF entry
    <3>3. \A other \in asked' : other.id <= lastId'
      BY <2>1, <2>3, <2>4, <3>1
    <3>4. \A one, other \in asked' : one.id = other.id => one = other
      BY <1>0, <2>3, <2>4, <3>1
    <3> QED BY <1>0, <2>1, <2>2, <3>1, <3>2, <3>3, <3>4 DEF RequestTypes
  <2> QED BY <2>5, <2>6
<1>7. CASE Network!Asks
  <2>1. ASSUME NEW request \in NetRequest, Network!Post(request)
        PROVE  request.id = lastId + 1 => RequestTypes'
    BY <1>6, <2>1
  <2>2. lastId < MaxRequests /\ lastId + 1 \in NetId
    <3>1. PICK request : Network!Post(request)
      BY <1>7 DEF Network!Asks
    <3>2. lastId < MaxRequests
      BY <3>1 DEF Network!Post
    <3> QED BY <1>0, <3>2 DEF NetId
  <2>3. \A op \in {"scan", "status"} :
           [id |-> lastId + 1, op |-> op, with |-> "none", save |-> FALSE] \in NetRequest
    BY <2>2 DEF NetRequest
  <2>4. \A with \in Asked, save \in Saves :
           [id |-> lastId + 1, op |-> "connect", with |-> with, save |-> save] \in NetRequest
    BY <2>2, NetIs DEF NetRequest
  <2>5. CASE \E op \in {"scan", "status"} :
                Network!Post([id |-> lastId + 1, op |-> op, with |-> "none", save |-> FALSE])
    BY <2>1, <2>3, <2>5
  <2>6. CASE \E with \in Asked, save \in Saves :
                Network!Post([id |-> lastId + 1, op |-> "connect", with |-> with,
                              save |-> save])
    BY <2>1, <2>4, <2>6
  <2> QED BY <1>7, <2>5, <2>6 DEF Network!Asks
<1> QED
  BY <1>2, <1>3, <1>4, <1>5, <1>7
  DEF Network!Next, Network!Inputs, Network!RuntimeTask

LEMMA ScansStayTyped ==
    ASSUME Network!Bounds, NetTypes, Network!Next
    PROVE  ScanTypes'
<1> USE DEF Network!scanVars
<1>0. /\ scans \in Seq(NetId) /\ Len(scans) <= 1 /\ scanning \in BOOLEAN
      /\ worker \in [pc : {"idle", "popped", "begun", "scanning", "ok", "halfailed"},
                     id : 0 .. MaxRequests]
      /\ worker.pc # "idle" => worker.id \in NetId
      /\ NetId \subseteq 0 .. MaxRequests /\ 0 \in 0 .. MaxRequests
  BY NetIs DEF NetTypes, ScanTypes, NetId
<1>1. CASE UNCHANGED <<scans, worker, scanning>>
  BY <1>0, <1>1 DEF ScanTypes
<1>2. CASE \/ Network!Inputs \/ Network!PostNotes \/ Network!HandleStatus
           \/ Network!ScanNotes \/ Network!HandleConnect \/ Network!ConnectAsks
  <2>1. UNCHANGED <<scans, worker, scanning>>
    BY <1>2
    DEF Network!Inputs, Network!Asks, Network!Post, Network!AsksRefresh, Network!Takes,
        Network!ClientComes, Network!PostNotes, Network!HandleStatus, Network!ScanNotes,
        Network!HandleConnect, Network!ConnectAsks
  <2> QED BY <1>1, <2>1
<1>3. CASE \/ Network!ConnectEnds \/ Network!HandleUp \/ Network!HandleDown
           \/ Network!HandleRefresh \/ Network!TickConnects \/ Network!AutoGate
           \/ Network!AutoConnects \/ Network!AutoEnds \/ Network!StartAp
           \/ Network!EventHandler \/ Network!Associates \/ Network!Disconnects
           \/ Network!Tick
  <2>1. UNCHANGED <<scans, worker, scanning>>
    BY <1>3
    DEF Network!ConnectEnds, Network!HandleUp, Network!HandleDown, Network!HandleRefresh,
        Network!TickConnects, Network!AutoGate, Network!AutoConnects, Network!AutoEnds,
        Network!StartAp, Network!EventHandler, Network!Associates, Network!Disconnects,
        Network!Tick
  <2> QED BY <1>1, <2>1
<1>4. CASE Network!WorkerPops
  <2>1. /\ scans # <<>> /\ scans' = Tail(scans) /\ scanning' = scanning
        /\ worker' = [pc |-> "popped", id |-> Head(scans)]
    BY <1>4 DEF Network!WorkerPops, Network!At
  <2>2. Head(scans) \in NetId /\ scans' \in Seq(NetId) /\ Len(scans') <= 1
    BY <1>0, <2>1, HeadIs
  <2> QED BY <1>0, <2>1, <2>2 DEF ScanTypes
<1>5. CASE Network!WorkerBegins
  <2>1. worker' = [worker EXCEPT !.pc = "begun"] /\ scanning' = TRUE /\ scans' = scans
        /\ worker.pc = "popped"
    BY <1>5 DEF Network!WorkerBegins
  <2> QED BY <1>0, <2>1 DEF ScanTypes
<1>6. CASE Network!WorkerScans
  <2>1. worker' = [worker EXCEPT !.pc = "scanning"] /\ UNCHANGED <<scanning, scans>>
        /\ worker.pc = "begun"
    BY <1>6 DEF Network!WorkerScans
  <2> QED BY <1>0, <2>1 DEF ScanTypes
<1>7. CASE Network!WorkerEnds
  <2>1. \E status \in {"ok", "halfailed"} : worker' = [worker EXCEPT !.pc = status]
    BY <1>7 DEF Network!WorkerEnds
  <2>2. scanning' = FALSE /\ scans' = scans /\ worker.pc = "scanning"
    BY <1>7 DEF Network!WorkerEnds
  <2> QED BY <1>0, <2>1, <2>2 DEF ScanTypes
<1>8. CASE Network!WorkerPublishes
  <2>1. worker' = [pc |-> "idle", id |-> 0] /\ UNCHANGED <<scanning, scans>>
    BY <1>8 DEF Network!WorkerPublishes, Network!Free
  <2> QED BY <1>0, <2>1 DEF ScanTypes
<1>9. CASE Network!HandleScan
  <2>1. UNCHANGED <<worker, scanning>> /\ requests # <<>>
    BY <1>9 DEF Network!HandleScan, Network!NextRequest
  <2>2. CASE Network!ScanPendingOrBusy
    BY <1>1, <1>9, <2>1, <2>2 DEF Network!HandleScan
  <2>3. CASE ~ Network!ScanPendingOrBusy
    <3>1. scans = <<>> /\ scans' = Append(scans, Head(requests).id)
      BY <1>9, <2>3 DEF Network!HandleScan, Network!ScanPendingOrBusy, Network!Request
    <3>2. Head(requests).id \in NetId
      BY <2>1, RequestIs DEF NetTypes
    <3>3. scans' \in Seq(NetId) /\ Len(scans') <= 1
      BY <1>0, <3>1, <3>2
    <3> QED BY <1>0, <2>1, <3>3 DEF ScanTypes
  <2> QED BY <2>2, <2>3
<1> QED
  BY <1>2, <1>3, <1>4, <1>5, <1>6, <1>7, <1>8, <1>9
  DEF Network!Next, Network!Worker, Network!RuntimeTask

LEMMA TaskStaysTyped ==
    ASSUME Network!Bounds, NetTypes, Network!Next
    PROVE  TaskTypes'
<1> USE DEF Network!policyVars
<1> DEFINE Tasks == [pc : NetPlaces, id : 0 .. MaxRequests, with : Credentials,
                     after : {"none", "boot", "down", "tick"}]
<1>0. /\ task \in Tasks
      /\ task.pc \in {"noting", "asking"} => task.id \in NetId
      /\ task.pc \in {"connecting", "waiting"} => retry < Limit
      /\ NetId \subseteq 0 .. MaxRequests /\ 0 \in 0 .. MaxRequests
      /\ Limit \in Nat /\ retry \in Nat
  BY NetIs DEF NetTypes, TaskTypes, PolicyTypes, NetId
<1>i. /\ Network!Idle = [pc |-> "idle", id |-> 0, with |-> "none", after |-> "none"]
      /\ Network!Idle \in Tasks
  BY <1>0 DEF Network!Idle, NetPlaces, Credentials
<1>1. CASE UNCHANGED <<task, retry>>
  BY <1>0, <1>1 DEF TaskTypes
<1>2. CASE task' = Network!Idle
  BY <1>0, <1>i, <1>2 DEF TaskTypes
<1>3. CASE \/ Network!Inputs \/ Network!PostNotes \/ Network!Worker
           \/ Network!ConnectEnds \/ Network!HandleUp \/ Network!HandleRefresh
           \/ Network!EventHandler \/ Network!Associates \/ Network!Disconnects
           \/ Network!Tick
  <2>1. CASE \/ Network!Inputs \/ Network!PostNotes
    <3>1. UNCHANGED <<task, retry>>
      BY <2>1
      DEF Network!Inputs, Network!Asks, Network!Post, Network!AsksRefresh, Network!Takes,
          Network!ClientComes, Network!PostNotes
    <3> QED BY <1>1, <3>1
  <2>2. CASE Network!Worker
    <3>1. UNCHANGED <<task, retry>>
      BY <2>2
      DEF Network!Worker, Network!WorkerPops, Network!WorkerBegins, Network!WorkerScans,
          Network!WorkerEnds, Network!WorkerPublishes
    <3> QED BY <1>1, <3>1
  <2>3. CASE \/ Network!ConnectEnds \/ Network!HandleUp \/ Network!HandleRefresh
             \/ Network!EventHandler \/ Network!Associates \/ Network!Disconnects
             \/ Network!Tick
    <3>1. UNCHANGED <<task, retry>>
      BY <2>3
      DEF Network!ConnectEnds, Network!HandleUp, Network!HandleRefresh,
          Network!EventHandler, Network!Associates, Network!Disconnects, Network!Tick
    <3> QED BY <1>1, <3>1
  <2> QED BY <1>3, <2>1, <2>2, <2>3
<1>4. CASE Network!HandleStatus \/ Network!ScanNotes \/ Network!ConnectAsks
  <2>1. task' = Network!Idle
    BY <1>4
    DEF Network!HandleStatus, Network!Answers, Network!ScanNotes, Network!ConnectAsks
  <2> QED BY <1>2, <2>1
<1>5. CASE Network!HandleScan
  <2>1. \/ task' = Network!Idle
        \/ task' = [Network!Idle EXCEPT !.pc = "noting", !.id = Head(requests).id]
    BY <1>5 DEF Network!HandleScan, Network!Answers, Network!Request
  <2>2. Head(requests).id \in NetId
    BY <1>5, RequestIs DEF NetTypes, Network!HandleScan, Network!NextRequest
  <2>3. CASE task' = [Network!Idle EXCEPT !.pc = "noting", !.id = Head(requests).id]
    <3>1. task' = [pc |-> "noting", id |-> Head(requests).id, with |-> "none",
                   after |-> "none"]
      BY <1>i, <2>3
    <3> QED BY <1>0, <2>2, <3>1 DEF TaskTypes, NetPlaces, Credentials
  <2> QED BY <1>2, <2>1, <2>3
<1>6. CASE Network!HandleConnect
  <2>1. \/ task' = Network!Idle
        \/ task' = [Network!Idle EXCEPT !.pc = "asking", !.id = Head(requests).id,
                                        !.with = Head(requests).with]
    BY <1>6 DEF Network!HandleConnect, Network!Answers, Network!Request
  <2>2. Head(requests).id \in NetId /\ Head(requests).with \in Credentials
    BY <1>6, RequestIs DEF NetTypes, Network!HandleConnect, Network!NextRequest
  <2>3. CASE task' = [Network!Idle EXCEPT !.pc = "asking", !.id = Head(requests).id,
                                          !.with = Head(requests).with]
    <3>1. task' = [pc |-> "asking", id |-> Head(requests).id,
                   with |-> Head(requests).with, after |-> "none"]
      BY <1>i, <2>3
    <3> QED BY <1>0, <2>2, <3>1 DEF TaskTypes, NetPlaces
  <2> QED BY <1>2, <2>1, <2>3
<1>7. CASE Network!HandleDown \/ Network!TickConnects
  <2>1. \E after \in {"down", "tick"} : task' = [Network!Idle EXCEPT !.pc = "auto", !.after = after]
    BY <1>7 DEF Network!HandleDown, Network!TickConnects, Network!Autoconnect
  <2>2. \E after \in {"down", "tick"} :
           task' = [pc |-> "auto", id |-> 0, with |-> "none", after |-> after]
    BY <1>i, <2>1
  <2> QED BY <1>0, <2>2 DEF TaskTypes, NetPlaces, Credentials
\* The attempt returns
<1>8. ASSUME NEW success \in BOOLEAN, Network!Returns(success) PROVE TaskTypes'
  <2>1. task' = Network!Idle \/ task' = [task EXCEPT !.pc = "startap"]
    BY <1>8 DEF Network!Returns
  <2>2. CASE task' = [task EXCEPT !.pc = "startap"]
    BY <1>0, <2>2 DEF TaskTypes, NetPlaces
  <2> QED BY <1>2, <2>1, <2>2
<1>9. CASE Network!AutoGate
  <2>1. \/ Network!Returns(FALSE)
        \/ /\ ~ Network!Suppressed /\ task' = [task EXCEPT !.pc = "connecting"]
           /\ retry' = retry
    BY <1>9 DEF Network!AutoGate
  <2>2. CASE /\ ~ Network!Suppressed /\ task' = [task EXCEPT !.pc = "connecting"]
             /\ retry' = retry
    <3>1. retry' < Limit
      BY <1>0, <2>2 DEF Network!Suppressed
    <3> QED BY <1>0, <2>2, <3>1 DEF TaskTypes, NetPlaces
  <2> QED BY <1>8, <2>1, <2>2
<1>10. CASE Network!AutoConnects
  <2>1. \/ Network!Returns(FALSE)
        \/ /\ task.pc = "connecting" /\ task' = [task EXCEPT !.pc = "waiting"]
           /\ retry' = retry
    BY <1>10 DEF Network!AutoConnects
  <2>2. CASE /\ task.pc = "connecting" /\ task' = [task EXCEPT !.pc = "waiting"]
             /\ retry' = retry
    BY <1>0, <2>2 DEF TaskTypes, NetPlaces
  <2> QED BY <1>8, <2>1, <2>2
<1>11. CASE Network!AutoEnds
  <2>1. task' = Network!Idle \/ task' = [task EXCEPT !.pc = "startap"]
    BY <1>11 DEF Network!AutoEnds, Network!Returns
  <2>2. CASE task' = [task EXCEPT !.pc = "startap"]
    BY <1>0, <2>2 DEF TaskTypes, NetPlaces
  <2> QED BY <1>2, <2>1, <2>2
<1>12. CASE Network!StartAp
  <2>1. task' = Network!Idle \/ task' = [task EXCEPT !.pc = "halted"]
    BY <1>12 DEF Network!StartAp
  <2>2. CASE task' = [task EXCEPT !.pc = "halted"]
    BY <1>0, <2>2 DEF TaskTypes, NetPlaces
  <2> QED BY <1>2, <2>1, <2>2
<1> QED
  BY <1>3, <1>4, <1>5, <1>6, <1>7, <1>9, <1>10, <1>11, <1>12
  DEF Network!Next, Network!RuntimeTask

LEMMA PolicyStaysTyped ==
    ASSUME Network!Bounds, NetTypes, Network!Next
    PROVE  PolicyTypes'
<1> USE DEF Network!policyVars, Network!Never
<1>0. /\ connect \in [id : 0 .. MaxRequests, left : 0 .. ConnectTimeout]
      /\ connect.id = 0 => connect.left = 0
      /\ retry \in 0 .. Limit /\ next \in -1 .. Delay /\ connected \in BOOLEAN
      /\ MaxRequests \in Nat /\ NetId \subseteq 1 .. MaxRequests
      /\ {ConnectTimeout, Limit, Delay} \subseteq Nat \ {0}
  BY NetIs DEF NetTypes, PolicyTypes, NetId
<1>1. CASE UNCHANGED <<connect, retry, next, connected>>
  BY <1>0, <1>1 DEF PolicyTypes
<1>2. CASE \/ Network!Inputs \/ Network!PostNotes \/ Network!Worker
           \/ Network!HandleStatus \/ Network!HandleScan \/ Network!ScanNotes
           \/ Network!HandleConnect \/ Network!HandleDown \/ Network!HandleRefresh
           \/ Network!TickConnects \/ Network!StartAp \/ Network!EventHandler
           \/ Network!Associates \/ Network!Disconnects
  <2>1. CASE \/ Network!Inputs \/ Network!PostNotes \/ Network!StartAp
    <3>1. UNCHANGED <<connect, retry, next, connected>>
      BY <2>1
      DEF Network!Inputs, Network!Asks, Network!Post, Network!AsksRefresh, Network!Takes,
          Network!ClientComes, Network!PostNotes, Network!StartAp
    <3> QED BY <1>1, <3>1
  <2>2. CASE Network!Worker \/ Network!EventHandler \/ Network!Associates
             \/ Network!Disconnects
    <3>1. UNCHANGED <<connect, retry, next, connected>>
      BY <2>2
      DEF Network!Worker, Network!WorkerPops, Network!WorkerBegins, Network!WorkerScans,
          Network!WorkerEnds, Network!WorkerPublishes, Network!EventHandler,
          Network!Associates, Network!Disconnects
    <3> QED BY <1>1, <3>1
  <2>3. CASE \/ Network!HandleStatus \/ Network!HandleScan \/ Network!ScanNotes
             \/ Network!HandleConnect \/ Network!HandleDown \/ Network!HandleRefresh
             \/ Network!TickConnects
    <3>1. UNCHANGED <<connect, retry, next, connected>>
      BY <2>3
      DEF Network!HandleStatus, Network!HandleScan, Network!ScanNotes,
          Network!HandleConnect, Network!HandleDown, Network!HandleRefresh,
          Network!TickConnects
    <3> QED BY <1>1, <3>1
  <2> QED BY <1>2, <2>1, <2>2, <2>3
<1>3. CASE Network!ConnectAsks
  <2>1. /\ connected' = connected
        /\ connect' = connect \/ connect' = [id |-> task.id, left |-> ConnectTimeout]
        /\ UNCHANGED <<retry, next>> \/ (retry' = 0 /\ next' = -1)
    BY <1>3 DEF Network!ConnectAsks
  <2>2. task.id \in NetId
    BY <1>3 DEF Network!ConnectAsks, NetTypes, TaskTypes
  <2>3. /\ connect' \in [id : 0 .. MaxRequests, left : 0 .. ConnectTimeout]
        /\ connect'.id = 0 => connect'.left = 0
    <3>1. task.id \in 1 .. MaxRequests /\ ConnectTimeout \in 0 .. ConnectTimeout
      <4>1. ConnectTimeout \in Nat
        BY <1>0
      <4>2. task.id \in 1 .. MaxRequests
        BY <2>2 DEF NetId
      <4> QED BY <4>1, <4>2
    <3>2. task.id \in 0 .. MaxRequests /\ task.id # 0
      BY <1>0, <3>1
    <3>3. CASE connect' = [id |-> task.id, left |-> ConnectTimeout]
      BY <3>1, <3>2, <3>3
    <3> QED BY <1>0, <2>1, <3>3
  <2> QED BY <1>0, <2>1, <2>3 DEF PolicyTypes
<1>4. CASE Network!ConnectEnds
  <2>1. connect' = [id |-> 0, left |-> 0] /\ UNCHANGED <<retry, next, connected>>
    BY <1>4 DEF Network!ConnectEnds, Network!NoConnect
  <2> QED BY <1>0, <2>1 DEF PolicyTypes
<1>5. CASE Network!HandleUp
  <2>1. connected' = TRUE /\ UNCHANGED <<connect, retry, next>>
    BY <1>5 DEF Network!HandleUp
  <2> QED BY <1>0, <2>1 DEF PolicyTypes
<1>6. ASSUME NEW success \in BOOLEAN, Network!Returns(success) PROVE connected' \in BOOLEAN
  BY <1>6 DEF Network!Returns
<1>7. CASE Network!AutoGate
  <2>1. UNCHANGED <<connect, next>> /\ retry' \in {retry, Limit}
    BY <1>7 DEF Network!AutoGate
  <2>2. connected' \in BOOLEAN
    BY <1>0, <1>6, <1>7 DEF Network!AutoGate
  <2> QED BY <1>0, <2>1, <2>2 DEF PolicyTypes
<1>8. ASSUME retry < Limit, Network!Counts PROVE retry' \in 0 .. Limit /\ next' \in -1 .. Delay
  <2>1. retry' = retry + 1 /\ next' \in {0, Delay}
    BY <1>8 DEF Network!Counts, Network!Delays
  <2> QED BY <1>0, <1>8, <2>1
<1>9. CASE Network!AutoConnects
  <2>1. connect' = connect /\ retry < Limit
    BY <1>9 DEF Network!AutoConnects, NetTypes, TaskTypes
  <2>2. connected' \in BOOLEAN
    BY <1>0, <1>6, <1>9 DEF Network!AutoConnects
  <2>3. UNCHANGED <<retry, next>> \/ Network!Counts
    BY <1>9 DEF Network!AutoConnects
  <2> QED BY <1>0, <1>8, <2>1, <2>2, <2>3 DEF PolicyTypes
<1>10. CASE Network!AutoEnds
  <2>1. connect' = connect /\ retry < Limit
    BY <1>10 DEF Network!AutoEnds, NetTypes, TaskTypes
  <2>2. connected' \in BOOLEAN
    BY <1>10 DEF Network!AutoEnds, Network!Returns
  <2>3. (retry' = 0 /\ next' = -1) \/ Network!Counts
    BY <1>10 DEF Network!AutoEnds
  <2> QED BY <1>0, <1>8, <2>1, <2>2, <2>3 DEF PolicyTypes
<1>11. CASE Network!Tick
  <2>1. /\ UNCHANGED <<retry, connected>>
        /\ connect' = [connect EXCEPT !.left = IF connect.left > 0 THEN connect.left - 1
                                                                   ELSE connect.left]
        /\ next' = IF next > 0 THEN next - 1 ELSE next
    BY <1>11 DEF Network!Tick
  <2>2. /\ connect'.id = connect.id
        /\ connect'.left = IF connect.left > 0 THEN connect.left - 1 ELSE connect.left
        /\ connect' = [id |-> connect'.id, left |-> connect'.left]
    BY <1>0, <2>1
  <2>3. connect'.left \in 0 .. ConnectTimeout /\ (connect.left = 0 => connect'.left = 0)
    <3>1. connect.left \in 0 .. ConnectTimeout
      BY <1>0
    <3> QED BY <1>0, <2>2, <3>1
  <2>4. /\ connect' \in [id : 0 .. MaxRequests, left : 0 .. ConnectTimeout]
        /\ connect'.id = 0 => connect'.left = 0
    BY <1>0, <2>2, <2>3
  <2>5. next' \in -1 .. Delay
    BY <1>0, <2>1
  <2> QED BY <1>0, <2>1, <2>4, <2>5 DEF PolicyTypes
<1> QED
  BY <1>2, <1>3, <1>4, <1>5, <1>7, <1>9, <1>10, <1>11
  DEF Network!Next, Network!RuntimeTask

\* What the adapter makes of the driver's modes and stations
LEMMA DriverSteps ==
    ASSUME Network!Bounds, NetTypes
    PROVE  /\ Network!ModeForScan \in {"null", "sta", "ap", "apsta"}
           /\ Network!ModeForConnect \in {"null", "sta", "ap", "apsta"}
           /\ Network!Lost \in Seq({"gotip", "disconnected"})
           /\ \A m \in {"null", "sta", "ap", "apsta"}, with \in Credentials :
                 Network!Connects(m, with) =>
                    /\ mode' = m /\ station' = [link |-> "trying", with |-> with]
                    /\ told' = Network!Lost /\ clients' \in BOOLEAN
           /\ \A m \in {"null", "sta", "ap", "apsta"} :
                 Network!Switches(m) =>
                    /\ mode' = m /\ station' = [link |-> "down", with |-> station.with]
                    /\ told' = Network!Lost /\ clients' \in BOOLEAN
<1>0. /\ told \in Seq({"gotip", "disconnected"}) /\ clients \in BOOLEAN
      /\ mode \in {"null", "sta", "ap", "apsta"}
      /\ station \in [link : {"down", "trying", "up"}, with : Credentials]
  BY DEF NetTypes, DriverTypes
<1>1. /\ Network!ModeForScan \in {"null", "sta", "ap", "apsta"}
      /\ Network!ModeForConnect \in {"null", "sta", "ap", "apsta"}
  BY <1>0 DEF Network!ModeForScan, Network!ModeForConnect
<1>2. Network!Lost \in Seq({"gotip", "disconnected"})
  BY <1>0 DEF Network!Lost
<1>3. ASSUME NEW m, NEW with, Network!Connects(m, with)
      PROVE  /\ mode' = m /\ station' = [link |-> "trying", with |-> with]
             /\ told' = Network!Lost /\ clients' \in BOOLEAN
  BY <1>0, <1>3 DEF Network!Connects
<1>4. ASSUME NEW m, Network!Switches(m)
      PROVE  /\ mode' = m /\ station' = [link |-> "down", with |-> station.with]
             /\ told' = Network!Lost /\ clients' \in BOOLEAN
  BY <1>0, <1>4 DEF Network!Switches
<1> QED BY <1>1, <1>2, <1>3, <1>4

LEMMA DriverStaysTyped ==
    ASSUME Network!Bounds, NetTypes, Network!Next
    PROVE  DriverTypes'
<1> USE DEF Network!driverVars, Network!handlerVars
<1> DEFINE Modes == {"null", "sta", "ap", "apsta"}
           Stations == [link : {"down", "trying", "up"}, with : Credentials]
           Signs == {"gotip", "disconnected"}
           Events == {"up", "down", "refresh"}
<1>0. /\ events \in Seq(Events) /\ told \in Seq(Signs)
      /\ saved \in Credentials /\ mode \in Modes /\ station \in Stations
      /\ bits \subseteq Signs /\ hasIp \in BOOLEAN /\ clients \in BOOLEAN
      /\ faults \in 0 .. MaxFaults /\ MaxFaults \in Nat
  BY NetIs DEF NetTypes, DriverTypes
<1>f. faults' = faults \/ Network!Failed => faults' \in 0 .. MaxFaults
  BY <1>0 DEF Network!Failed
\* What the driver's calls leave, and what they may not
<1>d. ASSUME \/ UNCHANGED <<mode, station, clients, told>>
             \/ \E m \in Modes, with \in Credentials : Network!Connects(m, with)
             \/ \E m \in Modes : Network!Switches(m)
      PROVE  /\ mode' \in Modes /\ station' \in Stations /\ told' \in Seq(Signs)
             /\ clients' \in BOOLEAN
  <2>1. CASE UNCHANGED <<mode, station, clients, told>>
    BY <1>0, <2>1
  <2>2. ASSUME NEW m \in Modes, NEW with \in Credentials, Network!Connects(m, with)
        PROVE  /\ mode' \in Modes /\ station' \in Stations /\ told' \in Seq(Signs)
               /\ clients' \in BOOLEAN
    BY <2>2, DriverSteps
  <2>3. ASSUME NEW m \in Modes, Network!Switches(m)
        PROVE  /\ mode' \in Modes /\ station' \in Stations /\ told' \in Seq(Signs)
               /\ clients' \in BOOLEAN
    <3>1. station.with \in Credentials
      BY <1>0
    <3> QED BY <2>3, <3>1, DriverSteps
  <2> QED BY <1>d, <2>1, <2>2, <2>3
<1>1. ASSUME /\ mode' \in Modes /\ station' \in Stations /\ told' \in Seq(Signs)
             /\ clients' \in BOOLEAN
             /\ events' \in Seq(Events) /\ saved' \in Credentials /\ bits' \subseteq Signs
             /\ hasIp' \in BOOLEAN
             /\ (faults' = faults \/ Network!Failed)
      PROVE  DriverTypes'
  <2>1. faults' \in 0 .. MaxFaults
    BY <1>1, <1>f
  <2> QED BY <1>1, <2>1 DEF DriverTypes
<1>2. CASE \/ Network!Asks \/ Network!Takes \/ Network!PostNotes \/ Network!Worker
           \/ Network!HandleStatus \/ Network!HandleScan \/ Network!ScanNotes
           \/ Network!ConnectEnds \/ Network!TickConnects \/ Network!AutoGate
           \/ Network!Tick
  <2>1. UNCHANGED <<station, clients, told, events, saved, bits, hasIp>>
    <3>1. CASE Network!Asks \/ Network!Takes \/ Network!PostNotes
      BY <3>1 DEF Network!Asks, Network!Post, Network!Takes, Network!PostNotes
    <3>2. CASE Network!Worker
      BY <3>2
      DEF Network!Worker, Network!WorkerPops, Network!WorkerBegins, Network!WorkerScans,
          Network!WorkerEnds, Network!WorkerPublishes
    <3>3. CASE \/ Network!HandleStatus \/ Network!HandleScan \/ Network!ScanNotes
               \/ Network!ConnectEnds \/ Network!TickConnects \/ Network!AutoGate
               \/ Network!Tick
      BY <3>3
      DEF Network!HandleStatus, Network!HandleScan, Network!ScanNotes,
          Network!ConnectEnds, Network!TickConnects, Network!AutoGate, Network!Tick
    <3> QED BY <1>2, <3>1, <3>2, <3>3
  <2>2. mode' = mode \/ mode' = Network!ModeForScan
    <3>1. CASE Network!Asks \/ Network!Takes \/ Network!PostNotes
      BY <3>1 DEF Network!Asks, Network!Post, Network!Takes, Network!PostNotes
    <3>2. CASE Network!Worker
      BY <3>2
      DEF Network!Worker, Network!WorkerPops, Network!WorkerBegins, Network!WorkerScans,
          Network!WorkerEnds, Network!WorkerPublishes
    <3>3. CASE \/ Network!HandleStatus \/ Network!HandleScan \/ Network!ScanNotes
               \/ Network!ConnectEnds \/ Network!TickConnects \/ Network!AutoGate
               \/ Network!Tick
      BY <3>3
      DEF Network!HandleStatus, Network!HandleScan, Network!ScanNotes,
          Network!ConnectEnds, Network!TickConnects, Network!AutoGate, Network!Tick
    <3> QED BY <1>2, <3>1, <3>2, <3>3
  <2>3. faults' = faults \/ Network!Failed
    <3>1. CASE Network!Asks \/ Network!Takes \/ Network!PostNotes
      BY <3>1 DEF Network!Asks, Network!Post, Network!Takes, Network!PostNotes
    <3>2. CASE Network!Worker
      BY <3>2
      DEF Network!Worker, Network!WorkerPops, Network!WorkerBegins, Network!WorkerScans,
          Network!WorkerEnds, Network!WorkerPublishes
    <3>3. CASE \/ Network!HandleStatus \/ Network!HandleScan \/ Network!ScanNotes
               \/ Network!ConnectEnds \/ Network!TickConnects \/ Network!AutoGate
               \/ Network!Tick
      BY <3>3
      DEF Network!HandleStatus, Network!HandleScan, Network!ScanNotes,
          Network!ConnectEnds, Network!TickConnects, Network!AutoGate, Network!Tick
    <3> QED BY <1>2, <3>1, <3>2, <3>3
  <2>4. mode' \in Modes
    BY <1>0, <2>2, DriverSteps
  <2> QED BY <1>0, <1>1, <2>1, <2>3, <2>4
<1>3. CASE Network!AsksRefresh
  <2>1. /\ events' = Append(events, "refresh")
        /\ UNCHANGED <<mode, station, clients, told, saved, bits, hasIp, faults>>
    BY <1>3 DEF Network!AsksRefresh
  <2>2. events' \in Seq(Events)
    BY <1>0, <2>1
  <2> QED BY <1>0, <1>1, <2>1, <2>2
<1>4. CASE Network!ClientComes
  <2>1. /\ clients' = TRUE
        /\ UNCHANGED <<mode, station, events, told, saved, bits, hasIp, faults>>
    BY <1>4 DEF Network!ClientComes
  <2> QED BY <1>0, <1>1, <2>1
<1>5. CASE Network!HandleConnect
  <2>1. UNCHANGED <<mode, station, clients, events, told, bits, hasIp>>
    BY <1>5 DEF Network!HandleConnect
  <2>2. /\ faults' = faults \/ Network!Failed
        /\ saved' \in {saved, Head(requests).with, "bad"}
    <3>1. ASSUME NEW request, NEW done, Network!Writes(request, done)
          PROVE  /\ faults' = faults \/ Network!Failed
                 /\ saved' \in {saved, request.with, "bad"}
      BY <3>1 DEF Network!Writes
    <3>2. \/ UNCHANGED <<saved, faults>>
          \/ Network!Writes(Head(requests), TRUE) \/ Network!Writes(Head(requests), FALSE)
      BY <1>5 DEF Network!HandleConnect, Network!Request
    <3> QED BY <3>1, <3>2
  <2>3. Head(requests).with \in Credentials
    BY <1>5, RequestIs DEF NetTypes, Network!HandleConnect, Network!NextRequest
  <2>4. saved' \in Credentials
    BY <1>0, <2>2, <2>3 DEF Credentials
  <2> QED BY <1>0, <1>1, <2>1, <2>2, <2>4
<1>6. CASE Network!ConnectAsks
  <2>1. UNCHANGED <<events, saved, hasIp>> /\ bits' \in {{}, bits}
    BY <1>6 DEF Network!ConnectAsks
  <2>2. /\ faults' = faults \/ Network!Failed
        /\ \/ UNCHANGED <<mode, station, clients, told>>
           \/ Network!Connects(Network!ModeForConnect, task.with)
           \/ Network!Switches(Network!ModeForConnect)
    BY <1>6 DEF Network!ConnectAsks
  <2>3. Network!ModeForConnect \in Modes /\ task.with \in Credentials
    BY DriverSteps DEF NetTypes, TaskTypes
  <2>4. /\ mode' \in Modes /\ station' \in Stations /\ told' \in Seq(Signs)
        /\ clients' \in BOOLEAN
    BY <1>d, <2>2, <2>3
  <2> QED BY <1>0, <1>1, <2>1, <2>2, <2>4
<1>7. CASE Network!HandleUp \/ Network!HandleDown
  <2>1. /\ events # <<>> /\ events' = Tail(events)
        /\ UNCHANGED <<mode, station, clients, told, saved, bits, hasIp, faults>>
    BY <1>7 DEF Network!HandleUp, Network!HandleDown
  <2>2. events' \in Seq(Events)
    BY <1>0, <2>1, HeadIs
  <2> QED BY <1>0, <1>1, <2>1, <2>2
<1>8. CASE Network!HandleRefresh
  <2>1. /\ events # <<>> /\ events' = Tail(events)
        /\ UNCHANGED <<saved, bits, hasIp, faults>>
    BY <1>8 DEF Network!HandleRefresh
  <2>2. \/ UNCHANGED <<mode, station, clients, told>>
        \/ Network!Connects(mode, station.with) \/ Network!Switches(mode)
    BY <1>8 DEF Network!HandleRefresh
  <2>3. /\ mode' \in Modes /\ station' \in Stations /\ told' \in Seq(Signs)
        /\ clients' \in BOOLEAN
    <3>1. mode \in Modes /\ station.with \in Credentials
      BY <1>0
    <3> QED BY <1>d, <2>2, <3>1
  <2>4. events' \in Seq(Events)
    BY <1>0, <2>1, HeadIs
  <2> QED BY <1>0, <1>1, <2>1, <2>3, <2>4
<1>9. CASE Network!AutoConnects
  <2>1. UNCHANGED <<events, saved, hasIp>> /\ bits' \in {{}, bits}
    BY <1>9 DEF Network!AutoConnects
  <2>2. /\ faults' = faults \/ Network!Failed
        /\ \/ UNCHANGED <<mode, station, clients, told>>
           \/ Network!Connects("sta", saved) \/ Network!Switches("sta")
    BY <1>9 DEF Network!AutoConnects
  <2>3. /\ mode' \in Modes /\ station' \in Stations /\ told' \in Seq(Signs)
        /\ clients' \in BOOLEAN
    BY <1>0, <1>d, <2>2
  <2> QED BY <1>0, <1>1, <2>1, <2>2, <2>3
<1>10. CASE Network!AutoEnds
  <2>1. /\ UNCHANGED <<mode, station, clients, told, events, saved, hasIp>> /\ bits' = {}
        /\ faults' = faults \/ Network!Failed
    BY <1>10 DEF Network!AutoEnds
  <2> QED BY <1>0, <1>1, <2>1
<1>11. CASE Network!StartAp
  <2>1. /\ UNCHANGED <<events, saved, bits, hasIp>>
        /\ faults' = faults \/ Network!Failed
        /\ UNCHANGED <<mode, station, clients, told>> \/ Network!Switches("ap")
    BY <1>11 DEF Network!StartAp
  <2>2. /\ mode' \in Modes /\ station' \in Stations /\ told' \in Seq(Signs)
        /\ clients' \in BOOLEAN
    BY <1>d, <2>1
  <2> QED BY <1>0, <1>1, <2>1, <2>2
<1>12. CASE Network!EventHandler
  <2>1. /\ told # <<>> /\ told' = Tail(told) /\ hasIp' \in BOOLEAN
        /\ events' \in {events, Append(events, "up"), Append(events, "down")}
        /\ UNCHANGED <<mode, station, clients, saved, faults>>
    BY <1>12 DEF Network!EventHandler
  <2>2. bits' \subseteq Signs
    <3>1. bits' \in {Network!Seen("gotip"), Network!Seen("disconnected")}
      BY <1>12 DEF Network!EventHandler
    <3> QED BY <1>0, <3>1 DEF Network!Seen
  <2>3. events' \in Seq(Events)
    <3>1. Append(events, "up") \in Seq(Events) /\ Append(events, "down") \in Seq(Events)
      BY <1>0
    <3> QED BY <1>0, <2>1, <3>1
  <2>4. told' \in Seq(Signs)
    BY <1>0, <2>1, HeadIs
  <2> QED BY <1>0, <1>1, <2>1, <2>2, <2>3, <2>4
<1>13. CASE Network!Associates \/ Network!Disconnects
  <2>1. /\ UNCHANGED <<mode, clients, events, saved, bits, hasIp>>
        /\ faults' = faults \/ Network!Failed
        /\ told' \in {Append(told, "gotip"), Network!Lost}
        /\ station' \in {[station EXCEPT !.link = "up"], [station EXCEPT !.link = "down"]}
    BY <1>13 DEF Network!Associates, Network!Disconnects
  <2>2. station' \in Stations
    BY <1>0, <2>1
  <2>3. told' \in Seq(Signs)
    <3>1. Append(told, "gotip") \in Seq(Signs)
      BY <1>0
    <3>2. Network!Lost \in Seq(Signs)
      BY DriverSteps
    <3> QED BY <2>1, <3>1, <3>2
  <2> QED BY <1>0, <1>1, <2>1, <2>2, <2>3
<1> QED
  BY <1>2, <1>3, <1>4, <1>5, <1>6, <1>7, <1>8, <1>9, <1>10, <1>11, <1>12, <1>13
  DEF Network!Next, Network!Inputs, Network!RuntimeTask

LEMMA NetInitially ==
    ASSUME Network!Bounds, Network!Init
    PROVE  NetTypes /\ asked = {}
<1> USE DEF Network!Init
<1>0. /\ MaxRequests \in Nat /\ MaxFaults \in Nat
      /\ QueueBound \in Nat \ {0} /\ Limit \in Nat \ {0} /\ ConnectTimeout \in Nat \ {0}
      /\ Delay \in Nat \ {0} /\ 0 \in 0 .. MaxRequests
  BY NetIs
<1>1. RequestTypes
  BY <1>0 DEF RequestTypes
<1>2. BoxTypes
  <2>1. box = [results |-> <<>>, statuses |-> <<>>]
    BY DEF Network!EmptyBox
  <2>2. IsTable(<<>>, NetEntry)
    BY DEF IsTable, Distinct
  <2> QED BY <2>1, <2>2 DEF BoxTypes
<1>3. ScanTypes
  <2>1. scans \in Seq(NetId) /\ Len(scans) <= 1
    OBVIOUS
  <2>2. worker = [pc |-> "idle", id |-> 0]
    BY DEF Network!Free
  <2>3. /\ worker \in [pc : {"idle", "popped", "begun", "scanning", "ok", "halfailed"},
                       id : 0 .. MaxRequests]
        /\ worker.pc = "idle"
    BY <1>0, <2>2
  <2>4. scanning \in BOOLEAN
    OBVIOUS
  <2> QED BY <2>1, <2>3, <2>4 DEF ScanTypes
<1>4. TaskTypes
  <2>1. task = [pc |-> "auto", id |-> 0, with |-> "none", after |-> "boot"]
    BY DEF Network!Autoconnect, Network!Idle
  <2> QED BY <1>0, <2>1 DEF TaskTypes, NetPlaces, Credentials
<1>5. PolicyTypes
  <2>1. connect \in [id : 0 .. MaxRequests, left : 0 .. ConnectTimeout]
    BY <1>0 DEF Network!NoConnect
  <2>2. connect.left = 0
    BY DEF Network!NoConnect
  <2>3. retry \in 0 .. Limit /\ next \in Network!Never .. Delay
    BY <1>0 DEF Network!Never
  <2> QED BY <2>1, <2>2, <2>3 DEF PolicyTypes
<1>6. DriverTypes
  <2>1. events \in Seq({"up", "down", "refresh"}) /\ told \in Seq({"gotip", "disconnected"})
    OBVIOUS
  <2>2. /\ saved \in Credentials /\ mode \in {"null", "sta", "ap", "apsta"}
        /\ station \in [link : {"down", "trying", "up"}, with : Credentials]
    BY DEF Credentials
  <2>3. faults \in 0 .. MaxFaults
    BY <1>0
  <2>4. bits \subseteq {"gotip", "disconnected"} /\ hasIp \in BOOLEAN /\ clients \in BOOLEAN
    OBVIOUS
  <2> QED BY <2>1, <2>2, <2>3, <2>4 DEF DriverTypes
<1> QED BY <1>1, <1>2, <1>3, <1>4, <1>5, <1>6 DEF NetTypes

LEMMA NetStep ==
    ASSUME Network!Bounds, NetTypes, [Network!Next]_Network!vars
    PROVE  NetTypes'
<1>1. CASE Network!Next
  <2>1. BoxTypes'
    BY <1>1, BoxStepIs, BoxStaysTyped
  <2> QED
    BY <1>1, <2>1, RequestsStayTyped, ScansStayTyped, TaskStaysTyped, PolicyStaysTyped,
       DriverStaysTyped DEF NetTypes
<1>2. CASE UNCHANGED Network!vars
  <2>1. /\ UNCHANGED <<requests, box, posting, asked, lastId>>
        /\ UNCHANGED <<scans, worker, scanning, task, connect, retry, next, connected>>
        /\ UNCHANGED <<events, saved, mode, station, clients, told, hasIp, bits, faults>>
    BY <1>2
    DEF Network!vars, Network!requestVars, Network!scanVars, Network!policyVars,
        Network!driverVars, Network!handlerVars
  <2>2. RequestTypes' /\ BoxTypes' /\ ScanTypes'
    BY <2>1 DEF NetTypes, RequestTypes, BoxTypes, ScanTypes
  <2>3. TaskTypes' /\ PolicyTypes'
    BY <2>1 DEF NetTypes, TaskTypes, PolicyTypes
  <2>4. DriverTypes'
    BY <2>1 DEF NetTypes, DriverTypes
  <2> QED BY <2>2, <2>3, <2>4 DEF NetTypes
<1> QED BY <1>1, <1>2

LEMMA NetTypesImply ==
    ASSUME Network!Bounds, NetTypes
    PROVE  Network!TypeOK
<1>1. /\ requests \in Seq(Network!Request_) /\ Len(requests) <= QueueBound
      /\ posting \in 0 .. MaxRequests /\ lastId \in 0 .. MaxRequests
      /\ asked \subseteq [id : Network!Id, op : {"scan", "connect", "status"}]
  BY DEF NetTypes, RequestTypes, Network!Request_, NetRequest, Network!Id, NetId
<1>2. Network!Ids(box.results) \subseteq Network!Id /\ Network!Ids(box.statuses) \subseteq Network!Id
  <2>1. ASSUME NEW queue, IsTable(queue, NetEntry) PROVE Ids(queue) \subseteq NetId
    <3>1. \A i \in DOMAIN queue : queue[i] \in NetEntry
      BY <2>1, TableIs
    <3>2. \A e \in NetEntry : e.id \in NetId
      BY DEF NetEntry
    <3> QED BY <3>1, <3>2 DEF Ids
  <2> QED BY <2>1, NetIs DEF NetTypes, BoxTypes, Network!Id, NetId
<1>3. /\ scans \in Seq(Network!Id) /\ Len(scans) <= 1 /\ scanning \in BOOLEAN
      /\ worker.pc \in {"idle", "popped", "begun", "scanning", "ok", "halfailed"}
      /\ worker.id \in 0 .. MaxRequests
  BY DEF NetTypes, ScanTypes, Network!Id, NetId
<1>4. /\ task.pc \in {"idle", "noting", "asking", "auto", "connecting", "waiting",
                      "startap", "halted"}
      /\ task.after \in {"none", "boot", "down", "tick"}
  BY DEF NetTypes, TaskTypes, NetPlaces
<1>5. /\ connect \in [id : 0 .. MaxRequests, left : 0 .. ConnectTimeout]
      /\ retry \in 0 .. Limit /\ next \in Network!Never .. Delay /\ connected \in BOOLEAN
  BY DEF NetTypes, PolicyTypes
<1>6. /\ hasIp \in BOOLEAN /\ clients \in BOOLEAN
      /\ events \in Seq({"up", "down", "refresh"})
      /\ told \in Seq({"gotip", "disconnected"})
      /\ saved \in {"none", "good", "bad"} /\ mode \in {"null", "sta", "ap", "apsta"}
      /\ station \in [link : {"down", "trying", "up"}, with : {"none", "good", "bad"}]
      /\ bits \subseteq {"gotip", "disconnected"} /\ faults \in 0 .. MaxFaults
  BY DEF NetTypes, DriverTypes, Credentials
<1> QED BY <1>1, <1>2, <1>3, <1>4, <1>5, <1>6 DEF Network!TypeOK

-----------------------------------------------------------------------------
(* The theorems                                                            *)

LEMMA NetTypesHold == ASSUME Network!Bounds PROVE Network!Spec => []NetTypes
<1>1. Network!Init => NetTypes
  BY NetInitially
<1>2. NetTypes /\ [Network!Next]_Network!vars => NetTypes'
  BY NetStep
<1> QED BY <1>1, <1>2, PTL DEF Network!Spec

\* Requests, tasks, the policy and the driver keep their types and bounds: one scan at
\* most waits for the worker, which never waits without one, and an automatic attempt
\* is under way only while retries are left (NetworkManager, ScanManager,
\* NetworkPolicyManager).
THEOREM NetworkTypeCorrect ==
    ASSUME Network!Bounds
    PROVE  Network!Spec => []Network!TypeOK
<1>1. NetTypes => Network!TypeOK
  BY NetTypesImply
<1> QED BY <1>1, NetTypesHold, PTL

ForgetsOnlyForRoom ==
    [][\A entry \in asked' : IsForgotten(entry)' => IsForgotten(entry) \/ IsNextLost(entry.id)]_
        Network!vars

\* However the notes of the web server, the runtime task and the worker cross, a client
\* that has been told the id of its scan is told nothing of it only once its result or
\* its status was the oldest entry of a full queue, with a newcomer that needed the
\* place (NetworkManager::post_network_scan, handle_scan; OperationResultStore).
THEOREM ScansAreForgottenForRoomOnly ==
    ASSUME Network!Bounds
    PROVE  Network!Spec => ForgetsOnlyForRoom
<1>1. ASSUME NetTypes, NetTypes', [Network!Next]_Network!vars,
             NEW entry \in asked', IsForgotten(entry)'
      PROVE  IsForgotten(entry) \/ IsNextLost(entry.id)
  <2>1. CASE Network!Next
    <3>1. BoxStep
      BY <1>1, <2>1, BoxStepIs
    <3>2. BoxTypes'
      BY <1>1 DEF NetTypes
    <3> QED BY <1>1, <3>1, <3>2, StepForgets
  <2>2. CASE UNCHANGED Network!vars
    <3>1. UNCHANGED <<box, asked, posting>>
      BY <2>2 DEF Network!vars, Network!requestVars
    <3> QED BY <1>1, <3>1 DEF IsForgotten, Network!PollStatus, Network!Ids
  <2> QED BY <1>1, <2>1, <2>2
<1>2. NetTypes /\ NetTypes' /\ [Network!Next]_Network!vars =>
         [\A entry \in asked' :
             IsForgotten(entry)' => IsForgotten(entry) \/ IsNextLost(entry.id)]_Network!vars
  BY <1>1
<1> QED BY <1>2, NetTypesHold, PTL DEF Network!Spec, ForgetsOnlyForRoom

\* ScansAreTold, while the queues have room for every id: no scan is ever forgotten.
THEOREM ScansAreAllTold ==
    ASSUME Network!Bounds, MaxRequests <= Capacity
    PROVE  Network!Spec => []Network!ScansAreTold
<1> DEFINE NoneForgotten == \A entry \in asked : ~ IsForgotten(entry)
<1>1. Network!Init => NoneForgotten
  BY NetInitially
<1>2. NoneForgotten /\ NetTypes /\ NetTypes'
      /\ [\A entry \in asked' :
             IsForgotten(entry)' => IsForgotten(entry) \/ IsNextLost(entry.id)]_Network!vars
         => NoneForgotten'
  <2> SUFFICES ASSUME NoneForgotten, NetTypes, NetTypes',
                      [\A entry \in asked' : IsForgotten(entry)' =>
                          IsForgotten(entry) \/ IsNextLost(entry.id)]_Network!vars
               PROVE  NoneForgotten'
    OBVIOUS
  <2>1. CASE UNCHANGED Network!vars
    <3>1. UNCHANGED <<box, asked, posting>>
      BY <2>1 DEF Network!vars, Network!requestVars
    <3> QED BY <3>1 DEF IsForgotten, Network!PollStatus, Network!Ids
  <2>2. ASSUME NEW entry \in asked',
               IsForgotten(entry)' => IsForgotten(entry) \/ IsNextLost(entry.id)
        PROVE  ~ IsForgotten(entry)'
    <3>1. ~ IsNextLost(entry.id)
      BY NothingIsLost
    <3>2. ~ IsForgotten(entry)
      BY DEF IsForgotten
    <3> QED BY <2>2, <3>1, <3>2
  <2> QED BY <2>1, <2>2
<1>3. NetTypes /\ NoneForgotten => Network!ScansAreTold
  <2>1. NetTypes => Network!TypeOK
    BY NetTypesImply
  <2>2. NoneForgotten => Network!ScanIsVisible
    BY DEF Network!ScanIsVisible, IsForgotten
  <2> QED BY <2>1, <2>2 DEF Network!ScansAreTold
<1> QED
  BY <1>1, <1>2, <1>3, NetTypesHold, ScansAreForgottenForRoomOnly, PTL
  DEF Network!Spec, ForgetsOnlyForRoom

=============================================================================
