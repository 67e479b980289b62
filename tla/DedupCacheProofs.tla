-------------------------- MODULE DedupCacheProofs --------------------------
(***************************************************************************)
(* What the operations of the de-duplication cache return, for every       *)
(* capacity, time to live and set of keys.                                 *)
(***************************************************************************)
EXTENDS DedupCache, FiniteSetTheorems, SequenceTheorems, WellFoundedInduction, TLAPS

Ages == 0..(TtlSecs + 1)
CacheOf(Keys) == [keys : SUBSET Keys, age : [Keys -> Ages], order : Seq(Keys)]

(* No more keys than the capacity, each with a slot in the queue. *)
WithinCapacity(c) ==
  /\ IsFiniteSet(c.keys) /\ Cardinality(c.keys) <= Capacity
  /\ c.keys \subseteq KeysIn(c.order)

(* The slots before and after position n of a queue. *)
LEMMA QueueSplits ==
  ASSUME NEW S, NEW s \in Seq(S), NEW n \in 0..Len(s)
  PROVE  /\ KeysIn(SubSeq(s, 1, n)) = {s[i] : i \in 1..n}
         /\ KeysIn(SubSeq(s, n + 1, Len(s))) = {s[i] : i \in (n + 1)..Len(s)}
         /\ SubSeq(s, n + 1, Len(s)) \in Seq(S)
         /\ KeysIn(s) = {s[i] : i \in 1..Len(s)}
<1>1. /\ SubSeq(s, 1, n) \in Seq(S) /\ Len(SubSeq(s, 1, n)) = n
      /\ \A i \in 1..n : SubSeq(s, 1, n)[i] = s[i]
  BY SubSeqProperties
<1>2. /\ SubSeq(s, n + 1, Len(s)) \in Seq(S)
      /\ Len(SubSeq(s, n + 1, Len(s))) = Len(s) - n
      /\ \A i \in 1..(Len(s) - n) : SubSeq(s, n + 1, Len(s))[i] = s[n + i]
  BY SubSeqProperties
<1>3. KeysIn(SubSeq(s, 1, n)) = {s[i] : i \in 1..n}
  <2> DEFINE t == SubSeq(s, 1, n)
  <2>1. DOMAIN t = 1..n /\ \A i \in 1..n : t[i] = s[i]
    BY <1>1
  <2> HIDE DEF t
  <2>2. KeysIn(t) = {s[i] : i \in 1..n}
    BY <2>1 DEF KeysIn
  <2> QED
    BY <2>2 DEF t
<1>4. KeysIn(SubSeq(s, n + 1, Len(s))) = {s[n + i] : i \in 1..(Len(s) - n)}
  <2> DEFINE t == SubSeq(s, n + 1, Len(s))
  <2>1. DOMAIN t = 1..(Len(s) - n) /\ \A i \in 1..(Len(s) - n) : t[i] = s[n + i]
    BY <1>2
  <2> HIDE DEF t
  <2>2. KeysIn(t) = {s[n + i] : i \in 1..(Len(s) - n)}
    BY <2>1 DEF KeysIn
  <2> QED
    BY <2>2 DEF t
<1>5. {s[n + i] : i \in 1..(Len(s) - n)} = {s[i] : i \in (n + 1)..Len(s)}
  <2>1. \A i \in 1..(Len(s) - n) : n + i \in (n + 1)..Len(s)
    OBVIOUS
  <2>2. \A j \in (n + 1)..Len(s) : j - n \in 1..(Len(s) - n) /\ n + (j - n) = j
    OBVIOUS
  <2> QED
    BY <2>1, <2>2
<1>6. KeysIn(s) = {s[i] : i \in 1..Len(s)}
  BY DEF KeysIn
<1> QED
  BY <1>2, <1>3, <1>4, <1>5, <1>6

(* A key pushed to the back of a queue. *)
LEMMA AppendQueues ==
  ASSUME NEW S, NEW s \in Seq(S), NEW k \in S
  PROVE  KeysIn(Append(s, k)) = KeysIn(s) \cup {k}
<1> DEFINE t == Append(s, k)
<1>1. /\ Len(s) \in Nat /\ DOMAIN s = 1..Len(s) /\ DOMAIN t = 1..(Len(s) + 1)
      /\ \A i \in 1..Len(s) : t[i] = s[i]
      /\ t[Len(s) + 1] = k
  BY AppendProperties
<1> HIDE DEF t
<1>2. KeysIn(t) = {t[i] : i \in 1..(Len(s) + 1)} /\ KeysIn(s) = {s[i] : i \in 1..Len(s)}
  BY <1>1 DEF KeysIn
<1>3. \A i \in 1..(Len(s) + 1) : i \in 1..Len(s) \/ i = Len(s) + 1
  BY <1>1
<1>4. 1..Len(s) \subseteq 1..(Len(s) + 1) /\ Len(s) + 1 \in 1..(Len(s) + 1)
  BY <1>1
<1>5. KeysIn(t) = KeysIn(s) \cup {k}
  BY <1>1, <1>2, <1>3, <1>4
<1> QED
  BY <1>5 DEF t

(* Keys leave the map without leaving the queue. *)
LEMMA RemoveProperty ==
  ASSUME NEW Keys, NEW c \in CacheOf(Keys), NEW K
  PROVE  /\ Remove(c, K) \in CacheOf(Keys)
         /\ Remove(c, K).keys = c.keys \ K
         /\ Remove(c, K).order = c.order
<1> DEFINE age == [k \in Keys |-> IF k \in K THEN 0 ELSE c.age[k]]
<1>1. /\ c = [keys |-> c.keys, age |-> c.age, order |-> c.order]
      /\ c.keys \subseteq Keys /\ c.age \in [Keys -> Ages] /\ c.order \in Seq(Keys)
  BY DEF CacheOf
<1>2. age \in [Keys -> Ages]
  BY <1>1, CacheAssumption DEF Ages
<1>3. DOMAIN c.age = Keys
  BY <1>1
<1>4. Remove(c, K) = [keys |-> c.keys \ K, age |-> age, order |-> c.order]
  <2> DEFINE aged == [k \in DOMAIN c.age |-> IF k \in K THEN 0 ELSE c.age[k]]
  <2>1. aged = age
    BY <1>3
  <2>2. Remove(c, K) = [c EXCEPT !.keys = c.keys \ K, !.age = aged]
    BY DEF Remove
  <2> HIDE DEF aged, age
  <2> QED
    BY <1>1, <2>1, <2>2
<1> HIDE DEF age
<1>5. c.keys \ K \in SUBSET Keys
  BY <1>1
<1> QED
  BY <1>1, <1>2, <1>4, <1>5 DEF CacheOf

(***************************************************************************)
(* The eviction loop ends with room for one more key; what it pops is a    *)
(* key's only slot when it takes the key out of the map, and it takes out  *)
(* at most one, and that only at capacity: the key of the last slot popped. *)
(***************************************************************************)
LEMMA MakeRoomProperty ==
  ASSUME NEW Keys, NEW c \in CacheOf(Keys), WithinCapacity(c)
  PROVE  /\ MakeRoom(c) \in CacheOf(Keys)
         /\ MakeRoom(c).keys \subseteq c.keys
         /\ IsFiniteSet(MakeRoom(c).keys)
         /\ Cardinality(MakeRoom(c).keys) < Capacity
         /\ MakeRoom(c).keys \subseteq KeysIn(MakeRoom(c).order)
         /\ \A j, k \in c.keys \ MakeRoom(c).keys :
              j = k /\ Cardinality(c.keys) = Capacity
         /\ \E n \in 0..Len(c.order) :
              /\ MakeRoom(c).order = SubSeq(c.order, n + 1, Len(c.order))
              /\ \A k \in c.keys \ MakeRoom(c).keys : n # 0 /\ k = c.order[n]
<1> USE CacheAssumption
<1> DEFINE len        == Len(c.order)
           Popped(n)  == KeysIn(SubSeq(c.order, 1, n))
           HasRoom(n) == Cardinality(c.keys \ Popped(n)) < Capacity
           Enough     == {n \in 0..len : HasRoom(n)}
           Least(n)   == HasRoom(n) /\ \A m \in 0..(n - 1) : ~HasRoom(m)
           pops       == CHOOSE n \in 0..len : Least(n)
<1>1. /\ c.order \in Seq(Keys) /\ len \in Nat /\ c.keys \subseteq Keys
      /\ c.age \in [Keys -> Ages]
  BY DEF CacheOf
<1>2. \A n \in 0..len : Popped(n) = {c.order[i] : i \in 1..n}
  BY <1>1, QueueSplits
<1>3. len \in Enough
  <2>1. c.keys \subseteq Popped(len)
    BY <1>1, <1>2, QueueSplits DEF WithinCapacity
  <2>2. c.keys \ Popped(len) = {}
    BY <2>1
  <2>3. Cardinality(c.keys \ Popped(len)) = 0
    BY <2>2, FS_EmptySet, Zenon
  <2>4. 0 < Capacity /\ len \in 0..len
    BY <1>1
  <2> HIDE DEF len, Popped
  <2> QED
    BY <2>3, <2>4
<1>4. \E n \in 0..len : Least(n)
  <2>1. Enough \subseteq Nat /\ Enough # {}
    <3>1. Enough \subseteq 0..len
      OBVIOUS
    <3> HIDE DEF Enough
    <3> QED
      BY <1>1, <1>3, <3>1
  <2>2. PICK k \in Enough : \A j \in Enough : ~(<<j, k>> \in OpToRel(<, Nat))
    BY <2>1, WFMin, NatLessThanWellFounded, Zenon
  <2>3. ASSUME NEW j \in Nat, NEW i \in Nat, j < i
        PROVE  <<j, i>> \in OpToRel(<, Nat)
    BY <2>3, Zenon DEF OpToRel
  <2>4. k \in Nat /\ k \in 0..len /\ HasRoom(k)
    BY <2>1
  <2>5. ASSUME NEW m \in 0..(k - 1), HasRoom(m)
        PROVE  FALSE
    <3>1. m \in Nat /\ m < k /\ m \in 0..len
      BY <2>4, <1>1
    <3>2. m \in Enough
      BY <3>1, <2>5
    <3> HIDE DEF Enough, HasRoom
    <3> QED
      BY <3>1, <3>2, <2>2, <2>3, <2>4
  <2> QED
    BY <2>4, <2>5
<1>5. pops \in 0..len /\ Least(pops)
  <2> HIDE DEF Least
  <2> QED
    BY <1>4
<1>6. MakeRoom(c) = [Remove(c, Popped(pops)) EXCEPT
                       !.order = SubSeq(c.order, pops + 1, len)]
  <2>1. \E n \in 0..len : HasRoom(n)
    BY <1>5
  <2> QED
    BY <2>1 DEF MakeRoom
<1>7. /\ MakeRoom(c).keys = c.keys \ Popped(pops)
      /\ MakeRoom(c).order = SubSeq(c.order, pops + 1, len)
      /\ MakeRoom(c) \in CacheOf(Keys)
  <2> HIDE DEF Popped, pops
  <2>1. SubSeq(c.order, pops + 1, len) \in Seq(Keys)
    BY <1>1, <1>5, QueueSplits
  <2> QED
    <3> DEFINE rest == SubSeq(c.order, pops + 1, len)
               gone == Popped(pops)
               kept == Remove(c, gone)
    <3>1. rest \in Seq(Keys)
      BY <2>1
    <3>2. kept \in CacheOf(Keys) /\ kept.keys = c.keys \ gone
      BY RemoveProperty
    <3> HIDE DEF rest, kept
    <3>3. [kept EXCEPT !.order = rest] \in CacheOf(Keys)
      BY <3>1, <3>2 DEF CacheOf
    <3>4. /\ [kept EXCEPT !.order = rest].keys = kept.keys
          /\ [kept EXCEPT !.order = rest].order = rest
      BY <3>2 DEF CacheOf
    <3> QED
      BY <1>6, <3>2, <3>3, <3>4 DEF rest, kept
<1>8. IsFiniteSet(c.keys \ Popped(pops))
  BY FS_Difference DEF WithinCapacity
<1>9. Cardinality(c.keys \ Popped(pops)) < Capacity
  BY <1>5
<1>10. c.keys \ Popped(pops) \subseteq KeysIn(SubSeq(c.order, pops + 1, len))
  <2>1. /\ KeysIn(SubSeq(c.order, pops + 1, len)) = {c.order[i] : i \in (pops + 1)..len}
        /\ KeysIn(c.order) = {c.order[i] : i \in 1..len}
    <3>1. pops \in 0..Len(c.order)
      BY <1>5
    <3> HIDE DEF pops
    <3> QED
      BY <1>1, <3>1, QueueSplits
  <2>2. Popped(pops) = {c.order[i] : i \in 1..pops}
    BY <1>2, <1>5
  <2> HIDE DEF Popped, pops
  <2>3. ASSUME NEW k \in c.keys \ Popped(pops)
        PROVE  k \in {c.order[i] : i \in (pops + 1)..len}
    <3>1. PICK i \in 1..len : k = c.order[i]
      BY <2>1 DEF WithinCapacity
    <3>2. i \notin 1..pops
      BY <3>1, <2>2
    <3>3. i \in (pops + 1)..len
      BY <3>2, <1>5, <1>1
    <3> QED
      BY <3>1, <3>3
  <2> QED
    BY <2>1, <2>3
<1>11. ASSUME NEW j \in c.keys, NEW k \in c.keys,
              j \in Popped(pops), k \in Popped(pops)
       PROVE  /\ j = k /\ Cardinality(c.keys) = Capacity
              /\ pops # 0 /\ k = c.order[pops]
  <2>1. pops # 0
    <3>1. Popped(0) = {c.order[i] : i \in 1..0}
      BY <1>1, <1>2
    <3> HIDE DEF Popped, pops
    <3> QED
      BY <1>11, <3>1
  <2>2. pops - 1 \in 0..(pops - 1) /\ pops - 1 \in 0..len
    <3>1. pops \in 0..len
      BY <1>5
    <3> HIDE DEF len, pops
    <3> QED
      BY <1>1, <3>1, <2>1
  <2>3. Cardinality(c.keys \ Popped(pops - 1)) >= Capacity
    <3>1. ~HasRoom(pops - 1)
      BY <1>5, <2>2
    <3>2. IsFiniteSet(c.keys \ Popped(pops - 1))
      BY FS_Difference DEF WithinCapacity
    <3>3. Cardinality(c.keys \ Popped(pops - 1)) \in Nat
      BY <3>2, FS_CardinalityType
    <3> QED
      BY <3>1, <3>3
  <2>4. c.keys \ Popped(pops - 1) = c.keys /\ Cardinality(c.keys) = Capacity
    <3>1. /\ Cardinality(c.keys) \in Nat
          /\ Cardinality(c.keys \ Popped(pops - 1)) \in Nat
          /\ Cardinality(c.keys \ Popped(pops - 1)) <= Cardinality(c.keys)
          /\ Cardinality(c.keys \ Popped(pops - 1)) = Cardinality(c.keys)
               => c.keys \ Popped(pops - 1) = c.keys
      BY FS_Subset, FS_CardinalityType DEF WithinCapacity
    <3> HIDE DEF Popped, pops
    <3> QED
      BY <3>1, <2>3 DEF WithinCapacity
  <2>5. /\ Popped(pops) = {c.order[i] : i \in 1..pops}
        /\ Popped(pops - 1) = {c.order[i] : i \in 1..(pops - 1)}
    BY <1>2, <1>5, <2>2
  <2> HIDE DEF Popped, pops
  <2>6. ASSUME NEW l \in c.keys, l \in Popped(pops)
        PROVE  l = c.order[pops]
    <3>1. PICK i \in 1..pops : l = c.order[i]
      BY <2>5, <2>6
    <3>2. i \notin 1..(pops - 1)
      BY <3>1, <2>4, <2>5, <2>6
    <3> QED
      BY <3>1, <3>2, <1>5
  <2> QED
    BY <2>1, <2>4, <2>6, <1>11
<1>12. pops \in 0..Len(c.order) /\ len = Len(c.order)
  BY <1>5
<1> HIDE DEF Popped, pops, len
<1>13. \A k \in c.keys \ MakeRoom(c).keys : pops # 0 /\ k = c.order[pops]
  BY <1>7, <1>11
<1> QED
  BY <1>7, <1>8, <1>9, <1>10, <1>11, <1>12, <1>13

(***************************************************************************)
(* Recording a key keeps the map within its capacity and every key queued. *)
(* It forgets at most one key, and that only when the map is full.         *)
(***************************************************************************)
LEMMA RecordProperty ==
  ASSUME NEW Keys, NEW c \in CacheOf(Keys), WithinCapacity(c),
         NEW k \in Keys, NEW ago \in Ages
  PROVE  /\ Record(c, k, ago) \in CacheOf(Keys)
         /\ WithinCapacity(Record(c, k, ago))
         /\ k \in Record(c, k, ago).keys
         /\ Record(c, k, ago).keys \subseteq c.keys \cup {k}
         /\ \A i, j \in c.keys \ Record(c, k, ago).keys :
              i = j /\ Cardinality(c.keys) = Capacity
<1>1. CASE k \in c.keys
  <2>1. Record(c, k, ago) = [c EXCEPT !.age[k] = ago]
    BY <1>1 DEF Record
  <2>2. Record(c, k, ago) \in CacheOf(Keys) /\ Record(c, k, ago).keys = c.keys /\ Record(c, k, ago).order = c.order
    BY <2>1 DEF CacheOf
  <2> QED
    BY <1>1, <2>2 DEF WithinCapacity
<1>2. CASE k \notin c.keys
  <2>1. Record(c, k, ago) = [MakeRoom(c) EXCEPT !.keys = @ \cup {k}, !.order = Append(@, k), !.age[k] = ago]
    BY <1>2 DEF Record
  <2>2. /\ MakeRoom(c) \in CacheOf(Keys) /\ MakeRoom(c).keys \subseteq c.keys
        /\ IsFiniteSet(MakeRoom(c).keys) /\ Cardinality(MakeRoom(c).keys) < Capacity
        /\ MakeRoom(c).keys \subseteq KeysIn(MakeRoom(c).order)
        /\ \A i, j \in c.keys \ MakeRoom(c).keys : i = j /\ Cardinality(c.keys) = Capacity
    BY MakeRoomProperty
  <2>3. /\ Record(c, k, ago) \in CacheOf(Keys)
        /\ Record(c, k, ago).keys = MakeRoom(c).keys \cup {k}
        /\ Record(c, k, ago).order = Append(MakeRoom(c).order, k)
    <3>1. Append(MakeRoom(c).order, k) \in Seq(Keys)
      BY <2>2, AppendProperties DEF CacheOf
    <3> DEFINE room  == MakeRoom(c)
               order == Append(room.order, k)
               age   == [room.age EXCEPT ![k] = ago]
    <3>2. /\ room = [keys |-> room.keys, age |-> room.age, order |-> room.order]
          /\ room.keys \cup {k} \in SUBSET Keys /\ room.age \in [Keys -> Ages]
      BY <2>2 DEF CacheOf
    <3>3. age \in [Keys -> Ages]
      BY <3>2
    <3> HIDE DEF room
    <3>4. Record(c, k, ago) = [keys |-> room.keys \cup {k}, age |-> age, order |-> order]
      BY <2>1, <3>2 DEF room
    <3> HIDE DEF age, order
    <3>5. Record(c, k, ago) \in CacheOf(Keys)
      BY <3>1, <3>2, <3>3, <3>4 DEF CacheOf, order, room
    <3>6. Record(c, k, ago).keys = room.keys \cup {k} /\ Record(c, k, ago).order = order
      BY <3>4
    <3> QED
      BY <3>5, <3>6 DEF order, room
  <2>4. k \notin MakeRoom(c).keys
    BY <1>2, <2>2
  <2>5. IsFiniteSet(Record(c, k, ago).keys) /\ Cardinality(Record(c, k, ago).keys) <= Capacity
    <3>1. /\ IsFiniteSet(MakeRoom(c).keys \cup {k})
          /\ Cardinality(MakeRoom(c).keys \cup {k}) = Cardinality(MakeRoom(c).keys) + 1
      BY <2>2, <2>4, FS_AddElement
    <3>2. Cardinality(MakeRoom(c).keys) \in Nat
      BY <2>2, FS_CardinalityType
    <3> QED
      BY <2>2, <2>3, <3>1, <3>2, CacheAssumption
  <2>6. Record(c, k, ago).keys \subseteq KeysIn(Record(c, k, ago).order)
    <3>1. MakeRoom(c).order \in Seq(Keys)
      BY <2>2 DEF CacheOf
    <3>2. KeysIn(Append(MakeRoom(c).order, k)) = KeysIn(MakeRoom(c).order) \cup {k}
      BY <3>1, AppendQueues
    <3> QED
      BY <2>2, <2>3, <3>2
  <2> QED
    BY <2>2, <2>3, <2>5, <2>6 DEF WithinCapacity
<1> QED
  BY <1>1, <1>2

(* A look-up drops the key if it had expired, and nothing else. *)
LEMMA AfterGetProperty ==
  ASSUME NEW Keys, NEW c \in CacheOf(Keys), WithinCapacity(c), NEW k \in Keys
  PROVE  /\ AfterGet(c, k) \in CacheOf(Keys) /\ WithinCapacity(AfterGet(c, k))
         /\ AfterGet(c, k).keys \subseteq c.keys
         /\ c.keys \ AfterGet(c, k).keys \subseteq {k}
         /\ \A j \in c.keys \ AfterGet(c, k).keys : Expired(c, j)
         /\ ~Hit(c, k) => k \notin AfterGet(c, k).keys
<1>1. CASE k \in c.keys /\ Expired(c, k)
  <2>1. /\ AfterGet(c, k) = Remove(c, {k}) /\ AfterGet(c, k).keys = c.keys \ {k}
        /\ AfterGet(c, k).order = c.order
    BY <1>1, RemoveProperty DEF AfterGet
  <2>2. AfterGet(c, k) \in CacheOf(Keys)
    BY <1>1, RemoveProperty DEF AfterGet
  <2>3. IsFiniteSet(c.keys \ {k}) /\ Cardinality(c.keys \ {k}) <= Cardinality(c.keys)
    BY FS_Subset DEF WithinCapacity
  <2>4. Cardinality(c.keys \ {k}) \in Nat /\ Cardinality(c.keys) \in Nat
    BY <2>3, FS_CardinalityType DEF WithinCapacity
  <2> QED
    BY <1>1, <2>1, <2>2, <2>3, <2>4, CacheAssumption DEF WithinCapacity
<1>2. CASE ~(k \in c.keys /\ Expired(c, k))
  BY <1>2 DEF AfterGet, Hit
<1> QED
  BY <1>1, <1>2
(* No more keys than slots. *)
LEMMA KeysAreFew ==
  ASSUME NEW S, NEW s \in Seq(S)
  PROVE  IsFiniteSet(KeysIn(s)) /\ Cardinality(KeysIn(s)) <= Len(s)
<1>1. Len(s) \in Nat /\ DOMAIN s = 1..Len(s) /\ s \in [1..Len(s) -> S]
  OBVIOUS
<1>2. s \in Surjection(1..Len(s), KeysIn(s))
  <2>1. s = [i \in 1..Len(s) |-> s[i]]
    BY <1>1
  <2>2. s \in [1..Len(s) -> KeysIn(s)]
    BY <1>1, <2>1 DEF KeysIn
  <2> QED
    BY <1>1, <2>2 DEF Surjection, KeysIn
<1>3. IsFiniteSet(1..Len(s)) /\ Cardinality(1..Len(s)) = Len(s)
  <2>1. CASE Len(s) = 0
    BY <1>1, <2>1, FS_Interval, FS_EmptySet
  <2>2. CASE Len(s) # 0
    BY <1>1, <2>2, FS_Interval
  <2> QED
    BY <2>1, <2>2
<1>4. IsFiniteSet(KeysIn(s)) /\ Cardinality(KeysIn(s)) <= Cardinality(1..Len(s))
  BY <1>2, <1>3, FS_Surjection
<1> QED
  BY <1>3, <1>4

(***************************************************************************)
(* What an eviction says of the key it takes out: since its slot was made, *)
(* a capacity's worth of slots less one has been added, for the other keys *)
(* in the map are all queued behind it.                                    *)
(***************************************************************************)
LEMMA EvictedIsOld ==
  ASSUME NEW Keys, NEW c \in CacheOf(Keys), WithinCapacity(c)
  PROVE  \E n \in 0..Len(c.order) :
           /\ MakeRoom(c).order = SubSeq(c.order, n + 1, Len(c.order))
           /\ \A k \in c.keys \ MakeRoom(c).keys :
                n # 0 /\ k = c.order[n] /\ Capacity <= Len(c.order) - n + 1
<1>1. PICK n \in 0..Len(c.order) :
        /\ MakeRoom(c).order = SubSeq(c.order, n + 1, Len(c.order))
        /\ \A k \in c.keys \ MakeRoom(c).keys : n # 0 /\ k = c.order[n]
  BY MakeRoomProperty
<1>2. ASSUME NEW k \in c.keys \ MakeRoom(c).keys
      PROVE  Capacity <= Len(c.order) - n + 1
  <2> DEFINE room == MakeRoom(c)
  <2>1. /\ Cardinality(c.keys) = Capacity /\ IsFiniteSet(c.keys)
        /\ room.keys = c.keys \ {k}
        /\ room.keys \subseteq KeysIn(room.order)
        /\ room \in CacheOf(Keys)
    BY MakeRoomProperty DEF WithinCapacity
  <2>2. Cardinality(room.keys) = Capacity - 1
    BY <2>1, FS_RemoveElement
  <2>3. c.order \in Seq(Keys) /\ Len(c.order) \in Nat /\ room.order \in Seq(Keys)
    BY <2>1 DEF CacheOf
  <2>4. Len(room.order) = Len(c.order) - n
    BY <1>1, <2>3, SubSeqProperties
  <2>5. IsFiniteSet(KeysIn(room.order)) /\ Cardinality(KeysIn(room.order)) <= Len(room.order)
    BY <2>3, KeysAreFew
  <2>6. Cardinality(room.keys) <= Cardinality(KeysIn(room.order))
        /\ Cardinality(KeysIn(room.order)) \in Nat
    BY <2>1, <2>5, FS_Subset, FS_CardinalityType
  <2> HIDE DEF room
  <2> QED
    BY <2>2, <2>3, <2>4, <2>5, <2>6, CacheAssumption
<1> QED
  BY <1>1, <1>2

(***************************************************************************)
(* Taking up a token that is not seen: its slot is the last, the slots     *)
(* before it are the end of the old queue, and only a key whose slot was   *)
(* the last one popped leaves the map.                                     *)
(***************************************************************************)
LEMMA TakeUpProperty ==
  ASSUME NEW Keys, NEW c \in CacheOf(Keys), WithinCapacity(c),
         NEW t \in Keys, ~Seen(c, t)
  PROVE  LET d == TakeUp(c, t)
         IN /\ d \in CacheOf(Keys) /\ WithinCapacity(d) /\ t \in d.keys
            /\ \E n \in 0..Len(c.order) :
                 /\ Len(d.order) = Len(c.order) - n + 1
                 /\ d.order[Len(d.order)] = t
                 /\ \A i \in 1..(Len(c.order) - n) : d.order[i] = c.order[n + i]
                 /\ \A k \in c.keys \ d.keys :
                      n # 0 /\ k = c.order[n] /\ Capacity <= Len(c.order) - n + 1
<1> DEFINE b    == AfterGet(c, t)
           room == MakeRoom(b)
           d    == TakeUp(c, t)
<1>1. /\ b \in CacheOf(Keys) /\ WithinCapacity(b) /\ t \notin b.keys
      /\ c.keys \ b.keys \subseteq {t} /\ b.order = c.order
  <2>1. b.order = c.order
    BY RemoveProperty DEF AfterGet
  <2> QED
    BY <2>1, AfterGetProperty DEF Seen
<1> HIDE DEF b
<1>2. 0 \in Ages
  BY CacheAssumption DEF Ages
<1>3. d = Record(b, t, 0)
  BY DEF TakeUp, b
<1>4. d \in CacheOf(Keys) /\ WithinCapacity(d) /\ t \in d.keys
  BY <1>1, <1>2, <1>3, RecordProperty
<1>5. PICK n \in 0..Len(c.order) :
        /\ room.order = SubSeq(c.order, n + 1, Len(c.order))
        /\ \A k \in b.keys \ room.keys :
             n # 0 /\ k = c.order[n] /\ Capacity <= Len(c.order) - n + 1
  BY <1>1, EvictedIsOld
<1>6. room \in CacheOf(Keys)
  BY <1>1, MakeRoomProperty
<1> HIDE DEF room
<1>7. d.keys = room.keys \cup {t} /\ d.order = Append(room.order, t)
  <2>1. d = [room EXCEPT !.keys = @ \cup {t}, !.order = Append(@, t), !.age[t] = 0]
    BY <1>1, <1>3 DEF Record, room
  <2>2. room = [keys |-> room.keys, age |-> room.age, order |-> room.order]
    BY <1>6 DEF CacheOf
  <2> QED
    BY <2>1, <2>2
<1>8. c.order \in Seq(Keys) /\ Len(c.order) \in Nat /\ room.order \in Seq(Keys)
  BY <1>6 DEF CacheOf
<1>9. Len(room.order) = Len(c.order) - n
      /\ \A i \in 1..(Len(c.order) - n) : room.order[i] = c.order[n + i]
  BY <1>5, <1>8, SubSeqProperties
<1> HIDE DEF d
<1>10. /\ Len(d.order) = Len(c.order) - n + 1
       /\ d.order[Len(d.order)] = t
       /\ \A i \in 1..(Len(c.order) - n) : d.order[i] = c.order[n + i]
  <2>1. /\ Len(Append(room.order, t)) = Len(room.order) + 1
        /\ \A i \in 1..Len(room.order) : Append(room.order, t)[i] = room.order[i]
        /\ Append(room.order, t)[Len(room.order) + 1] = t
    BY <1>8, AppendProperties
  <2> QED
    BY <1>7, <1>9, <2>1
<1>11. \A k \in c.keys \ d.keys :
         n # 0 /\ k = c.order[n] /\ Capacity <= Len(c.order) - n + 1
  <2> TAKE k \in c.keys \ d.keys
  <2>1. k \in b.keys \ room.keys
    BY <1>1, <1>4, <1>7
  <2> QED
    BY <1>5, <2>1
<1> QED
  BY <1>4, <1>10, <1>11 DEF d

(* A second passes: the keys and their slots stay, only the ages grow. *)
LEMMA OlderProperty ==
  ASSUME NEW Keys, NEW c \in CacheOf(Keys)
  PROVE  /\ Older(c) \in CacheOf(Keys)
         /\ Older(c).keys = c.keys /\ Older(c).order = c.order
<1> DEFINE age == [k \in Keys |-> IF k \in c.keys THEN OneOlder(c.age[k]) ELSE c.age[k]]
           aged == [k \in DOMAIN c.age |-> IF k \in c.keys THEN OneOlder(c.age[k])
                                           ELSE c.age[k]]
<1>1. c = [keys |-> c.keys, age |-> c.age, order |-> c.order] /\ c.age \in [Keys -> Ages]
  BY DEF CacheOf
<1>2. age \in [Keys -> Ages]
  BY <1>1, CacheAssumption DEF OneOlder, Ages
<1>3. Older(c) = [c EXCEPT !.age = aged]
  BY DEF Older
<1>4. aged = age
  BY <1>1
<1> HIDE DEF age, aged
<1>5. Older(c) = [keys |-> c.keys, age |-> age, order |-> c.order]
  BY <1>1, <1>3, <1>4
<1> QED
  BY <1>2, <1>5 DEF CacheOf
==============================================================================
