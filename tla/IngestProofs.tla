---------------------------- MODULE IngestProofs ----------------------------
(***************************************************************************)
(* Proofs about Ingest, for any keys, capacity, time to live and bounds:   *)
(* the cache stays bounded, one outcome per key until it is forgotten, and *)
(* no accepting reply without a message in the log.                        *)
(***************************************************************************)
EXTENDS Ingest, DedupCacheProofs

(* A key k is in the log, at the cursor o or after it. *)
AppendedFrom(o, k) == \E i \in DOMAIN appends : i >= o /\ appends[i] = k

(***************************************************************************)
(* What the cache owes the log and the replies: an accepting outcome in it *)
(* is backed by the log, and of every key that was appended or answered    *)
(* and is not forgotten it holds the one outcome that was answered.        *)
(***************************************************************************)
CacheKnows ==
  /\ \A k \in cache.keys : outcome[k] # Handled => AppendedFrom(outcome[k], k)
  /\ \A i \in DOMAIN appends : appends[i] \in cache.keys \cup forgotten \cup {OwnerKey}
  /\ \A t \in DOMAIN key : \A o \in replies[t] :
       DedupKey(t) \in forgotten
         \/ (DedupKey(t) \in cache.keys /\ o = outcome[DedupKey(t)])

AppendedOnce == \A i, j \in DOMAIN appends :
  appends[i] = appends[j] => i = j \/ appends[i] \in forgotten \cup {OwnerKey}

(***************************************************************************)
(* The inductive invariant.  The look-up and the record are two steps, but *)
(* the key a worker is applying stays out of the cache in between: that is *)
(* why an outcome that was answered is never replaced by another.          *)
(***************************************************************************)
IngestInv ==
  /\ TypeOK
  /\ WithinCapacity(cache)
  /\ applying => DedupKey(Head(batch)) \notin cache.keys
  /\ \A t \in Token \ DOMAIN key : replies[t] = {}
  /\ CacheKnows
  /\ AppendedOnce
  /\ AcceptedIsAppended

------------------------------------------------------------------------------
(* Facts about one state *)

CacheType == [keys : SUBSET Keys, age : [Keys -> 0..(TtlSecs + 1)], order : Seq(Keys)]

(* The cache of this module is one of DedupCache over the keys here. *)
LEMMA CacheTypes == CacheType = CacheOf(Keys)
  BY DEF CacheType, CacheOf, Ages

(* What the type invariant says of requests and their keys. *)
LEMMA KeysAreTyped ==
  ASSUME TypeOK
  PROVE  /\ DOMAIN key = 1..Len(key) /\ DOMAIN key \subseteq Token
         /\ \A t \in DOMAIN key : DedupKey(t) \in Keys
         /\ cache \in CacheOf(Keys)
         /\ OwnerKey \notin Keys
         /\ batch # <<>> => Head(batch) \in DOMAIN key
<1>1. DOMAIN key = 1..Len(key) /\ Len(key) \in Nat /\ Len(key) <= MaxTokens
  BY DEF TypeOK
<1>2. DOMAIN key \subseteq Token
  BY <1>1, BoundsAssumption DEF Token
<1>3. \A t \in DOMAIN key : DedupKey(t) \in Keys
  <2>1. \A t \in DOMAIN key : key[t] \in IdempotencyKeys \cup {NoKey}
    BY DEF TypeOK
  <2> QED
    BY <1>2, <2>1 DEF DedupKey, Keys
<1>4. batch # <<>> => Head(batch) \in DOMAIN key
  <2>1. batch \in Seq(DOMAIN key)
    BY <1>1 DEF TypeOK
  <2> QED
    BY <2>1
<1>5. OwnerKey \notin Keys
  BY KeysAssumption DEF Keys, Token
<1>6. cache \in CacheOf(Keys)
  BY CacheTypes DEF TypeOK, CacheType
<1> QED
  BY <1>1, <1>2, <1>3, <1>4, <1>5, <1>6

(* An append to the log keeps what is there and adds one message. *)
LEMMA LogGrows ==
  ASSUME NEW S, NEW log \in Seq(S), NEW k \in S
  PROVE  /\ Append(log, k) \in Seq(S)
         /\ Len(Append(log, k)) = Len(log) + 1
         /\ Len(log) + 1 \in DOMAIN Append(log, k)
         /\ Append(log, k)[Len(log) + 1] = k
         /\ DOMAIN log \subseteq DOMAIN Append(log, k)
         /\ \A i \in DOMAIN log : Append(log, k)[i] = log[i] /\ i \in 1..Len(log)
         /\ \A i \in DOMAIN Append(log, k) : i \in DOMAIN log \/ i = Len(log) + 1
<1>1. /\ Append(log, k) \in Seq(S) /\ Len(Append(log, k)) = Len(log) + 1
      /\ \A i \in 1..Len(log) : Append(log, k)[i] = log[i]
      /\ Append(log, k)[Len(log) + 1] = k
  BY AppendProperties
<1>2. /\ Len(log) \in Nat /\ DOMAIN log = 1..Len(log)
      /\ DOMAIN Append(log, k) = 1..(Len(log) + 1)
  BY <1>1
<1> QED
  BY <1>1, <1>2

------------------------------------------------------------------------------
(* One lemma per kind of step *)

(* An empty cache owes nothing to an empty log. *)
LEMMA InitHolds == Init => IngestInv
<1> SUFFICES ASSUME Init  PROVE IngestInv
  OBVIOUS
<1>1. TypeOK
  <2>1. cache \in CacheType
    <3>1. 0 \in 0..(TtlSecs + 1)
      BY CacheAssumption
    <3>2. [k \in Keys |-> 0] \in [Keys -> 0..(TtlSecs + 1)] /\ <<>> \in Seq(Keys)
      BY <3>1
    <3> QED
      BY <3>2 DEF Init, EmptyCache, CacheType
  <2>2. /\ key \in Seq(IdempotencyKeys \cup {NoKey}) /\ Len(key) <= MaxTokens
        /\ inbox \in Seq(1..Len(key)) /\ batch \in Seq(1..Len(key))
        /\ appends \in Seq(Keys \cup {OwnerKey}) /\ Len(appends) <= MaxAppends
    BY BoundsAssumption DEF Init
  <2>3. since \in [secs : 0..(TtlSecs + 1), appended : 0..Len(appends)]
    BY CacheAssumption DEF Init, Idling
  <2>4. outcome \in [Keys -> Outcome] /\ replies \in [Token -> SUBSET Outcome]
    BY DEF Init, Outcome
  <2> QED
    <3>1. applying = FALSE /\ forgotten = {} /\ restarts \in 0..MaxRestarts
      BY BoundsAssumption DEF Init
    <3> QED
      BY <2>1, <2>2, <2>3, <2>4, <3>1 DEF TypeOK, CacheType
<1>2. cache.keys = {} /\ replies = [t \in Token |-> {}] /\ key = <<>> /\ appends = <<>>
      /\ ~applying
  BY DEF Init, EmptyCache
<1>3. WithinCapacity(cache)
  BY <1>2, FS_EmptySet, CacheAssumption DEF WithinCapacity
<1> QED
  BY <1>1, <1>2, <1>3 DEF IngestInv, CacheKnows, AppendedOnce, AcceptedIsAppended

(* A new request was not answered, and no look-up has seen it. *)
LEMMA SendKeeps == ASSUME IngestInv, NEW k \in IdempotencyKeys \cup {NoKey}, Send(k)
                   PROVE  IngestInv'
<1> DEFINE t0 == Len(key) + 1
<1>1. TypeOK /\ DOMAIN key = 1..Len(key) /\ Len(key) \in Nat /\ Len(key) < MaxTokens
  BY KeysAreTyped DEF IngestInv, Send, TypeOK
<1>2. /\ key' \in Seq(IdempotencyKeys \cup {NoKey}) /\ Len(key') = t0
      /\ \A t \in DOMAIN key : key'[t] = key[t]
      /\ \A t \in DOMAIN key' : t \in DOMAIN key \/ t = t0
      /\ DOMAIN key \subseteq DOMAIN key' /\ t0 \in DOMAIN key'
  BY <1>1, LogGrows DEF Send, TypeOK
<1>3. TypeOK'
  <2>1. 1..Len(key) \subseteq 1..Len(key') /\ t0 \in 1..Len(key')
    BY <1>1, <1>2
  <2>2. inbox \in Seq(1..Len(key')) /\ batch \in Seq(1..Len(key'))
    BY <1>1, <2>1 DEF TypeOK
  <2>3. inbox' \in Seq(1..Len(key'))
    BY <2>1, <2>2 DEF Send
  <2>4. Len(key') <= MaxTokens
    BY <1>1, <1>2, BoundsAssumption
  <2> QED
    BY <1>1, <1>2, <2>2, <2>3, <2>4 DEF TypeOK, Send
<1>4. \A t \in DOMAIN key : DedupKey(t)' = DedupKey(t)
  BY <1>2 DEF DedupKey
<1>5. t0 \in Token /\ replies'[t0] = {} /\ t0 \notin DOMAIN key
  BY <1>1, BoundsAssumption DEF IngestInv, Token, Send
<1>6. (applying => DedupKey(Head(batch)) \notin cache.keys)'
  BY <1>1, <1>4, KeysAreTyped DEF IngestInv, Send, TypeOK
<1>7. CacheKnows'
  BY <1>2, <1>4, <1>5 DEF IngestInv, CacheKnows, AppendedFrom, Send
<1>8. AcceptedIsAppended'
  BY <1>2, <1>4, <1>5 DEF IngestInv, AcceptedIsAppended, Send
<1>9. WithinCapacity(cache)' /\ AppendedOnce'
  BY DEF IngestInv, Send, AppendedOnce, WithinCapacity
<1>10. (\A t \in Token \ DOMAIN key : replies[t] = {})'
  BY <1>2 DEF IngestInv, Send
<1> QED
  BY <1>3, <1>6, <1>7, <1>8, <1>9, <1>10 DEF IngestInv

(* Steps that touch only the ring and the batch. *)
LEMMA InboxKeeps == ASSUME IngestInv, RingDrops \/ Poll
                    PROVE  IngestInv'
<1>1. TypeOK'
  <2>1. Len(key) \in Nat /\ TypeOK
    BY DEF IngestInv, TypeOK
  <2>2. CASE RingDrops
    <3>1. inbox' \in Seq(1..Len(key'))
      BY <2>1, <2>2 DEF RingDrops, TypeOK
    <3> QED
      BY <2>1, <2>2, <3>1 DEF RingDrops, TypeOK
  <2>3. CASE Poll
    BY <2>1, <2>3 DEF Poll, TypeOK
  <2> QED
    BY <2>2, <2>3
<1>2. /\ UNCHANGED <<key, applying, cache, outcome, appends, replies, forgotten>>
      /\ applying => batch' = batch
  BY DEF RingDrops, Poll, IngestInv, TypeOK
<1> QED
  BY <1>1, <1>2
  DEF IngestInv, CacheKnows, AppendedFrom, AppendedOnce, AcceptedIsAppended, DedupKey,
      WithinCapacity

(* The owner publishes under no key of a request. *)
LEMMA OwnerPublishKeeps == ASSUME IngestInv, OwnerPublish
                           PROVE  IngestInv'
<1>1. TypeOK /\ appends \in Seq(Keys \cup {OwnerKey})
  BY DEF IngestInv, TypeOK
<1>2. /\ appends' \in Seq(Keys \cup {OwnerKey})
      /\ Len(appends') = Len(appends) + 1
      /\ appends'[Len(appends) + 1] = OwnerKey
      /\ DOMAIN appends \subseteq DOMAIN appends'
      /\ \A i \in DOMAIN appends : appends'[i] = appends[i]
      /\ \A i \in DOMAIN appends' : i \in DOMAIN appends \/ i = Len(appends) + 1
  BY <1>1, LogGrows DEF OwnerPublish
<1>3. TypeOK'
  <2>1. Len(appends) \in Nat /\ Len(appends') <= MaxAppends
    BY <1>1, <1>2, BoundsAssumption DEF OwnerPublish
  <2>2. since' \in [secs : 0..(TtlSecs + 1), appended : 0..Len(appends')]
    BY <1>1, <1>2, <2>1 DEF OwnerPublish, TypeOK
  <2> QED
    BY <1>1, <1>2, <2>1, <2>2 DEF OwnerPublish, TypeOK
<1>4. UNCHANGED <<key, batch, applying, cache, outcome, replies, forgotten>>
  BY DEF OwnerPublish
<1>5. CacheKnows' /\ AcceptedIsAppended'
  BY <1>2, <1>4 DEF IngestInv, CacheKnows, AppendedFrom, AcceptedIsAppended, DedupKey
<1>6. AppendedOnce'
  BY <1>2, <1>4 DEF IngestInv, AppendedOnce
<1> QED
  BY <1>3, <1>4, <1>5, <1>6 DEF IngestInv, DedupKey, WithinCapacity

(* A look-up that hits repeats the outcome that was recorded. *)
LEMMA ReplyKnownKeeps == ASSUME IngestInv, ReplyKnown
                         PROVE  IngestInv'
<1> DEFINE t0 == Head(batch)
           k0 == DedupKey(t0)
<1>1. /\ TypeOK /\ t0 \in DOMAIN key /\ t0 \in Token /\ k0 \in Keys
      /\ k0 \in cache.keys /\ ~applying
  BY KeysAreTyped DEF IngestInv, ReplyKnown, Hit
<1>2. replies' = [replies EXCEPT ![t0] = @ \cup {outcome[k0]}]
  BY DEF ReplyKnown, Replying
<1>3. UNCHANGED <<key, inbox, applying, since, cache, outcome, appends, forgotten, restarts>>
  BY DEF ReplyKnown
<1>4. \A t \in Token : \A o \in replies'[t] :
        o \in replies[t] \/ (t = t0 /\ o = outcome[k0])
  BY <1>1, <1>2 DEF TypeOK
<1>5. TypeOK'
  <2>1. replies' \in [Token -> SUBSET Outcome]
    BY <1>1, <1>2 DEF TypeOK
  <2>2. batch' \in Seq(1..Len(key))
    BY <1>1 DEF ReplyKnown, TypeOK
  <2> QED
    BY <1>1, <1>3, <2>1, <2>2 DEF TypeOK
<1>6. \A t \in DOMAIN key : t \in Token /\ DedupKey(t)' = DedupKey(t)
  BY <1>1, <1>3, KeysAreTyped DEF DedupKey
<1> HIDE DEF k0, t0
<1>7. CacheKnows'
  <2>1. \A t \in DOMAIN key : \A o \in replies'[t] :
          DedupKey(t) \in forgotten
            \/ (DedupKey(t) \in cache.keys /\ o = outcome[DedupKey(t)])
    BY <1>1, <1>4, <1>6 DEF IngestInv, CacheKnows, k0
  <2> QED
    BY <1>3, <1>6, <2>1 DEF IngestInv, CacheKnows, AppendedFrom
<1>8. AcceptedIsAppended'
  <2>1. outcome[k0] # Handled => AppendedFrom(outcome[k0], k0)
    BY <1>1 DEF IngestInv, CacheKnows
  <2>2. \A t \in DOMAIN key : \A o \in replies'[t] \ {Handled} :
          \E i \in DOMAIN appends : i >= o /\ appends[i] = DedupKey(t)
    BY <1>4, <1>6, <2>1 DEF IngestInv, AcceptedIsAppended, AppendedFrom, k0
  <2> QED
    BY <1>3, <1>6, <2>2 DEF AcceptedIsAppended
<1>9. (\A t \in Token \ DOMAIN key : replies[t] = {})'
  BY <1>1, <1>3, <1>4 DEF IngestInv
<1> QED
  BY <1>1, <1>3, <1>5, <1>7, <1>8, <1>9 DEF IngestInv, AppendedOnce, WithinCapacity

(* The look-up that misses leaves the key out of the cache. *)
LEMMA StartApplyKeeps == ASSUME IngestInv, StartApply
                         PROVE  /\ IngestInv'
                                /\ \A k \in cache.keys \ cache'.keys : Expired(cache, k)
<1> DEFINE t0 == Head(batch)
           k0 == DedupKey(t0)
<1>1. /\ TypeOK /\ t0 \in DOMAIN key /\ k0 \in Keys /\ cache \in CacheOf(Keys)
      /\ WithinCapacity(cache) /\ ~Hit(cache, k0) /\ cache' = AfterGet(cache, k0)
  BY KeysAreTyped DEF IngestInv, StartApply
<1> HIDE DEF k0
<1>2. /\ cache' \in CacheOf(Keys) /\ WithinCapacity(cache') /\ cache'.keys \subseteq cache.keys
      /\ k0 \notin cache'.keys
      /\ \A k \in cache.keys \ cache'.keys : Expired(cache, k)
  BY <1>1, AfterGetProperty
<1>3. /\ forgotten' = forgotten \cup (cache.keys \ cache'.keys)
      /\ applying' = TRUE /\ batch # <<>>
      /\ since' = [secs |-> 0, appended |-> Len(appends)]
      /\ UNCHANGED <<key, inbox, batch, outcome, appends, replies, restarts>>
  BY DEF StartApply
<1>4. TypeOK'
  <2>1. since' \in [secs : 0..(TtlSecs + 1), appended : 0..Len(appends)]
    BY <1>1, <1>3, CacheAssumption DEF TypeOK
  <2>2. forgotten' \subseteq Keys
    BY <1>1, <1>3 DEF TypeOK
  <2>3. cache' \in CacheType
    BY <1>2, CacheTypes
  <2> QED
    BY <1>1, <1>3, <2>1, <2>2, <2>3 DEF TypeOK, CacheType
<1>5. \A t \in DOMAIN key : DedupKey(t)' = DedupKey(t)
  BY <1>3 DEF DedupKey
<1>6. CacheKnows'
  BY <1>2, <1>3, <1>5 DEF IngestInv, CacheKnows, AppendedFrom
<1>7. AppendedOnce' /\ AcceptedIsAppended'
  BY <1>3, <1>5 DEF IngestInv, AppendedOnce, AcceptedIsAppended
<1>8. (applying => DedupKey(Head(batch)) \notin cache.keys)'
  BY <1>1, <1>2, <1>3, <1>5 DEF k0
<1> QED
  BY <1>2, <1>3, <1>4, <1>6, <1>7, <1>8 DEF IngestInv, WithinCapacity

(***************************************************************************)
(* The worker ends a request with outcome o.  The key is not in the cache, *)
(* so neither the log nor a reply can have another outcome of it unless it *)
(* was forgotten.                                                          *)
(***************************************************************************)
LEMMA ConcludeKeeps ==
  ASSUME IngestInv, applying, NEW o \in Outcome, Conclude(o),
         \/ appends' = appends /\ o = Handled
         \/ /\ appends' = Append(appends, DedupKey(Head(batch)))
            /\ Len(appends) < MaxAppends /\ o <= Len(appends) + 1
  PROVE  /\ IngestInv'
         /\ \A i, j \in cache.keys \ cache'.keys :
              i = j /\ Cardinality(cache.keys) = Capacity
<1> DEFINE t0 == Head(batch)
           k0 == DedupKey(t0)
           L  == Len(appends)
<1>1. /\ TypeOK /\ batch # <<>> /\ t0 \in DOMAIN key /\ t0 \in Token /\ k0 \in Keys
      /\ k0 \notin cache.keys /\ cache \in CacheOf(Keys) /\ WithinCapacity(cache)
      /\ since.secs \in Ages /\ k0 # OwnerKey
  BY KeysAreTyped DEF IngestInv, TypeOK, Ages
<1>2. /\ cache' = Record(cache, k0, since.secs)
      /\ forgotten' = forgotten \cup (cache.keys \ cache'.keys)
      /\ outcome' = [outcome EXCEPT ![k0] = o]
      /\ replies' = [replies EXCEPT ![t0] = @ \cup {o}]
      /\ batch' = Tail(batch) /\ applying' = FALSE /\ since' = Idling
      /\ UNCHANGED <<key, inbox, restarts>>
  BY DEF Conclude, Replying
<1>3. \A t \in DOMAIN key : t \in Token /\ DedupKey(t) \in Keys /\ DedupKey(t)' = DedupKey(t)
  BY <1>1, <1>2, KeysAreTyped DEF DedupKey
<1>4. /\ appends' \in Seq(Keys \cup {OwnerKey}) /\ Len(appends') <= MaxAppends
      /\ DOMAIN appends \subseteq DOMAIN appends'
      /\ \A i \in DOMAIN appends : appends'[i] = appends[i]
      /\ \A i, j \in DOMAIN appends' \ DOMAIN appends : i = j /\ appends'[i] = k0
      /\ o # Handled => \E i \in DOMAIN appends' : i >= o /\ appends'[i] = k0
  <2>1. appends \in Seq(Keys \cup {OwnerKey}) /\ L \in Nat /\ L <= MaxAppends
    BY <1>1 DEF TypeOK
  <2>2. CASE appends' = appends /\ o = Handled
    BY <2>1, <2>2
  <2>3. CASE /\ appends' = Append(appends, k0)
             /\ L < MaxAppends /\ o <= L + 1
    <3> HIDE DEF k0
    <3>1. /\ appends' \in Seq(Keys \cup {OwnerKey}) /\ Len(appends') = L + 1
          /\ L + 1 \in DOMAIN appends' /\ appends'[L + 1] = k0
          /\ DOMAIN appends \subseteq DOMAIN appends'
          /\ \A i \in DOMAIN appends : appends'[i] = appends[i]
          /\ \A i \in DOMAIN appends' : i \in DOMAIN appends \/ i = L + 1
      BY <1>1, <2>1, <2>3, LogGrows
    <3>2. L + 1 <= MaxAppends /\ L + 1 >= o
      BY <2>1, <2>3, BoundsAssumption DEF Outcome, Handled
    <3> HIDE DEF L
    <3> QED
      BY <3>1, <3>2
  <2> QED
    BY <2>2, <2>3
<1> HIDE DEF k0, t0
<1>5. /\ cache' \in CacheOf(Keys) /\ WithinCapacity(cache') /\ k0 \in cache'.keys
      /\ cache'.keys \subseteq cache.keys \cup {k0}
      /\ \A i, j \in cache.keys \ cache'.keys :
           i = j /\ Cardinality(cache.keys) = Capacity
  BY <1>1, <1>2, RecordProperty
<1>6. /\ \A k \in Keys : k # k0 => outcome'[k] = outcome[k]
      /\ outcome'[k0] = o
      /\ \A t \in Token : \A p \in replies'[t] : p \in replies[t] \/ (t = t0 /\ p = o)
  BY <1>1, <1>2 DEF TypeOK
<1>7. TypeOK'
  <2>1. since' \in [secs : 0..(TtlSecs + 1), appended : 0..Len(appends')]
    BY <1>2, <1>4, CacheAssumption DEF Idling
  <2>2. outcome' \in [Keys -> Outcome] /\ replies' \in [Token -> SUBSET Outcome]
    BY <1>1, <1>2 DEF TypeOK
  <2>3. batch' \in Seq(1..Len(key))
    BY <1>1, <1>2 DEF TypeOK
  <2>4. forgotten' \subseteq Keys
    BY <1>1, <1>2 DEF TypeOK
  <2>5. cache' \in CacheType
    BY <1>5, CacheTypes
  <2> QED
    BY <1>1, <1>2, <1>4, <2>1, <2>2, <2>3, <2>4, <2>5 DEF TypeOK, CacheType
<1>8. CacheKnows'
  <2>1. \A k \in cache'.keys : outcome'[k] # Handled =>
          \E i \in DOMAIN appends' : i >= outcome'[k] /\ appends'[i] = k
    <3>1. SUFFICES ASSUME NEW k \in cache'.keys, outcome'[k] # Handled
                   PROVE  \E i \in DOMAIN appends' : i >= outcome'[k] /\ appends'[i] = k
      OBVIOUS
    <3>2. CASE k = k0
      BY <1>4, <1>6, <3>1, <3>2
    <3>3. CASE k # k0
      <4>1. k \in cache.keys /\ k \in Keys /\ outcome'[k] = outcome[k]
        BY <1>5, <1>6, <3>3, <1>1 DEF CacheOf
      <4>2. PICK i \in DOMAIN appends : i >= outcome[k] /\ appends[i] = k
        BY <4>1, <3>1 DEF IngestInv, CacheKnows, AppendedFrom
      <4> QED
        BY <4>1, <4>2, <1>4
    <3> QED
      BY <3>2, <3>3
  <2>2. \A i \in DOMAIN appends' :
          appends'[i] \in cache'.keys \cup forgotten' \cup {OwnerKey}
    BY <1>2, <1>4, <1>5 DEF IngestInv, CacheKnows
  <2>3. \A t \in DOMAIN key : \A p \in replies'[t] :
          DedupKey(t) \in forgotten'
            \/ (DedupKey(t) \in cache'.keys /\ p = outcome'[DedupKey(t)])
    <3>1. SUFFICES ASSUME NEW t \in DOMAIN key, NEW p \in replies'[t],
                          DedupKey(t) \notin forgotten'
                   PROVE  DedupKey(t) \in cache'.keys /\ p = outcome'[DedupKey(t)]
      OBVIOUS
    <3>2. CASE p \in replies[t]
      <4>1. DedupKey(t) \in cache.keys /\ p = outcome[DedupKey(t)]
        BY <1>2, <3>1, <3>2 DEF IngestInv, CacheKnows
      <4>2. DedupKey(t) # k0 /\ DedupKey(t) \in cache'.keys
        BY <1>1, <1>2, <3>1, <4>1
      <4> QED
        BY <1>3, <1>6, <4>1, <4>2
    <3>3. CASE t = t0 /\ p = o
      BY <1>5, <1>6, <3>3 DEF k0
    <3> QED
      BY <1>3, <1>6, <3>1, <3>2, <3>3
  <2> QED
    BY <1>2, <1>3, <2>1, <2>2, <2>3 DEF CacheKnows, AppendedFrom
<1>9. AppendedOnce'
  <2>1. \A i \in DOMAIN appends : appends[i] = k0 => k0 \in forgotten
    BY <1>1 DEF IngestInv, CacheKnows
  <2>2. forgotten \subseteq forgotten'
    BY <1>2
  <2> QED
    BY <1>4, <2>1, <2>2 DEF IngestInv, AppendedOnce
<1>10. AcceptedIsAppended'
  <2>1. \A t \in DOMAIN key : \A p \in replies'[t] \ {Handled} :
          \E i \in DOMAIN appends' : i >= p /\ appends'[i] = DedupKey(t)
    <3>1. SUFFICES ASSUME NEW t \in DOMAIN key, NEW p \in replies'[t], p # Handled
                   PROVE  \E i \in DOMAIN appends' : i >= p /\ appends'[i] = DedupKey(t)
      OBVIOUS
    <3>2. CASE p \in replies[t]
      <4>1. PICK i \in DOMAIN appends : i >= p /\ appends[i] = DedupKey(t)
        BY <3>1, <3>2 DEF IngestInv, AcceptedIsAppended
      <4> QED
        BY <1>4, <4>1
    <3>3. CASE t = t0 /\ p = o
      BY <1>4, <3>1, <3>3 DEF k0
    <3> QED
      BY <1>3, <1>6, <3>1, <3>2, <3>3
  <2> QED
    BY <1>2, <1>3, <2>1 DEF AcceptedIsAppended
<1>11. (\A t \in Token \ DOMAIN key : replies[t] = {})'
  BY <1>1, <1>2, <1>6 DEF IngestInv
<1> QED
  BY <1>2, <1>5, <1>7, <1>8, <1>9, <1>10, <1>11 DEF IngestInv, WithinCapacity

(* Authorization, the append or the broadcast ends the request. *)
LEMMA EndOfRequestKeeps ==
  ASSUME IngestInv, Rejects \/ Accepts
  PROVE  /\ IngestInv'
         /\ \A i, j \in cache.keys \ cache'.keys :
              i = j /\ Cardinality(cache.keys) = Capacity
<1>1. Handled \in Outcome
  BY DEF Outcome
<1>2. CASE Rejects
  BY <1>1, <1>2, ConcludeKeeps DEF Rejects
<1>3. CASE Accepts
  <2>1. PICK o \in (since.appended + 1)..(Len(appends) + 1) : Conclude(o)
    BY <1>3 DEF Accepts
  <2>2. /\ applying /\ Len(appends) < MaxAppends
        /\ appends' = Append(appends, DedupKey(Head(batch)))
    BY <1>3 DEF Accepts
  <2>3. o \in Outcome /\ o <= Len(appends) + 1
    <3>1. since.appended \in Nat /\ Len(appends) \in Nat
      BY DEF IngestInv, TypeOK
    <3> QED
      BY <2>1, <2>2, <3>1, BoundsAssumption DEF Outcome
  <2> QED
    BY <2>1, <2>2, <2>3, ConcludeKeeps
<1> QED
  BY <1>2, <1>3

(* Time changes ages only. *)
LEMMA TickKeeps == ASSUME IngestInv, Tick
                   PROVE  IngestInv' /\ cache'.keys = cache.keys
<1> DEFINE age == [k \in Keys |-> IF k \in cache.keys THEN OneOlder(cache.age[k])
                                  ELSE cache.age[k]]
<1>1. /\ TypeOK /\ cache.age \in [Keys -> 0..(TtlSecs + 1)]
      /\ cache = [keys |-> cache.keys, age |-> cache.age, order |-> cache.order]
  BY DEF IngestInv, TypeOK
<1>2. cache' = [keys |-> cache.keys, age |-> age, order |-> cache.order]
  <2> DEFINE aged == [k \in DOMAIN cache.age |-> IF k \in cache.keys
                                                THEN OneOlder(cache.age[k])
                                                ELSE cache.age[k]]
  <2>1. cache' = [cache EXCEPT !.age = aged]
    BY DEF Tick, Older
  <2>2. aged = age
    BY <1>1
  <2> HIDE DEF aged, age
  <2> QED
    BY <1>1, <2>1, <2>2
<1>3. age \in [Keys -> 0..(TtlSecs + 1)]
  BY <1>1, CacheAssumption DEF OneOlder
<1> HIDE DEF age
<1>4. UNCHANGED <<key, inbox, batch, applying, outcome, appends, replies, forgotten, restarts>>
  BY DEF Tick
<1>5. TypeOK'
  <2>1. since' \in [secs : 0..(TtlSecs + 1), appended : 0..Len(appends)]
    <3>1. /\ since \in [secs : 0..(TtlSecs + 1), appended : 0..Len(appends)]
          /\ OneOlder(since.secs) \in 0..(TtlSecs + 1)
      BY <1>1, CacheAssumption DEF TypeOK, OneOlder
    <3>2. since' = since \/ since' = [since EXCEPT !.secs = OneOlder(since.secs)]
      BY DEF Tick
    <3> QED
      BY <3>1, <3>2
  <2>2. cache' \in [keys : SUBSET Keys, age : [Keys -> 0..(TtlSecs + 1)], order : Seq(Keys)]
    BY <1>1, <1>2, <1>3 DEF TypeOK
  <2> QED
    BY <1>1, <1>4, <2>1, <2>2 DEF TypeOK
<1>6. cache'.keys = cache.keys /\ cache'.order = cache.order
  BY <1>2
<1> QED
  BY <1>4, <1>5, <1>6
  DEF IngestInv, CacheKnows, AppendedFrom, AppendedOnce, AcceptedIsAppended, DedupKey,
      WithinCapacity

(* A restart forgets every key the cache held and the one being applied. *)
LEMMA RestartKeeps == ASSUME IngestInv, Restart
                      PROVE  IngestInv'
<1> DEFINE k0   == DedupKey(Head(batch))
           lost == cache.keys \cup (IF applying THEN {k0} ELSE {})
<1>1. /\ TypeOK /\ cache \in CacheOf(Keys)
      /\ applying => k0 \in Keys
      /\ appends \in Seq(Keys \cup {OwnerKey})
  BY KeysAreTyped DEF IngestInv, TypeOK
<1>2. /\ cache' = EmptyCache(Keys) /\ forgotten' = forgotten \cup lost
      /\ applying' = FALSE /\ batch' = <<>> /\ since' = Idling
      /\ outcome' = [k \in Keys |-> Handled]
      /\ UNCHANGED <<key, inbox, replies>>
  BY DEF Restart
<1>3. /\ appends' \in Seq(Keys \cup {OwnerKey}) /\ Len(appends') <= MaxAppends
      /\ DOMAIN appends \subseteq DOMAIN appends'
      /\ \A i \in DOMAIN appends : appends'[i] = appends[i]
      /\ \A i \in DOMAIN appends' \ DOMAIN appends : appends'[i] \in lost
  <2>1. Len(appends) \in Nat /\ Len(appends) <= MaxAppends
    BY <1>1 DEF TypeOK
  <2>2. CASE appends' = appends
    BY <1>1, <2>1, <2>2
  <2>3. CASE applying /\ Len(appends) < MaxAppends /\ appends' = Append(appends, k0)
    <3>1. k0 \in lost /\ k0 \in Keys \cup {OwnerKey}
      BY <1>1, <2>3
    <3> HIDE DEF k0, lost
    <3>2. /\ appends' \in Seq(Keys \cup {OwnerKey}) /\ Len(appends') = Len(appends) + 1
          /\ appends'[Len(appends) + 1] = k0
          /\ DOMAIN appends \subseteq DOMAIN appends'
          /\ \A i \in DOMAIN appends : appends'[i] = appends[i]
          /\ \A i \in DOMAIN appends' : i \in DOMAIN appends \/ i = Len(appends) + 1
      BY <1>1, <2>3, <3>1, LogGrows
    <3>3. Len(appends') <= MaxAppends
      BY <2>1, <2>3, <3>2, BoundsAssumption
    <3> QED
      BY <3>1, <3>2, <3>3
  <2> QED
    BY <2>2, <2>3 DEF Restart
<1>4. lost \subseteq Keys
  BY <1>1 DEF CacheOf
<1> HIDE DEF lost
<1>5. cache'.keys = {} /\ cache' \in CacheType
  <2>1. 0 \in 0..(TtlSecs + 1)
    BY CacheAssumption
  <2>2. [k \in Keys |-> 0] \in [Keys -> 0..(TtlSecs + 1)] /\ <<>> \in Seq(Keys)
    BY <2>1
  <2> QED
    BY <1>2, <2>2 DEF EmptyCache, CacheType
<1>6. TypeOK'
  <2>1. since' \in [secs : 0..(TtlSecs + 1), appended : 0..Len(appends')]
    BY <1>2, <1>3, CacheAssumption DEF Idling
  <2>2. outcome' \in [Keys -> Outcome]
    BY <1>2 DEF Outcome
  <2>3. restarts' \in 0..MaxRestarts
    BY <1>1, BoundsAssumption DEF Restart, TypeOK
  <2>4. batch' \in Seq(1..Len(key)) /\ forgotten' \subseteq Keys
    BY <1>1, <1>2, <1>4 DEF TypeOK
  <2> QED
    BY <1>1, <1>2, <1>3, <1>5, <2>1, <2>2, <2>3, <2>4 DEF TypeOK, CacheType
<1>7. WithinCapacity(cache)'
  BY <1>5, FS_EmptySet, CacheAssumption DEF WithinCapacity
<1>8. \A t \in DOMAIN key : DedupKey(t)' = DedupKey(t)
  BY <1>2 DEF DedupKey
<1>9. cache.keys \subseteq lost
  BY DEF lost
<1>10. CacheKnows'
  BY <1>2, <1>3, <1>5, <1>8, <1>9 DEF IngestInv, CacheKnows
<1>11. AppendedOnce'
  <2>1. \A i \in DOMAIN appends' : appends'[i] \in forgotten' \cup {OwnerKey}
    BY <1>2, <1>3, <1>9 DEF IngestInv, CacheKnows
  <2> QED
    BY <2>1 DEF AppendedOnce
<1>12. AcceptedIsAppended'
  BY <1>2, <1>3, <1>8 DEF IngestInv, AcceptedIsAppended
<1> QED
  BY <1>2, <1>6, <1>7, <1>10, <1>11, <1>12 DEF IngestInv

(* Every step keeps the invariant. *)
LEMMA NextKeeps == IngestInv /\ [Next]_vars => IngestInv'
<1> SUFFICES ASSUME IngestInv, [Next]_vars  PROVE IngestInv'
  OBVIOUS
<1>1. ASSUME NEW k \in IdempotencyKeys \cup {NoKey}, Send(k)  PROVE IngestInv'
  BY <1>1, SendKeeps
<1>2. CASE RingDrops \/ Poll
  BY <1>2, InboxKeeps
<1>3. CASE OwnerPublish
  BY <1>3, OwnerPublishKeeps
<1>4. CASE ReplyKnown
  BY <1>4, ReplyKnownKeeps
<1>5. CASE StartApply
  BY <1>5, StartApplyKeeps
<1>6. CASE Rejects \/ Accepts
  BY <1>6, EndOfRequestKeeps
<1>7. CASE Restart
  BY <1>7, RestartKeeps
<1>8. CASE Tick
  BY <1>8, TickKeeps
<1>9. CASE UNCHANGED vars
  BY <1>9
  DEF vars, IngestInv, TypeOK, CacheKnows, AppendedFrom, AppendedOnce,
      AcceptedIsAppended, DedupKey, WithinCapacity
<1> QED
  BY <1>1, <1>2, <1>3, <1>4, <1>5, <1>6, <1>7, <1>8, <1>9 DEF Next

------------------------------------------------------------------------------
(* What follows for every behaviour *)

(***************************************************************************)
(* Requests, ring, cache and log keep their types and bounds.              *)
(***************************************************************************)
THEOREM IngestTypes == Spec => []TypeOK
<1>1. IngestInv => TypeOK
  BY DEF IngestInv
<1> QED
  BY <1>1, InitHolds, NextKeeps, PTL DEF Spec

(***************************************************************************)
(* The eviction loop of insert() never runs out of queue: the map stays    *)
(* within its capacity and every key in it has a slot.                     *)
(***************************************************************************)
THEOREM CacheStaysBounded == Spec => []MapIsBounded
<1>1. IngestInv => MapIsBounded
  BY DEF IngestInv, WithinCapacity, MapIsBounded
<1> QED
  BY <1>1, InitHolds, NextKeeps, PTL DEF Spec

(***************************************************************************)
(* Until its outcome is forgotten a key is appended at most once, and      *)
(* every reply to a request with it says the same.                         *)
(***************************************************************************)
THEOREM OneOutcomePerKey == Spec => []OneOutcomeUntilForgotten
<1>1. IngestInv => OneOutcomeUntilForgotten
  <2>1. SUFFICES ASSUME IngestInv  PROVE OneOutcomeUntilForgotten
    OBVIOUS
  <2>2. ASSUME NEW t \in DOMAIN key, NEW u \in DOMAIN key, DedupKey(t) = DedupKey(u),
               DedupKey(t) \notin forgotten, NEW o \in replies[t], NEW p \in replies[u]
        PROVE  o = p
    BY <2>1, <2>2 DEF IngestInv, CacheKnows
  <2> QED
    BY <2>1, <2>2 DEF IngestInv, AppendedOnce, OneOutcomeUntilForgotten
<1> QED
  BY <1>1, InitHolds, NextKeeps, PTL DEF Spec

(***************************************************************************)
(* An accepting reply, from the worker or out of the cache, is backed by a *)
(* message in the log, also after restarts.                                *)
(***************************************************************************)
THEOREM AcceptedStaysAppended == Spec => []AcceptedIsAppended
<1>1. IngestInv => AcceptedIsAppended
  BY DEF IngestInv
<1> QED
  BY <1>1, InitHolds, NextKeeps, PTL DEF Spec

(***************************************************************************)
(* But for a restart, a key leaves the cache only when it has expired, or  *)
(* alone and from a full cache, to make room for one key.                  *)
(***************************************************************************)
THEOREM EvictionIsOneAtATime == Spec => EvictsOneToMakeRoom
<1> DEFINE Kept == \A k \in cache.keys \ cache'.keys :
                     \/ Expired(cache, k)
                     \/ Cardinality(cache.keys) = Capacity /\ cache.keys \ cache'.keys = {k}
                     \/ restarts' # restarts
<1>1. ASSUME IngestInv, [Next]_vars
      PROVE  Kept
  <2>1. CASE StartApply
    BY <1>1, <2>1, StartApplyKeeps
  <2>2. CASE Rejects \/ Accepts
    <3>1. \A i, j \in cache.keys \ cache'.keys :
            i = j /\ Cardinality(cache.keys) = Capacity
      BY <1>1, <2>2, EndOfRequestKeeps
    <3> QED
      BY <3>1, Zenon
  <2>3. CASE Tick
    BY <1>1, <2>3, TickKeeps
  <2>4. CASE Restart
    <3>1. restarts \in Nat /\ restarts' = restarts + 1
      BY <1>1, <2>4, BoundsAssumption DEF IngestInv, TypeOK, Restart
    <3> QED
      BY <3>1
  <2>5. CASE UNCHANGED cache
    BY <2>5
  <2> QED
    BY <1>1, <2>1, <2>2, <2>3, <2>4, <2>5
    DEF Next, vars, Send, RingDrops, Poll, OwnerPublish, ReplyKnown
<1>2. IngestInv /\ [Next]_vars => [Kept]_vars
  BY <1>1
<1> QED
  BY <1>2, InitHolds, NextKeeps, PTL DEF Spec, EvictsOneToMakeRoom
==============================================================================
