----------------------------- MODULE DedupCache -----------------------------
(***************************************************************************)
(* The bounded de-duplication cache (src/src/dedup.rs): IdempotencyCache,  *)
(* which keeps a map from key to the time it was recorded and a queue of   *)
(* keys, oldest first; expiry takes a key out of the map only.             *)
(*                                                                         *)
(* A cache is the keys in the map, their ages, and the queue.  The code    *)
(* stores the second a key was recorded and only looks at how long ago     *)
(* that was; ages above the time to live are all the same to it.           *)
(***************************************************************************)
EXTENDS Integers, Sequences, FiniteSets

CONSTANTS
  Capacity,  \* distinct keys before eviction; new() makes it at least 1
  TtlSecs    \* seconds a key is remembered; 0 for ever

ASSUME CacheAssumption == Capacity \in Nat \ {0} /\ TtlSecs \in Nat

EmptyCache(Keys) ==
  [keys |-> {}, age |-> [k \in Keys |-> 0], order |-> <<>>]

KeysIn(seq) == {seq[i] : i \in DOMAIN seq}

Expired(cache, k) == TtlSecs # 0 /\ cache.age[k] > TtlSecs

(* get() finds the key. *)
Hit(cache, k) == k \in cache.keys /\ ~Expired(cache, k)

Remove(cache, K) ==
  [cache EXCEPT !.keys = @ \ K,
                !.age = [k \in DOMAIN @ |-> IF k \in K THEN 0 ELSE @[k]]]

(* get() drops an expired key from the map; its slot in the queue stays. *)
AfterGet(cache, k) ==
  IF k \in cache.keys /\ Expired(cache, k) THEN Remove(cache, {k}) ELSE cache

(***************************************************************************)
(* The eviction loop pops keys off the queue, and out of the map if they   *)
(* are there, until the map has room or the queue is empty.                *)
(***************************************************************************)
MakeRoom(cache) ==
  LET Popped(n)  == KeysIn(SubSeq(cache.order, 1, n))
      HasRoom(n) == Cardinality(cache.keys \ Popped(n)) < Capacity
      len        == Len(cache.order)
      pops       == IF \E n \in 0..len : HasRoom(n)
                    THEN CHOOSE n \in 0..len :
                           HasRoom(n) /\ \A m \in 0..(n - 1) : ~HasRoom(m)
                    ELSE len
  IN [Remove(cache, Popped(pops)) EXCEPT
        !.order = SubSeq(cache.order, pops + 1, len)]

(* A variant of Record that evicts everything at capacity. *)
RecordClearing(cache, k, ago) ==
  LET room == IF Cardinality(cache.keys) < Capacity THEN cache
              ELSE [Remove(cache, cache.keys) EXCEPT !.order = <<>>]
  IN [room EXCEPT !.keys = @ \cup {k}, !.order = Append(@, k), !.age[k] = ago]

(* A variant of Record that forgets to queue the key. *)
RecordUnqueued(cache, k, ago) ==
  [MakeRoom(cache) EXCEPT !.keys = @ \cup {k}, !.age[k] = ago]

(***************************************************************************)
(* insert() of a key that `ago` seconds back was not in the map.  A key    *)
(* that is in the map would be refreshed where it is in the queue.         *)
(***************************************************************************)
Record(cache, k, ago) ==
  IF k \in cache.keys THEN [cache EXCEPT !.age[k] = ago]
  ELSE [MakeRoom(cache) EXCEPT
          !.keys = @ \cup {k}, !.order = Append(@, k), !.age[k] = ago]

(***************************************************************************)
(* TokenSet, the same cache for tokens alone: seen() answers whether the   *)
(* set holds the token and, if not, records it at the present time.  An    *)
(* expired token leaves its slot in the queue and gets a second one.       *)
(***************************************************************************)
Seen(set, t) == Hit(set, t)

TakeUp(set, t) == Record(AfterGet(set, t), t, 0)

(* One second passes; every age above the time to live is TtlSecs + 1. *)
OneOlder(age) == IF age <= TtlSecs THEN age + 1 ELSE age

Older(cache) ==
  [cache EXCEPT !.age = [k \in DOMAIN @ |->
                           IF k \in cache.keys THEN OneOlder(@[k]) ELSE @[k]]]
==============================================================================
