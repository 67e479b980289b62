------------------------------- MODULE Ingest -------------------------------
(***************************************************************************)
(* Remote publishing: PubSub::publish_to_with on the publishers' side, and *)
(* serve_ingest, handle_ingest and apply_ingest on the owner's             *)
(* (src/src/lib.rs), with the de-duplication between them.                 *)
(*                                                                         *)
(* A publisher sends a request with a fresh reply token and, if it wants   *)
(* to retry safely, an idempotency key; when no reply comes it may send    *)
(* the same key again under another token.  The node's inbox is a bounded  *)
(* ring that the worker reads but does not drain, so a frame is delivered  *)
(* again with every poll until the ring drops it.  The worker takes the    *)
(* frames of one poll in order, one at a time: it looks the key up,        *)
(* releases the cache, awaits the append, and records the outcome.         *)
(*                                                                         *)
(* The ring and the request/reply transport are external (ce-rs).          *)
(***************************************************************************)
EXTENDS DedupCache

CONSTANTS
  IdempotencyKeys,  \* keys publishers choose
  NoKey,            \* a request without an idempotency key
  OwnerKey,         \* what the owner's own messages carry in `appends`
  MaxTokens,        \* bound: requests sent
  MaxAppends,       \* bound: messages in the log
  MaxOrder,         \* bound: slots in the cache's queue
  MaxRestarts       \* bound: restarts of the owner

ASSUME KeysAssumption ==
  /\ (IdempotencyKeys \cup {OwnerKey}) \cap (1..MaxTokens) = {}
  /\ NoKey \notin IdempotencyKeys
  /\ OwnerKey \notin IdempotencyKeys
ASSUME BoundsAssumption ==
  /\ MaxTokens \in Nat /\ MaxAppends \in Nat
  /\ MaxOrder \in Nat /\ MaxRestarts \in Nat

VARIABLES
  key,       \* per request sent, its idempotency key; the token is the index
  inbox,     \* the tokens in the ring, oldest first
  batch,     \* the frames of the current poll not handled yet
  applying,  \* the worker is in apply_ingest for the first frame of the batch
  since,     \* and then: the seconds since it read `now`, and the length the
             \* log had then
  cache,     \* the IdempotencyCache: keys, ages, queue
  outcome,   \* and its values: the outcome recorded for a key
  appends,   \* history: the de-duplication key of each message, in log order
  replies,   \* history: per token, what it was answered, every time
  forgotten, \* history: keys whose outcome the owner has not kept
  restarts   \* restarts so far

vars == <<key, inbox, batch, applying, since, cache, outcome, appends, replies,
          forgotten, restarts>>

Token == 1..MaxTokens
Keys == IdempotencyKeys \cup Token
Idling == [secs |-> 0, appended |-> 0]

Handled == 0                             \* Seen::Handled
Outcome == {Handled} \cup 1..MaxAppends  \* Seen: Handled, or the cursor

(* The key of a request: its idempotency key, else its token. *)
DedupKey(t) == IF key[t] = NoKey THEN t ELSE key[t]

Init ==
  /\ key = <<>>
  /\ inbox = <<>>
  /\ batch = <<>>
  /\ applying = FALSE
  /\ since = Idling
  /\ cache = EmptyCache(Keys)
  /\ outcome = [k \in Keys |-> Handled]
  /\ appends = <<>>
  /\ replies = [t \in Token |-> {}]
  /\ forgotten = {}
  /\ restarts = 0

(* publish_to_with, the first time or again: the frame reaches the ring. *)
Send(k) ==
  /\ Len(key) < MaxTokens
  /\ key' = Append(key, k)
  /\ inbox' = Append(inbox, Len(key) + 1)
  /\ UNCHANGED <<batch, applying, since, cache, outcome, appends, replies, forgotten,
                 restarts>>

(* The ring is bounded: its oldest frame goes. *)
RingDrops ==
  /\ inbox # <<>>
  /\ inbox' = Tail(inbox)
  /\ UNCHANGED <<key, batch, applying, since, cache, outcome, appends, replies,
                 forgotten, restarts>>

(* `messages()`: everything in the ring, the old frames included. *)
Poll ==
  /\ batch = <<>>
  /\ inbox # <<>>
  /\ batch' = inbox
  /\ UNCHANGED <<key, inbox, applying, since, cache, outcome, appends, replies,
                 forgotten, restarts>>

(* The owner's own publish, at any time (Topic::publish). *)
OwnerPublish ==
  /\ Len(appends) < MaxAppends
  /\ appends' = Append(appends, OwnerKey)
  /\ UNCHANGED <<key, inbox, batch, applying, since, cache, outcome, replies, forgotten,
                 restarts>>

Replying(t, o) == [replies EXCEPT ![t] = @ \cup {o}]

(* The look-up finds an outcome: it is the reply, nothing is appended. *)
ReplyKnown ==
  /\ batch # <<>> /\ ~applying
  /\ LET t == Head(batch)
         k == DedupKey(t)
     IN /\ Hit(cache, k)
        /\ replies' = Replying(t, outcome[k])
  /\ batch' = Tail(batch)
  /\ UNCHANGED <<key, inbox, applying, since, cache, outcome, appends, forgotten,
                 restarts>>

(* A variant of StartApply that does not consult the cache. *)
StartApplyBlindly ==
  /\ batch # <<>> /\ ~applying
  /\ applying' = TRUE
  /\ since' = [secs |-> 0, appended |-> Len(appends)]
  /\ UNCHANGED <<key, inbox, batch, cache, outcome, appends, replies, forgotten,
                 restarts>>

(* The look-up finds nothing, and drops the key if it had expired. *)
StartApply ==
  /\ batch # <<>> /\ ~applying
  /\ LET k == DedupKey(Head(batch))
     IN /\ ~Hit(cache, k)
        /\ cache' = AfterGet(cache, k)
        /\ forgotten' = forgotten \cup (cache.keys \ cache'.keys)
  /\ applying' = TRUE
  /\ since' = [secs |-> 0, appended |-> Len(appends)]
  /\ UNCHANGED <<key, inbox, batch, outcome, appends, replies, restarts>>

(* A variant of Conclude that does not end the request. *)
ConcludeInPart(o) ==
  LET t == Head(batch)
      k == DedupKey(t)
  IN /\ Len(cache.order) < MaxOrder
     /\ cache' = Record(cache, k, since.secs)
     /\ forgotten' = forgotten \cup (cache.keys \ cache'.keys)
     /\ outcome' = [outcome EXCEPT ![k] = o]
     /\ replies' = Replying(t, o)
     /\ batch' = Tail(batch)
     /\ UNCHANGED <<key, inbox, applying, since, restarts>>

(* A variant of Conclude that replies before the cache knows the outcome. *)
ConcludeUnrecorded(o) ==
  /\ replies' = Replying(Head(batch), o)
  /\ batch' = Tail(batch)
  /\ applying' = FALSE
  /\ since' = Idling
  /\ UNCHANGED <<key, inbox, cache, outcome, forgotten, restarts>>

(* The worker records the outcome under the time it read before the append *)
(* was awaited, evicting what must go, and replies.                        *)
Conclude(o) ==
  LET t == Head(batch)
      k == DedupKey(t)
  IN /\ Len(cache.order) < MaxOrder
     /\ cache' = Record(cache, k, since.secs)
     /\ forgotten' = forgotten \cup (cache.keys \ cache'.keys)
     /\ outcome' = [outcome EXCEPT ![k] = o]
     /\ replies' = Replying(t, o)
     /\ batch' = Tail(batch)
     /\ applying' = FALSE
     /\ since' = Idling
     /\ UNCHANGED <<key, inbox, restarts>>

(* Authorization, validation or the append fails: Seen::Handled. *)
Rejects ==
  /\ applying
  /\ Conclude(Handled)
  /\ UNCHANGED appends

(* A variant of Accepts that replies without waiting for the append. *)
AcceptsUnappended ==
  /\ applying
  /\ \E o \in (since.appended + 1)..(Len(appends) + 1) : o <= MaxAppends /\ Conclude(o)
  /\ UNCHANGED appends

(***************************************************************************)
(* The message is appended.  Its outcome is the cursor append_and_fanout   *)
(* stamped at some moment since the request was taken up.                  *)
(***************************************************************************)
Accepts ==
  /\ applying
  /\ Len(appends) < MaxAppends
  /\ appends' = Append(appends, DedupKey(Head(batch)))
  /\ \E o \in (since.appended + 1)..(Len(appends) + 1) : Conclude(o)

(* Time passes, also while an append is awaited. *)
Tick ==
  /\ cache' = Older(cache)
  /\ since' = IF applying THEN [since EXCEPT !.secs = OneOlder(@)] ELSE since
  /\ UNCHANGED <<key, inbox, batch, applying, outcome, appends, replies, forgotten,
                 restarts>>

(***************************************************************************)
(* The owner stops, wherever its worker is, and runs create_topic again.   *)
(* The cache was in memory; the log is durable, and holds the message of   *)
(* the request being applied if its append had committed.  The frames are  *)
(* still in the ring.                                                      *)
(***************************************************************************)
Restart ==
  /\ restarts < MaxRestarts
  /\ restarts' = restarts + 1
  /\ \/ appends' = appends
     \/ /\ applying
        /\ Len(appends) < MaxAppends
        /\ appends' = Append(appends, DedupKey(Head(batch)))
  /\ forgotten' = forgotten \cup cache.keys
                    \cup (IF applying THEN {DedupKey(Head(batch))} ELSE {})
  /\ batch' = <<>>
  /\ applying' = FALSE
  /\ since' = Idling
  /\ cache' = EmptyCache(Keys)
  /\ outcome' = [k \in Keys |-> Handled]
  /\ UNCHANGED <<key, inbox, replies>>

Next ==
  \/ \E k \in IdempotencyKeys \cup {NoKey} : Send(k)
  \/ RingDrops
  \/ Poll
  \/ OwnerPublish
  \/ ReplyKnown
  \/ StartApply
  \/ Rejects
  \/ Accepts
  \/ Restart
  \/ Tick

Spec == Init /\ [][Next]_vars

------------------------------------------------------------------------------
TypeOK ==
  /\ key \in Seq(IdempotencyKeys \cup {NoKey}) /\ Len(key) <= MaxTokens
  /\ inbox \in Seq(1..Len(key))
  /\ batch \in Seq(1..Len(key))
  /\ applying \in BOOLEAN /\ (applying => batch # <<>>)
  /\ since \in [secs : 0..(TtlSecs + 1), appended : 0..Len(appends)]
  /\ cache \in [keys : SUBSET Keys, age : [Keys -> 0..(TtlSecs + 1)], order : Seq(Keys)]
  /\ outcome \in [Keys -> Outcome]
  /\ appends \in Seq(Keys \cup {OwnerKey}) /\ Len(appends) <= MaxAppends
  /\ replies \in [Token -> SUBSET Outcome]
  /\ forgotten \subseteq Keys
  /\ restarts \in 0..MaxRestarts

(***************************************************************************)
(* The map never holds more keys than its capacity, and every key in it    *)
(* has a slot in the queue: otherwise the eviction loop would run out of   *)
(* queue (its `None => break`) and the map would grow.                     *)
(***************************************************************************)
MapIsBounded ==
  /\ Cardinality(cache.keys) <= Capacity
  /\ cache.keys \subseteq KeysIn(cache.order)

(***************************************************************************)
(* As long as the cache has not dropped a key, and the owner not restarted *)
(* since it took a request with that key up, the key is appended at most   *)
(* once, however often it is retried under new tokens or its frame         *)
(* delivered again and however long its append took, and every reply to it *)
(* says the same.                                                          *)
(***************************************************************************)
OneOutcomeUntilForgotten ==
  /\ \A i, j \in DOMAIN appends :
       appends[i] = appends[j] =>
         i = j \/ appends[i] \in forgotten \cup {OwnerKey}
  /\ \A t, u \in DOMAIN key :
       (DedupKey(t) = DedupKey(u) /\ DedupKey(t) \notin forgotten) =>
         \A o \in replies[t], p \in replies[u] : o = p

(***************************************************************************)
(* A reply that accepts is backed by the log: a message of that key is in  *)
(* it, at the cursor of the reply or after it, also when the reply came    *)
(* out of the cache, and across restarts of the owner.  (That it is at the *)
(* cursor fails with the owner publishing too: TopicPublish.)              *)
(***************************************************************************)
AcceptedIsAppended == \A t \in DOMAIN key :
  \A o \in replies[t] \ {Handled} :
    \E i \in DOMAIN appends : i >= o /\ appends[i] = DedupKey(t)

(***************************************************************************)
(* "Eviction removes the oldest entry, not the whole set": a key leaves    *)
(* the map only when it has expired or to make room, and then alone, or    *)
(* with the whole cache when the owner restarts.                           *)
(***************************************************************************)
EvictsOneToMakeRoom ==
  [][\A k \in cache.keys \ cache'.keys :
       \/ Expired(cache, k)
       \/ Cardinality(cache.keys) = Capacity /\ cache.keys \ cache'.keys = {k}
       \/ restarts' # restarts]_vars

==============================================================================
