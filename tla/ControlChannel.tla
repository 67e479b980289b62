--------------------------- MODULE ControlChannel ---------------------------
(***************************************************************************)
(* The control channel of a topic: the consumers' requests (lease, ack,    *)
(* nack, create_subscription, delete_subscription in src/src/lib.rs), the  *)
(* worker that takes them off the node's inbox (serve_control), what it    *)
(* does for a lease after the commit (route_dead_letters and the look-up   *)
(* of the leased messages in handle_lease), and the owner's restart.  What *)
(* a request does to the registry is SubRegistry's action for it.          *)
(*                                                                         *)
(* The node's inbox is a ring of frames that a poll reads without taking   *)
(* them out, so the worker meets a frame again with every poll until the   *)
(* ring drops it; its TokenSet tells it which frames it has handled.  The  *)
(* set lives in memory; the log and the registry are durable.  The ring,   *)
(* the request/reply transport and ce-coord's propose are external: a      *)
(* frame may be dropped before it is read, a reply may be lost, and a      *)
(* propose may fail.                                                       *)
(*                                                                         *)
(* list_subscriptions and HighCursor only read; all they do here is take a *)
(* slot in the token set, like the others, and they are left out.          *)
(*                                                                         *)
(* Consumers are honest: they ack and nack what some reply has given them, *)
(* though perhaps late, in any order and more than once.                   *)
(***************************************************************************)
EXTENDS SubRegistry, DedupCache

CONSTANTS
  Published,    \* messages published before the first request
  MaxRequests,  \* bound: requests sent
  MaxOrder,     \* bound: slots in the token set's queue
  MaxRestarts   \* bound: restarts of the owner

ASSUME PublishedAssumption == Published \in 0..MaxCursor
ASSUME ChannelBoundsAssumption ==
  MaxRequests \in Nat /\ MaxOrder \in Nat /\ MaxRestarts \in Nat

VARIABLES
  sent,       \* the requests sent so far, numbered by their reply token
  ring,       \* the frames in the node's inbox, by token
  batch,      \* the tokens of the current poll not looked at yet
  seen,       \* the worker's TokenSet, `handled`
  pc,         \* where the worker is
  outcome,    \* the LeaseOutcome of the lease it has committed
  restarts,   \* restarts so far
  taken,      \* history: the frames this process has handled, see TakenNow
  received,   \* history: the cursors some consumer was given in a reply
  ackedOk,    \* history: the cursors whose ack was answered Ok
  routed      \* history: how often each cursor went to the dead-letter topic

channel == <<sent, ring, batch, seen, pc, outcome, restarts, taken,
             received, ackedOk, routed>>
allVars == <<vars, channel>>

Token == 1..MaxRequests

Request ==
  [op : {"create"}, name : Names, policy : Policies]
    \cup [op : {"delete"}, name : Names]
    \cup [op : {"pull"}, name : Names, max_messages : PullSizes]
    \cup [op : {"ack", "nack"}, name : Names, cursor : Cursor]

NoFrame == [op |-> "none"]
InRing == {t \in Token : ring[t] # NoFrame}

NoOutcome == [name |-> NoName, leased |-> {}, dead |-> {}]
NothingTaken == [recent |-> <<>>, windows |-> [t \in Token |-> 0]]
Unrouted == [c \in Cursor |-> 0]

Retained == (floor + 1)..high

(***************************************************************************)
(* The subscriptions that exist were created by requests long gone from    *)
(* the ring, and nothing was leased since.                                 *)
(***************************************************************************)
ChannelInit ==
  /\ live = Names
  /\ \E p \in Policies : ValidPolicy(p) /\ subs = [n \in Names |-> NewSubscription(p)]
  /\ high = Published
  /\ floor = 0
  /\ plan = NoPlan
  /\ deliveries = [n \in Names |-> NoDeliveries]
  /\ sent = 0
  /\ ring = [t \in Token |-> NoFrame]
  /\ batch = {}
  /\ seen = EmptyCache(Token)
  /\ pc = "idle"
  /\ outcome = NoOutcome
  /\ restarts = 0
  /\ taken = NothingTaken
  /\ received = [n \in Names |-> {}]
  /\ ackedOk = [n \in Names |-> {}]
  /\ routed = [n \in Names |-> Unrouted]

------------------------------------------------------------------------------
(* Consumers *)

(***************************************************************************)
(* A request reaches the ring.  What arrives while the worker goes through *)
(* a batch is first read by the next poll: it arrives just before it.      *)
(***************************************************************************)
Send(r) ==
  /\ sent < MaxRequests
  /\ pc = "idle" /\ batch = {}
  /\ sent' = sent + 1
  /\ ring' = [ring EXCEPT ![sent'] = r]
  /\ UNCHANGED <<vars, batch, seen, pc, outcome, restarts, taken,
                 received, ackedOk, routed>>

(* The client validates the policy before it sends it. *)
SendCreate(n, p) ==
  ValidPolicy(p) /\ Send([op |-> "create", name |-> n, policy |-> p])

SendDelete(n) == Send([op |-> "delete", name |-> n])

SendPull(n, max) == Send([op |-> "pull", name |-> n, max_messages |-> max])

SendAck(n, c) ==
  c \in received[n] /\ Send([op |-> "ack", name |-> n, cursor |-> c])

SendNack(n, c) ==
  c \in received[n] /\ Send([op |-> "nack", name |-> n, cursor |-> c])

------------------------------------------------------------------------------
(* The inbox and the worker's loop *)

(***************************************************************************)
(* `messages()`: everything in the ring, the frames handled before         *)
(* included.  The ring is bounded, and may have dropped its oldest frames  *)
(* since the last poll, read or not.                                       *)
(***************************************************************************)
Poll ==
  /\ pc = "idle"
  /\ batch = {}
  /\ \E oldest \in InRing :
       /\ batch' = {t \in InRing : t >= oldest}
       /\ ring' = [t \in Token |-> IF t \in batch' THEN ring[t] ELSE NoFrame]
  /\ UNCHANGED <<vars, sent, seen, pc, outcome, restarts, taken, received,
                 ackedOk, routed>>

(* The frames of a poll are taken oldest first, one after another. *)
AtHand(t) ==
  /\ pc = "idle"
  /\ t \in batch
  /\ \A u \in batch : t <= u

(* `continue`: no reply either. *)
SkipSeen(t) ==
  /\ AtHand(t)
  /\ Seen(seen, t)
  /\ batch' = batch \ {t}
  /\ UNCHANGED <<vars, sent, ring, seen, pc, outcome, restarts, taken,
                 received, ackedOk, routed>>

(* The time to live of a frame begins, for the first time or once more. *)
NewWindow(t) == taken.windows[t] = 0 \/ t \in seen.keys

(***************************************************************************)
(* What this process remembers for the properties: the last frames it has  *)
(* handled, as many as the token set has room for, and how often the time  *)
(* to live of each frame has begun (above Capacity it is all the same): at *)
(* its first handling, and at one that found its token expired.            *)
(***************************************************************************)
TakenNow(t) ==
  [ recent  |-> Append(IF Len(taken.recent) < Capacity THEN taken.recent
                       ELSE Tail(taken.recent), t),
    windows |-> [taken.windows EXCEPT ![t] =
                   IF NewWindow(t) THEN Smaller(@ + 1, Capacity + 1) ELSE @] ]

(* A variant of Takes that does not record the token. *)
TakesUnrecorded(t) ==
  /\ AtHand(t)
  /\ ~Seen(seen, t)
  /\ batch' = batch \ {t}
  /\ seen' = seen
  /\ taken' = TakenNow(t)
  /\ UNCHANGED <<sent, ring, restarts>>

(* seen() records the token before the request is handled. *)
Takes(t) ==
  /\ AtHand(t)
  /\ ~Seen(seen, t)
  /\ Len(seen.order) < MaxOrder
  /\ seen' = TakeUp(seen, t)
  /\ batch' = batch \ {t}
  /\ taken' = TakenNow(t)
  /\ UNCHANGED <<sent, ring, restarts>>

------------------------------------------------------------------------------
(* handle_control *)

ServeCreate(t) ==
  /\ Takes(t)
  /\ ring[t].op = "create"
  /\ CreateSubscription(ring[t].name, ring[t].policy)
  /\ UNCHANGED <<pc, outcome, received, ackedOk, routed>>

(* The next subscription of this name starts afresh. *)
ServeDelete(t) ==
  /\ Takes(t)
  /\ ring[t].op = "delete"
  /\ LET n == ring[t].name
     IN /\ DeleteSubscription(n)
        /\ ackedOk' = [ackedOk EXCEPT ![n] = {}]
        /\ routed' = [routed EXCEPT ![n] = Unrouted]
  /\ UNCHANGED <<pc, outcome, received>>

ServeAck(t) ==
  /\ Takes(t)
  /\ ring[t].op = "ack"
  /\ AckRequest(ring[t].name, ring[t].cursor)
  /\ ackedOk' = [ackedOk EXCEPT ![ring[t].name] = @ \cup {ring[t].cursor}]
  /\ UNCHANGED <<pc, outcome, received, routed>>

ServeNack(t) ==
  /\ Takes(t)
  /\ ring[t].op = "nack"
  /\ NackRequest(ring[t].name, ring[t].cursor)
  /\ UNCHANGED <<pc, outcome, received, ackedOk, routed>>

(* A variant of ServeUnchanged that answers Ok when the propose fails. *)
ServeUnchangedOk(t) ==
  /\ Takes(t)
  /\ ring[t].op # "pull"
  /\ ackedOk' = IF ring[t].op = "ack" /\ ring[t].name \in live
                THEN [ackedOk EXCEPT ![ring[t].name] = @ \cup {ring[t].cursor}]
                ELSE ackedOk
  /\ UNCHANGED <<vars, pc, outcome, received, routed>>

NothingToLease(n, max) ==
  n \notin live \/ EmptyPlan(PlanLease(subs[n], high, floor, max))

(***************************************************************************)
(* The request is answered and nothing changes: it names no subscription,  *)
(* the registry is full, the plan is None, or the propose of its op fails. *)
(***************************************************************************)
ServeUnchanged(t) ==
  /\ Takes(t)
  /\ ring[t].op = "pull" =>
       NothingToLease(ring[t].name, ring[t].max_messages)
  /\ UNCHANGED <<vars, pc, outcome, received, ackedOk, routed>>

(* handle_lease up to the await of its op. *)
ServePull(t) ==
  /\ Takes(t)
  /\ ring[t].op = "pull"
  /\ PlanLeaseRequest(ring[t].name, ring[t].max_messages)
  /\ pc' = "leasing"
  /\ UNCHANGED <<outcome, received, ackedOk, routed>>

LeaseCommits ==
  /\ pc = "leasing"
  /\ CommitLease
  /\ outcome' = [name |-> plan.name, leased |-> plan.leased, dead |-> plan.dead]
  /\ pc' = IF plan.dead = {} THEN "replying" ELSE "routing"
  /\ UNCHANGED <<sent, ring, batch, seen, restarts, taken, received,
                 ackedOk, routed>>

LeaseFails ==
  /\ pc = "leasing"
  /\ AbortLease
  /\ pc' = "idle"
  /\ UNCHANGED <<sent, ring, batch, seen, outcome, restarts, taken,
                 received, ackedOk, routed>>

RoutedNow(n, R) ==
  [routed EXCEPT ![n] = [c \in Cursor |-> IF c \in R THEN Smaller(@[c] + 1, 2)
                                          ELSE @[c]]]

(* A variant of RouteDeadLetters that does not wait for the commit. *)
RouteBeforeCommit(R) ==
  \/ /\ pc = "leasing"
     /\ R # {} /\ R \subseteq plan.dead \cap Retained
     /\ routed' = RoutedNow(plan.name, R)
     /\ UNCHANGED <<vars, sent, ring, batch, seen, pc, outcome, restarts,
                    taken, received, ackedOk>>
  \/ /\ pc = "routing"
     /\ pc' = "replying"
     /\ UNCHANGED <<vars, sent, ring, batch, seen, outcome, restarts,
                    taken, received, ackedOk, routed>>

(***************************************************************************)
(* Those of the dead-lettered messages that the log still holds, and whose *)
(* broadcast succeeds, go to the dead-letter topic; none if its stream     *)
(* cannot be opened.  The dead-letter topic has no retry.                  *)
(***************************************************************************)
RouteDeadLetters(R) ==
  /\ pc = "routing"
  /\ R \subseteq outcome.dead \cap Retained
  /\ routed' = RoutedNow(outcome.name, R)
  /\ pc' = "replying"
  /\ UNCHANGED <<vars, sent, ring, batch, seen, outcome, restarts, taken,
                 received, ackedOk>>

(* The leased messages the log still holds go back to the consumer. *)
ReplyArrives ==
  /\ pc = "replying"
  /\ received' = [received EXCEPT ![outcome.name] =
                    @ \cup (outcome.leased \cap Retained)]
  /\ pc' = "idle"
  /\ outcome' = NoOutcome
  /\ UNCHANGED <<vars, sent, ring, batch, seen, restarts, taken, ackedOk,
                 routed>>

(* Lost, late, or longer than ControlReply::decode accepts. *)
ReplyLost ==
  /\ pc = "replying"
  /\ pc' = "idle"
  /\ outcome' = NoOutcome
  /\ UNCHANGED <<vars, sent, ring, batch, seen, restarts, taken, received,
                 ackedOk, routed>>

------------------------------------------------------------------------------
(* Around the worker *)

(* A variant of Restart that resumes the plan of the process before. *)
RestartKeepsPlan ==
  /\ restarts < MaxRestarts
  /\ restarts' = restarts + 1
  /\ batch' = {}
  /\ seen' = EmptyCache(Token)
  /\ pc' = "idle"
  /\ outcome' = NoOutcome
  /\ taken' = NothingTaken
  /\ UNCHANGED <<vars, sent, ring, received, ackedOk, routed>>

(***************************************************************************)
(* The owner stops, wherever its worker is, and runs create_topic again:   *)
(* the token set is new, what was planned but not committed is gone, and   *)
(* so are the dead letters and the reply of a committed lease.             *)
(***************************************************************************)
Restart ==
  /\ restarts < MaxRestarts
  /\ restarts' = restarts + 1
  /\ batch' = {}
  /\ seen' = EmptyCache(Token)
  /\ pc' = "idle"
  /\ outcome' = NoOutcome
  /\ taken' = NothingTaken
  /\ plan' = NoPlan
  /\ UNCHANGED <<live, subs, high, floor, deliveries, sent, ring,
                 received, ackedOk, routed>>

LogChanges ==
  /\ Publish \/ \E up_to \in Cursor : PruneTo(up_to)
  /\ UNCHANGED channel

LeaseRunning == plan.left > 0 \/ \E n \in Names : Leased(subs[n]) # {}

(* The wall clock, for the leases and for the token set. *)
SecondPasses ==
  /\ IF LeaseRunning THEN Tick ELSE UNCHANGED vars
  /\ seen' = Older(seen)
  /\ UNCHANGED <<sent, ring, batch, pc, outcome, restarts, taken,
                 received, ackedOk, routed>>

Consumer == \E n \in Names :
  \/ \E p \in Policies : SendCreate(n, p)
  \/ SendDelete(n)
  \/ \E max \in PullSizes : SendPull(n, max)
  \/ \E c \in Cursor : SendAck(n, c) \/ SendNack(n, c)

Worker ==
  \/ Poll
  \/ \E t \in Token :
       \/ SkipSeen(t)
       \/ ServeCreate(t) \/ ServeDelete(t) \/ ServeAck(t) \/ ServeNack(t)
       \/ ServeUnchanged(t)
       \/ ServePull(t)
  \/ LeaseCommits
  \/ LeaseFails
  \/ \E R \in SUBSET Cursor : RouteDeadLetters(R)
  \/ ReplyArrives
  \/ ReplyLost

ChannelNext ==
  \/ Consumer
  \/ Worker
  \/ Restart
  \/ LogChanges
  \/ SecondPasses

ChannelSpec == ChannelInit /\ [][ChannelNext]_allVars

------------------------------------------------------------------------------
(* Types; the worker has a plan exactly while it awaits its commit. *)
ChannelTypeOK ==
  /\ sent \in 0..MaxRequests
  /\ ring \in [Token -> Request \cup {NoFrame}]
  /\ batch \subseteq InRing /\ InRing \subseteq 1..sent
  /\ seen \in [keys : SUBSET Token, age : [Token -> 0..(TtlSecs + 1)], order : Seq(Token)]
  /\ pc \in {"idle", "leasing", "routing", "replying"}
  /\ (pc = "leasing") <=> ~Idle
  /\ outcome \in [name : Names \cup {NoName}, leased : SUBSET Cursor, dead : SUBSET Cursor]
  /\ (pc \in {"routing", "replying"}) <=> (outcome.name \in Names)
  /\ restarts \in 0..MaxRestarts
  /\ taken.recent \in Seq(Token) /\ Len(taken.recent) <= Capacity
  /\ taken.windows \in [Token -> 0..(Capacity + 1)]
  /\ received \in [Names -> SUBSET Cursor]
  /\ ackedOk \in [Names -> SUBSET Cursor]
  /\ routed \in [Names -> [Cursor -> 0..2]]

(***************************************************************************)
(* Nothing is lost on the way: when a subscription gives up a message for  *)
(* good, it has reached a consumer in some reply, or retention has dropped *)
(* it, or it was handed out as often as the policy allowed.  Lost replies, *)
(* failed proposes, frames handled again and restarts included.            *)
(***************************************************************************)
SettledWasReceived ==
  [][\A n \in live \cap live' : \A c \in Settled(subs'[n]) \ Settled(subs[n]) :
       LET max == subs[n].policy.max_delivery_attempts
       IN \/ c \in received[n]
          \/ c <= floor
          \/ max # 0 /\ deliveries[n][c] >= max]_allVars

(***************************************************************************)
(* An ack that was answered Ok is for good: the message stays settled as   *)
(* long as the subscription exists, whichever old frames are handled again *)
(* and however often the owner restarts.                                   *)
(***************************************************************************)
AckAnsweredStaysSettled == \A n \in live : ackedOk[n] \subseteq Settled(subs[n])

(***************************************************************************)
(* The dead-letter topic gets a message of a subscription at most once,    *)
(* and only a message the subscription has given up for good.              *)
(***************************************************************************)
DeadLettersOnce == \A n \in live : \A c \in Cursor :
  /\ routed[n][c] <= 1
  /\ routed[n][c] = 1 => c \in Settled(subs[n])

(* The worker goes on to handle a frame; TokenSet::seen() has said no. *)
Handles(t) ==
  AtHand(t) /\ ~Seen(seen, t) /\ t \notin batch' /\ restarts' = restarts

Slots(seq, t) == {i \in DOMAIN seq : seq[i] = t}

(***************************************************************************)
(* What the token set does keep of "so a re-delivered inbox frame is not   *)
(* handled twice" (serve_control): among any Capacity + 1 frames handled   *)
(* in succession, a frame comes up at most as often as its time to live    *)
(* has begun.  A frame whose time to live has begun once is not handled    *)
(* again before it ends, or before a whole capacity of other frames.  Each *)
(* further time leaves a second slot in the queue, and can cost one early  *)
(* handling (see RecentFramesRemembered), but never more.                  *)
(***************************************************************************)
HandlingsFitWindows ==
  [][\A t \in Token : Handles(t) =>
       Cardinality(Slots(taken.recent, t)) < taken'.windows[t]]_allVars

------------------------------------------------------------------------------
(* What the repository says of the token set and its queue does not keep *)

(***************************************************************************)
(* "Eviction removes the oldest entry ..., so recent tokens are never      *)
(* forgotten while the cache stays bounded" (src/src/dedup.rs), and the    *)
(* worker's "within a TTL window ... not handled twice" (lib.rs): unless   *)
(* its token has expired, a frame that is handled again is not among the   *)
(* last Capacity frames handled.                                           *)
(***************************************************************************)
RecentFramesRemembered ==
  [][\A t \in Token : Handles(t) =>
       NewWindow(t) \/ t \notin KeysIn(taken.recent)]_allVars
==============================================================================
