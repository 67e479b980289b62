# A verification of ce-pubsub

TLA+ models of ce-pubsub, TLC runs over small instances of them, and TLAPS
proofs for every value of the constants. File references are to the repository, in `src/`.

## The system

A *topic* has one owner node. The owner keeps a durable log of messages and a
registry of subscriptions, both single-writer replicated state machines of the
external crate `ce-coord` (`propose` appends an op to the log of the writer and
applies it, or fails). Everything else reaches the owner as a request through
the inbox of its mesh node (`ce-rs`): publishers' requests are served by the
ingest worker, consumers' and pullers' by the control worker, one after another
each. The owner's own tasks publish directly through a `Topic` handle, which
can be cloned.

| Component | State | Operations | Interacts with | What is hard | What makes it correct |
|---|---|---|---|---|---|
| Subscription registry (`src/subscription.rs`) | per name: ack floor, out-of-order acks, leases, attempts, dead letters, policy | Create, Delete, ApplyLease, Ack, Nack; `plan_lease` plans, `at_capacity` guards | written by the control worker only; reads the topic log's floor and high cursor when planning | acks late, early, twice; expiry; pruning under it; policy changes; the clock | a settled message is never handed out, a held one to nobody else; the floor is folded as far as it goes; attempts are deliveries; dead letters only when exhausted |
| Control worker (`serve_control`, `handle_control`, `handle_lease` in `src/lib.rs`) | the plan of the lease in progress, `TokenSet` of requests served | one request after another; a lease awaits its commit between plan and reply | registry, topic log, dead-letter stream, inbox and replies | the await between plan and commit; replies that are lost | what was planned is still right when committed |
| Topic log (`src/log.rs`) | retained messages, number pruned | Append, PruneTo; `since`, `get` | written by publishing and pruning, read by pulls and leases | cursors are absolute, storage is not | cursors name the same message for good |
| Owner publishing (`append_and_fanout`, `prune_to`) | each task's stamped message | stamp, await the append, broadcast | topic log, live stream behind a lock | several publishers, failures, prunes in between | nothing is announced that is not durable |
| De-duplication (`src/dedup.rs`) | map from key to outcome and time, FIFO queue | `get`, `insert`; `TokenSet::seen` | ingest and control workers | expiry and eviction with a queue that keeps stale slots | bounded; recent keys are remembered |
| Ingest worker (`serve_ingest`, `handle_ingest`, `apply_ingest`) and `publish_to_with` | inbox ring, batch of the current poll, request being applied | poll, look up, await authorization and append, record, reply | cache, publishing | retries, frames delivered again, an unlocked cache across an await | one append and one answer per key |
| Durable pull (`pull_limited`, `converge_to`, `Replay`) | read replica, target, page | ask for the target, converge, page | control worker, replica of the log | lag, timeout, pruning between pages | complete when it says converged |
| Live subscription (`subscribe`, `recv`) | stream, filter | receive, filter | live stream | at most once | only what matches |
| Topic life cycle (`create_topic`, clones, `Drop`) | handles, shutdown flag | create, clone, drop | both workers | the workers hold handles too | dropped topics stop serving |
| Authorization (`src/caps.rs`, `authorize`) | accepted roots, requirement flag | mint, verify, consult revocation | both workers | fails closed | only verified holders |
| Messages and filters (`src/message.rs`), wire formats (`src/protocol.rs`), command line (`src/main.rs`) | none | validation, parsing, printing | | | |

`PROJECT.json` lists each component with what is modelled of it, and each
hazard at its line with the properties that look for it.

## The modules

| Module | Models | Proved about |
|---|---|---|
| `SubscriptionState` | one subscription's state and the functions on it: Ack, Nack, `plan_lease`, ApplyLease | yes |
| `SubRegistry` | the registry and the worker that writes it, with the log's positions and the clock; extends `SubscriptionLoops` | yes |
| `AckLedger` | the abstract specification: what subscriptions promise consumers | as the target of the refinement |
| `SubscriptionLoops` | the loops of `plan_lease` and `advance_acked`, one cursor at a time, as recursive functions; extends `SubscriptionState` | yes |
| `ControlChannel` | consumers, the inbox, the token set, what follows a committed lease, restarts; extends `SubRegistry` and `DedupCache` | yes |
| `DedupCache` | `IdempotencyCache` and `TokenSet` | yes |
| `Ingest` | remote publishing: retries, the ring, the ingest worker, restarts; extends `DedupCache` | yes |
| `TopicLog` | the log's two ops and two reads | yes |
| `TopicPublish` | concurrent publishers, failures, retention, the live stream; extends `TopicLog` | yes |
| `Pull` | a reader that pages through replicas of the log | yes |
| `OwnerGate` | capability links, the gate both workers pass requests through, the size limits on the way | yes |
| `TopicLifecycle` | handles, clones, the workers' clones, `Drop`, the shutdown flag | |
| `MCSubRegistry`, `MCControlChannel`, `MCOwnerGate` | constants for TLC | |
| `SubscriptionStateProofs`, `SubRegistryProofs`, `ControlChannelProofs`, `DedupCacheProofs`, `IngestProofs`, `PullProofs`, `OwnerGateProofs`, `TopicPublishProofs` | | the proofs |

### SubscriptionState, SubRegistry

`subs[n]` is the `SubscriptionState` the map holds under `n`; `live` is the set
of keys; `high` and `floor` are `high_cursor()` and `floor()` of the topic log.
`plan` is what `handle_lease` holds while it awaits `propose` (lines 1053-1061
of `src/lib.rs`). Each request of `handle_control` that changes the registry is
one action; the lease is two, `PlanLeaseRequest` and `CommitLease` (or
`AbortLease`). `Publish`, `PruneTo` and `Tick` do not wait for the worker and
step in between; other control requests do wait, since `serve_control` awaits
each request before it takes the next. Requests the code rejects and pulls
whose plan is `None` change nothing and are not steps here. `deliveries` is a
history variable: how often each message was really leased.

Abstractions of the data:

- *Time.* A lease is the seconds it has left. The code stores
  `expires_at = now + deadline` and only compares it with a later `now`, so
  `max(0, expires_at - now)` says as much. A cursor without a lease and one with
  an expired lease (a Nack sets `expires_at = 0`) are treated alike by every
  reader. The clock does not run backwards in the models. The lease request
  reads the clock once, at the front; the model reads it when it plans, which
  differs only by the time authorization takes.
- *Attempts.* No entry is 0 attempts.
- *The scan.* `PlanLease` is defined with sets: the scan reaches exactly the
  free cursors with fewer than `cap` deliverable ones before them, and the
  floor is the end of a run. `SubscriptionLoops` runs the code's loops one
  cursor at a time: `ScanIsPlanLease` and `AdvanceIsAck` say that both come to
  the same, in every reachable state, which `registry_safety` checks and
  `SubRegistryProofs` proves.

### ControlChannel

The registry of `SubRegistry` behind the inbox. `ring` holds the frames
consumers have sent, numbered by their reply token. `Poll` reads the ring
without emptying it and may find that the oldest frames are gone, read or not;
the frames of a poll are taken oldest first, so a frame the ring still holds
comes up with every poll, and `seen` (`handled` in `serve_control`, a
`TokenSet`) is what keeps it from being served again: `SkipSeen`. `Takes` is
`seen()` itself, which records the token *before* the request is handled.
`ServeCreate`, `ServeDelete`, `ServeAck`, `ServeNack` and `ServePull` are then
the registry's action for the request, and `ServeUnchanged` every answer that
leaves it alone, a failed `propose` included. A pull goes on through
`LeaseCommits` (or `LeaseFails`), `RouteDeadLetters` and `ReplyArrives` (or
`ReplyLost`): after the commit the dead letters and the leased messages are
looked up in the log *as it is then*, so those pruned meanwhile are neither
routed nor returned. `Restart` may come anywhere: the log, the registry and the
ring stay; token set, plan and outcome go. `Send` waits for the end of a batch,
which loses no behaviour: what arrives during a batch is read by the next poll.

`taken` is a history of the frames this process has handled: the last `Capacity`
of them, and for each frame how often its time to live has begun (a first
handling, or one that found the token expired). `HandlingsFitWindows` relates
the two; that a frame handled again is never among the last `Capacity`, as the
comments have it, fails (`control_recent_frames`).

`SettledWasReceived` counts a committed lease as an attempt whether or not its
reply arrived, as the code does: a message whose replies were all lost, too long
to decode or pruned under it may be dead-lettered without having reached anyone,
but only once its attempts are used up. `AckAnsweredStaysSettled` and
`DeadLettersOnce` speak of a subscription until it is deleted.

Consumers ack and nack what a reply gave them, late, twice or for a
subscription created anew under the same name.

### DedupCache, Ingest

A cache is the keys in the map, their ages and the queue; ages above the time to
live are one age. `Send` is `publish_to_with`, first try or retry, with a fresh
token; `RingDrops` and `Poll` are the node's inbox. `StartApply` is the look-up
that misses, after which the cache is unlocked; `Accepts` or `Rejects` ends the
await and records the outcome under the time read *before* it. The cursor in an
accepting reply was stamped at some moment in between, while `OwnerPublish` may
append too. Several requests are never applied at once: there is one worker.
`Restart` empties the cache, which is in memory, and leaves log and ring; an
append in progress may have committed or not. `forgotten` says of which keys the
outcome was not kept: expired, evicted or lost with a restart. A frame that does
not decode is rejected without touching any state, and is left out.

### TopicLog, TopicPublish

`Stamp`, `DurableAppend` (or `AppendFails`) and `FanOut` (or `FanOutFails`) are
the stretches of `append_and_fanout` between its awaits. A message is its cursor
and a `body` that identifies the publish. `live` is the order of the broadcasts
and `after` which publishes had returned when another began. `PruneTo` takes
any cursor. `retain` in the log's prune and the filter in `since` are `Above`,
which says of the k-th message of the result which one it was before.

### Pull

`owner` lists the states of the owner's log, one per op; a replica has replayed
a prefix of it. `Open` is `snapshot_reader`: each pull starts at the latest
checkpoint, which may be behind the pull before. `FetchTarget` (or
`FetchFails`) asks the owner, `Converges`, `GivesUp` and `QuietWindowEnds` are
the three ways `converge_to` returns, and `ReadPage` builds the `Replay` from
one read of a replica that has gone on replaying since. The reader continues
from `next_cursor()`.

### OwnerGate

`work` is the request a worker has in hand and the locals it took on the way:
the time it read when it took it up, the revoked set it fetched. `Gate`,
`FetchRevoked` and `Verify` are `authorize`, one step per stretch between
awaits; the owner mints, revokes, accepts roots and turns the requirement on and
off between any two. `Take` and `RefuseTooLarge` are the size checks on the way
from `publish_to` to `IngestRequest::decode`.

### TopicLifecycle

`StrongCount` counts the handles of the application and those the workers own.
`DropHandle` is the body of `Drop::drop`, which compares the count with one;
`ReleaseHandle` is the release of the `Arc` that follows it.

## The runs

Passing runs. All check for deadlock: time passes, messages can be pruned or
readers pull again, so none of these systems stops.

| Run | What it asks | Bounds, and why they are enough |
|---|---|---|
| `registry_safety` | `FloorMaximal`, `LeasedIsUnsettled`, `AttemptsCountDeliveries`, `PlanStillValid`, `SetAsideOnlyWhenExhausted`, `DeliveriesWithinPolicy`; `ScanIsPlanLease`, `AdvanceIsAck`: the loops compute what the sets say, for every batch size in every reachable state | one subscription (ops touch one entry), 4 messages, deadlines 1 and 2, batches of 0, 1 and more than the cap of 2: a floor with a gap, a lease, an early ack and a dead letter above it |
| `registry_names` | `LedgerRefinement`, `WithinSubscriptionLimit`, `EveryMessageSettles` | 3 names for 2 places, 2 messages, a policy that dead-letters after one attempt: two subscriptions compete for the worker and a third name for their places (several attempts are in `registry_safety`) |
| `control_delivery` | `SettledWasReceived`, `AckAnsweredStaysSettled`, `DeadLettersOnce` | 2 messages, 3 requests, a token set of 1, one attempt, one restart: enough for lease, lost reply, expiry, dead letter, late ack, and a frame that is handled again by eviction, by expiry or after the restart |
| `control_frames` | `HandlingsFitWindows` | a token set of 2 and 3 frames, time to live 1, 4 slots in the queue, one restart: the smallest set in which a token with two slots is evicted by the wrong one, since with room for one token every eviction takes the only one |
| `topic_publish` | `RetainedIsTail`, `GetFindsStored`, `SinceIsStrictTail`, `AnnouncedIsDurable`, `LiveInPublishOrder` | 3 publishers, 4 messages: two that overlap and one that begins after either |
| `ingest_dedup` | `MapIsBounded`, `OneOutcomeUntilForgotten`, `AcceptedIsAppended`, `EvictsOneToMakeRoom` | a cache of 2, 3 requests of which any share a key, 2 appends, time to live 1, one restart: misses, hits, expiry during an append, stale queue slots, eviction and a restart between append and record all occur |
| `pull_pages` | `PagesComplete`, `ConvergedIsComplete`, `EveryMessageArrives` | 3 messages in 5 versions of the log, pages of 1 and 2, one pull that fails: a full page, a cut one, an empty one, a replica behind the page before |
| `owner_gate` | `GateIsHonoured`, `AuthenticatedWasGranted` | one link, of any of two issuers, two holders, two abilities and two scopes, with and without expiry; seconds 0 to 2 |

Bounds that do not come from the code: `MaxCursor`, `MaxMessages`,
`MaxVersions` and `MaxAppends` (length of a log), `Published` (messages there
are to begin with, from where the channel publishes on), `MaxDeliveries`
(deliveries of one message under a policy that retries forever), `MaxTokens`
and `MaxRequests` (requests sent), `MaxOrder` (slots in a cache's queue, which
the code does not bound), `MaxRestarts`, `MaxTimeouts` (pulls that fail),
`MaxTime`, `MaxLinks`.

Each run's `TypeOK` (`ChannelTypeOK`) is its one type invariant. Every property
of a passing run has a mutant: a variant of a definition, such as
`AckKeepsLease`, that breaks the property the way a slip in the code would.
Variants are defined next to what they vary and used nowhere else.

Violation runs. Each shows a statement of the repository that the code does not
keep; the traces are short.

| Run | The statement | What happens |
|---|---|---|
| `topic_stale_cursor` | publish "Returns the assigned `Cursor`" (`lib.rs:687`) | two publishers get the same cursor; the log re-stamps one |
| `control_recent_frames` | "Eviction removes the *oldest* entry, not the whole set, so recent tokens are never forgotten" (`dedup.rs:11`); "within a TTL window so a re-delivered inbox frame is not handled twice" (`lib.rs:927`) | a token that expired and was recorded again has its old slot still in the queue (`dedup.rs:128`): eviction meets it there and forgets the newest token, whose frame is handled again in the same second |
| `topic_drop_stops` | the workers "run until the **last** `Topic` handle (and every clone) is dropped" (`lib.rs:169`, `README.md:31`) | the workers' own clones keep the count above one, so the flag is never set |
| `ingest_payload_limit` | `MAX_PAYLOAD_BYTES` is what "the remote ingest path" accepts (`message.rs:20`, `README.md:104`) | the payload is hex within hex, so above about 5 MiB `decode_hex` refuses it (`protocol.rs:82`) |

`IdempotencyCache` has the loop and the stale slots of `control_recent_frames`
too (`dedup.rs:56` and `75`; line 57 says that such a slot is skipped).

`topic_drop_stops` turns the deadlock check off: with every worker stopped and
every handle dropped, nothing is left to do.

Seen while modelling and not given a run:

- Acking a cursor that is not yet published moves the floor there, above the
  log's high water (`tests/prop_subscription.rs:6`); the consumers of
  `ControlChannel` do not do that.
- A dead-lettered message that is acked late stays in `dead` below the floor
  (`subscription.rs:250`; line 243 says it is dropped), a pruned prefix is not
  bridged when nothing above it can be leased (`subscription.rs:342`; line
  349), and attempts and leases of pruned messages stay in the maps (line 205).
- The queue of a cache grows with every key that expires and is recorded again
  (`dedup.rs:83`; line 30 calls it bounded).
- Overlapping publishes may be broadcast in the reverse of their log order: the
  live lock is taken after the append (`lib.rs:720`).
- `handle_ingest` answers a frame again with each poll, where its comment says
  it returns `None` (`lib.rs:779`). A request that fails for a passing reason is
  recorded as handled, so its retry under the same key cannot succeed
  (`lib.rs:808`); two publishers that choose the same key share one outcome
  (`lib.rs:796`), and so does a key written like a request's own, `tok:` and a
  number, which `KeysAssumption` rules out; after a restart, or the time to live,
  frames still in the ring are applied again.
- A delete that is handled again deletes the subscription created anew under the
  name since (`lib.rs:1014`); the comment on line 929 lists ack, nack and create
  as the requests that may be handled twice.
- `next_cursor()` of an empty page is where the reader was, not the high-water
  cursor (`lib.rs:1179`); `converged()` may be false with `missing()` 0, when the
  replica catches up between the last poll and the read (`lib.rs:252`); a pull by
  the owner itself takes its target from a replica that was only just opened
  (`lib.rs:319`).
- The cursor of a message is its position in the topic, and ce-coord's version
  counts the prunes as well (`message.rs:16`).

### Fairness

Only the liveness properties assume any.

`SubRegistry`: the clock advances; each subscription has consumers that keep
pulling with a batch size above 0; and a commit that is tried again and again
succeeds. Pulls and commits are strongly fair: a pull is disabled while the
worker is busy with another request, and the worker serves the inbox in order,
so a consumer that keeps asking is served; a commit is disabled between leases,
and an owner whose proposals always fail serves nobody. Both are stated for each
subscription: a commit of one says nothing about the proposals of another, and
with fairness of commits at large one subscription could starve on the other's. Nothing is assumed about
acks, nacks, publishing, pruning or deletion.

`Pull`: the reader takes its next step (`pull` is one async function whose waits
all have deadlines) and an open replica keeps replaying, both weakly fair; only
finitely many pulls time out. Nothing is assumed of the owner.

`TopicLifecycle`: the runtime runs both workers and a drop that began ends; no
handle need ever be dropped.

## What is proved

For every value of the constants, under the assumptions the modules state about
them: bounds, limits and times are natural numbers, a policy's fields are in
range, a cache has room for one key, and a value that stands for "none"
(`NoName`, `NoTarget`, `NoKey`) is not one of what it stands beside.

### The registry: `SubscriptionStateProofs`, `SubRegistryProofs`

- `TypeCorrectness`, `FloorIsMaximal`, `LeasedMessagesAreUnsettled`,
  `AttemptsAreDeliveries`, `PlanStaysValid`: the invariants of `registry_safety`;
- `DeliveriesStayWithinPolicy`, `OnlyExhaustedAreSetAside`: its action properties;
- `RegistryImplementsLedger`: `Spec => LedgerRefinement`;
- `RegistryStaysWithinLimit`: at most `MAX_SUBSCRIPTIONS`;
- `ScanMakesThePlan`, `AdvanceFoldsTheRun`: the loops of `plan_lease` and
  `advance_acked` compute what the model says with sets.

The inductive invariant is `IInv`: types, the consistency of every live
subscription (`Consistent`: floor in order, leases unsettled, attempts equal to
deliveries), and `PlanStillValid`. No part is inductive alone. A commit keeps
the floor folded only because the plan's floor is the end of a run in the
*present* state, that is, because the plan still suits it; the plan suits it
because it was free and unsettled when planned, and what steps in between only
publishes, prunes or takes leases away; and a commit keeps attempts equal to
deliveries because what it leases is not settled. The proof has one lemma per
action. The lemmas on single states (`AckProperty`, `ApplyLeaseProperty`,
`PlanLeaseProperty`, `RunEndProperty`) are in `SubscriptionStateProofs`; that a
run of handled cursors has an end rests on the natural numbers being well
founded, the rest is arithmetic and sets.

The refinement maps `settled` to everything at or below the floor, acked or
dead, and `held` to the unexpired leases of unsettled messages. Create is Open
or a stutter, an ack is Acknowledge, a commit is HandOut with the dead letters
and the pruned prefix set aside, the clock is Lapse.

The loops are recursive functions, and a recursive function is a CHOOSE: it
satisfies its equation only if some function does. So each proof has two halves.
The result in closed form satisfies the equation, hence the function does; and
two functions that satisfy it agree, since at the greatest cursor where they
differ they would have gone on to a greater one (`HasGreatest`). For the scan
the closed form is `ScanReaches`: from cursor c on, with room for r, the loop
leases and sets aside exactly the cursors with fewer than r deliverable ones
between c and them. `FoldsAdvance` is one turn of `advance_acked`: it leaves the
state that `AdvanceAcked` jumps to where it was.

### The control channel: `ControlChannelProofs`

- `RegistryBehindChannel`: whatever comes through the inbox, the registry takes
  only steps of `SubRegistry`, so the invariants above hold behind it too;
- `AcksAreForGood`, `DeadLettersGoOnce`: an answered ack stays settled, and a
  dead letter goes out at most once and after its commit;
- `NothingIsLostOnTheWay`: what is given up was received by a consumer, pruned or
  handed out as often as the policy allows;
- `HandlingsAreBounded`: among the last `Capacity` frames handled and the next,
  none comes up more often than its time to live has begun, for any capacity; so
  one whose time began once comes up twice only after it ended, or after a whole
  capacity of other frames;
- `ChannelTypes`: the types.

`CInv` adds to `IInv` where the worker is in a pull, that consumers ack only what
a reply gave them, and that what is still to be routed is settled and was not
routed before. That settled messages stay settled is not proved again: it is
taken from the ledger the registry implements.

`HandlingsAreBounded` has an invariant of its own, `FrameInv`: the types of the
ring, and `SetInv` of the token set. The queue ends with
the frames handled last (`TailsAgree`); a frame has at most as many slots in the
queue as its time to live has begun, and one less once the set has forgotten it
before its time (`QueueFits`); and the same holds of how often it is among the
last `Capacity` handled (`RecentFits`), which is the property. An eviction
brings the first over to the second: a slot is popped from a full set, so a
whole capacity of slots is behind it, the frames handled last are all among
them, and what is left of the queue has one slot less of the frame evicted.
Expiry takes a token out without a slot, but begins a new time to live. This is
why a stale slot costs one early handling and never two.
`ChannelTypes` adds to `CInv` and `FrameInv` that the worker holds a committed
lease exactly while it routes and replies (`OutcomeOK`).

### Ingest and its cache: `DedupCacheProofs`, `IngestProofs`

All five properties of `ingest_dedup`: `IngestTypes`, `CacheStaysBounded`,
`OneOutcomePerKey`, `AcceptedStaysAppended`, `EvictionIsOneAtATime`.

`TakeUpProperty` is `TokenSet::seen` that takes a token up, and
`MakeRoomProperty` is about the eviction loop. It ends with room because every
key in the map has a slot in the queue, so popping the whole queue would empty
the map; and it takes out at most one key, because with one pop fewer the map
still had no room, which a map within its capacity has only when nothing was
taken out. `IngestInv` then says what the cache owes the log and the replies
(`CacheKnows`), and that the key a worker is applying stays out of the cache
from the look-up to the record. That last part is why one outcome is never
replaced by another although the cache is unlocked in between.

### Paging: `PullProofs`

- `PullTypes`, `PagingIsComplete`, `ConvergedReplayIsComplete`: the safety
  properties of `pull_pages`.

`PagesComplete` is inductive with the types alone, wherever the replicas are: a
page starts right after the reader's position, or right after a floor that is
then reported. `ConvergedIsComplete` needs it, and that a replica that has
reached the target (`TargetReached`) never falls behind it while it goes on
replaying, because the owner's high-water cursor only rises (`OwnerGrows`).

### The gate: `OwnerGateProofs`

- `GateHolds`, `OnlyGrantedPasses`: the safety properties of `owner_gate`;
- `GateTypeCorrectness`: the types.

The invariant follows the request in hand through the awaits: what the worker
has established so far, and what has become of the link and the flag since.

### The log and the live stream: `TopicPublishProofs`

- `LogIsTailOfHistory`, `GetFindsWhatIsRetained`, `SinceReplaysTheTail`,
  `PublishedIsDurable`, `PublishTypes`, `LiveKeepsPublishOrder`: the type
  invariant and all five properties of `topic_publish`.

For the log the inductive invariant is `LogInv`. That what is retained is the
numbered tail of the history is kept by an append because the log overwrites the
cursor, and by a prune because `Above` of a sequence numbered without gaps is one
of its tails, so that as many messages are dropped as the floor rises
(`Consecutive`). A publish is in the history once because one not yet appended
is not in it (`StampedNotYetStored`), at or after the cursor it was given
because the history never shrinks, and for the same reason the history is no
longer than the number of publishes (`DistinctAreFew`), which is what bounds
it. `get` and `since` are then arithmetic on a numbered tail.

For the stream: what is in `after` of a publish had returned, only what has
returned is on the stream, and the message of a publish in progress has not: so
the next one broadcast is neither on the stream nor in `after` of anything there.

### Only model-checked

Liveness, out of the prover's reach: `EveryMessageSettles` and
`EveryMessageArrives`. Every safety property of a passing run is proved. The
violation runs are counterexamples, and `TopicLifecycle` is there for one of
them only.

## Not modelled

- Attribute filters and the limits on names and attributes, the JSON of the wire
  formats, the commands of the CLI but `grant`: sequential parsing, checks and
  printing without state, whose cases the unit tests enumerate.
- `ce-coord`, `ce-rs` and the verification of chains of several links in
  `ce-cap`: external. They appear as what they do for this code: an op applies
  or fails, a replica lags, a frame is in the ring or not, a reply arrives or is
  lost.
- The subscriber's end of the live stream: a filter without state over an
  external stream that may lose messages.
- A pull by the owner of the topic, whose target comes from another replica
  instead of a request.
- A clock that runs backwards.

## Plan

What could follow:

- ingest with authorization and payload limits in one module with the gate, so
  that what is appended under a key is also what was authorized;
- the hazards no property looks for yet, each with its reason in `PROJECT.json`;
- what `TopicLifecycle` does guarantee, as an invariant beside its violation.
