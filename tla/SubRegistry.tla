----------------------------- MODULE SubRegistry -----------------------------
(***************************************************************************)
(* The replicated registry of a topic's subscriptions (SubRegistry in      *)
(* src/src/subscription.rs) and the control worker of the topic's owner    *)
(* that writes it (handle_control and handle_lease in src/src/lib.rs).     *)
(*                                                                         *)
(* One worker serves the control requests of a topic one after another, so *)
(* one request is in progress at a time.  A lease request is two steps:    *)
(* the worker reads the log's floors and the registry and plans, then      *)
(* awaits the commit of the plan.  Publishing, pruning and the clock do    *)
(* not wait for it, so they step in between; other control requests do     *)
(* wait.  The other requests change the registry by one op, decided by one *)
(* read of what only this worker writes, and are one step.                 *)
(*                                                                         *)
(* A request the code rejects, and a pull whose plan is None, changes no   *)
(* state and is no step here.  The topic's log is its two positions: the   *)
(* messages it holds are those above `floor` and up to `high`.             *)
(***************************************************************************)
EXTENDS SubscriptionLoops

CONSTANTS
  Names,             \* subscription names that pass validate_topic
  NoName,            \* the name in the plan of a worker that has none
  Policies,          \* the policies clients ask for, invalid ones included
  PullSizes,         \* the values of max_messages clients ask for
  MaxSubscriptions,  \* MAX_SUBSCRIPTIONS
  MaxDeliveries      \* bound: deliveries of one message (u32 in the code)

ASSUME NamesAssumption == NoName \notin Names
ASSUME PoliciesAssumption == Policies \subseteq Policy
ASSUME PullSizesAssumption == PullSizes \subseteq Nat
ASSUME LimitsAssumption == MaxSubscriptions \in Nat /\ MaxDeliveries \in Nat

VARIABLES
  live,       \* the keys of the registry's map
  subs,       \* its values; a name that is not live has an empty one
  high,       \* high_cursor() of the topic's log
  floor,      \* floor() of the topic's log
  plan,       \* the planned lease the worker is committing
  deliveries  \* history: per live name, how often each cursor was leased

vars == <<live, subs, high, floor, plan, deliveries>>

(* The worker's locals while it awaits the commit: `name`, `floor`, `op`. *)
Plan ==
  [ name      : Names \cup {NoName},
    leased    : SUBSET Cursor,
    dead      : SUBSET Cursor,
    new_acked : 0..MaxCursor,
    left      : 0..MaxAckDeadlineSecs,
    floor     : 0..MaxCursor ]

NoPlan == [name |-> NoName, leased |-> {}, dead |-> {}, new_acked |-> 0,
           left |-> 0, floor |-> 0]

Idle == plan.name = NoName

DefaultPolicy == [ack_deadline_secs |-> 0, max_delivery_attempts |-> 0]
Blank == NewSubscription(DefaultPolicy)
NoDeliveries == [c \in Cursor |-> 0]

Init ==
  /\ live = {}
  /\ subs = [n \in Names |-> Blank]
  /\ high = 0
  /\ floor = 0
  /\ plan = NoPlan
  /\ deliveries = [n \in Names |-> NoDeliveries]

------------------------------------------------------------------------------
(* Requests that are one op *)

(* A variant of AtCapacity that is one subscription too generous. *)
AtCapacityLate(n) == n \notin live /\ Cardinality(live) > MaxSubscriptions

AtCapacity(n) == n \notin live /\ Cardinality(live) >= MaxSubscriptions

(* A variant of CreateSubscription that starts an existing one afresh. *)
CreateResets(n, p) ==
  /\ Idle
  /\ ValidPolicy(p)
  /\ ~AtCapacity(n)
  /\ live' = live \cup {n}
  /\ subs' = [subs EXCEPT ![n] = NewSubscription(p)]
  /\ UNCHANGED <<high, floor, plan, deliveries>>

(* Creating an existing subscription only replaces its policy. *)
CreateSubscription(n, p) ==
  /\ Idle
  /\ ValidPolicy(p)
  /\ ~AtCapacity(n)
  /\ live' = live \cup {n}
  /\ subs' = [subs EXCEPT ![n] = IF n \in live THEN [@ EXCEPT !.policy = p]
                                 ELSE NewSubscription(p)]
  /\ UNCHANGED <<high, floor, plan, deliveries>>

(* A variant of DeleteSubscription that leaves the state behind. *)
DeleteKeepsState(n) ==
  /\ Idle
  /\ n \in live
  /\ live' = live \ {n}
  /\ UNCHANGED <<subs, high, floor, plan, deliveries>>

DeleteSubscription(n) ==
  /\ Idle
  /\ n \in live
  /\ live' = live \ {n}
  /\ subs' = [subs EXCEPT ![n] = Blank]
  /\ deliveries' = [deliveries EXCEPT ![n] = NoDeliveries]
  /\ UNCHANGED <<high, floor, plan>>

(* A variant of AckRequest that does not wait for a lease in progress. *)
AckDuringLease(n, cursor) ==
  /\ n \in live
  /\ subs' = [subs EXCEPT ![n] = Ack(@, cursor)]
  /\ UNCHANGED <<live, high, floor, plan, deliveries>>

(* A consumer may name any cursor: the code checks none of them. *)
AckRequest(n, cursor) ==
  /\ Idle
  /\ n \in live
  /\ subs' = [subs EXCEPT ![n] = Ack(@, cursor)]
  /\ UNCHANGED <<live, high, floor, plan, deliveries>>

NackRequest(n, cursor) ==
  /\ Idle
  /\ n \in live
  /\ subs' = [subs EXCEPT ![n] = Nack(@, cursor)]
  /\ UNCHANGED <<live, high, floor, plan, deliveries>>

------------------------------------------------------------------------------
(* The lease request *)

(***************************************************************************)
(* handle_lease up to the await.  MaxDeliveries keeps the model finite     *)
(* under a policy that retries forever.                                    *)
(***************************************************************************)
PlanLeaseRequest(n, max) ==
  LET p == PlanLease(subs[n], high, floor, max)
  IN /\ Idle
     /\ n \in live
     /\ ~EmptyPlan(p)
     /\ \A c \in p.leased : subs[n].attempts[c] < MaxDeliveries
     /\ plan' = [ name      |-> n,
                  leased    |-> p.leased,
                  dead      |-> p.dead,
                  new_acked |-> p.new_acked,
                  left      |-> p.left,
                  floor     |-> floor ]
     /\ UNCHANGED <<live, subs, high, floor, deliveries>>

(* The op commits and every replica applies it. *)
CommitLease ==
  /\ ~Idle
  /\ subs' = [subs EXCEPT ![plan.name] = ApplyLease(@, plan)]
  /\ deliveries' = [deliveries EXCEPT ![plan.name] =
                      [c \in Cursor |-> IF c \in plan.leased THEN @[c] + 1
                                        ELSE @[c]]]
  /\ plan' = NoPlan
  /\ UNCHANGED <<live, high, floor>>

(* `propose` returns an error: the request is rejected. *)
AbortLease ==
  /\ ~Idle
  /\ plan' = NoPlan
  /\ UNCHANGED <<live, subs, high, floor, deliveries>>

------------------------------------------------------------------------------
(* What the control worker does not wait for *)

(* LogOp::Append.  MaxCursor bounds the log. *)
Publish ==
  /\ high < MaxCursor
  /\ high' = high + 1
  /\ UNCHANGED <<live, subs, floor, plan, deliveries>>

(* LogOp::PruneTo(up_to), for the values that drop a message. *)
PruneTo(up_to) ==
  /\ floor < up_to
  /\ floor < high
  /\ floor' = Smaller(up_to, high)
  /\ UNCHANGED <<live, subs, high, plan, deliveries>>

(* The wall clock: every lease, and the one being committed, has less left. *)
Tick ==
  /\ \/ plan.left > 0
     \/ \E n \in Names : Leased(subs[n]) # {}
  /\ subs' = [n \in Names |-> Elapse(subs[n])]
  /\ plan' = [plan EXCEPT !.left = Larger(@ - 1, 0)]
  /\ UNCHANGED <<live, high, floor, deliveries>>

Control ==
  \/ \E n \in Names, p \in Policies : CreateSubscription(n, p)
  \/ \E n \in Names : DeleteSubscription(n)
  \/ \E n \in Names, c \in 0..MaxCursor : AckRequest(n, c) \/ NackRequest(n, c)
  \/ \E n \in Names, max \in PullSizes : PlanLeaseRequest(n, max)
  \/ CommitLease
  \/ AbortLease

Next ==
  \/ Control
  \/ Publish
  \/ \E up_to \in Cursor : PruneTo(up_to)
  \/ Tick

Spec == Init /\ [][Next]_vars

------------------------------------------------------------------------------
(* Invariants *)

(* Types; a deleted subscription leaves nothing to the next of its name. *)
TypeOK ==
  /\ live \subseteq Names
  /\ subs \in [Names -> SubState]
  /\ high \in 0..MaxCursor
  /\ floor \in 0..high
  /\ plan \in Plan
  /\ deliveries \in [Names -> [Cursor -> Nat]]
  /\ \A n \in Names \ live : subs[n] = Blank /\ deliveries[n] = NoDeliveries

(***************************************************************************)
(* The ack floor is as high as it can be: the next cursor is neither acked *)
(* nor dead, and the individual acks are all above the floor.  Every op    *)
(* that settles a cursor must therefore also fold the run it completes:    *)
(* advance_acked after an Ack, new_acked in an ApplyLease, whatever acks   *)
(* and plans came in between.                                              *)
(***************************************************************************)
FloorMaximal == \A n \in live : FloorInOrder(subs[n])

(***************************************************************************)
(* No consumer holds a message that is acked or dead-lettered; one it      *)
(* holds below the ack floor is a message the topic pruned meanwhile (the  *)
(* only way the floor passes an outstanding lease in ApplyLease).          *)
(***************************************************************************)
LeasedIsUnsettled == \A n \in live : \A c \in Leased(subs[n]) :
  /\ c \notin subs[n].acked_set \cup subs[n].dead
  /\ c <= subs[n].acked => c <= floor

(***************************************************************************)
(* The attempt counter the dead-letter policy reads is the number of times *)
(* the message was really leased since the subscription was created: it    *)
(* survives expiry, Nack, a policy change and a committed plan for others. *)
(***************************************************************************)
AttemptsCountDeliveries == \A n \in live : \A c \in Cursor \ Settled(subs[n]) :
  subs[n].attempts[c] = deliveries[n][c]

(***************************************************************************)
(* What handle_lease planned before its await is still right when the op   *)
(* commits, whatever was published, pruned or expired meanwhile: the       *)
(* subscription exists, nothing planned has been settled or leased, the    *)
(* planned floor is the end of the run above the floors it read, and the   *)
(* policy still hands out and dead-letters the same cursors.               *)
(***************************************************************************)
PlanStillValid == ~Idle =>
  /\ plan.name \in live
  /\ plan.floor <= floor
  /\ Suits(plan, subs[plan.name], plan.floor, high)
  /\ \A c \in plan.leased : ~Poisoned(subs[plan.name], c)
  /\ \A c \in plan.dead : Poisoned(subs[plan.name], c)

(* create never takes the registry past MAX_SUBSCRIPTIONS (at_capacity). *)
WithinSubscriptionLimit == Cardinality(live) <= MaxSubscriptions

(***************************************************************************)
(* The scan of plan_lease, which skips, sets aside and leases cursors in   *)
(* one pass and leaves at `cap` leased ones without counting the poison    *)
(* ones it passes, and its last loop yield the plan PlanLease defines.     *)
(***************************************************************************)
ScanIsPlanLease == \A n \in live : \A max \in 0..(MaxCursor + 1) :
  LoopPlanLease(subs[n], high, floor, max) = PlanLease(subs[n], high, floor, max)

(***************************************************************************)
(* Folding one cursor at a time, from whichever map has it first, reaches  *)
(* the state AdvanceAcked jumps to, a cursor in both maps included.        *)
(***************************************************************************)
AdvanceIsAck == \A n \in live : \A c \in 0..MaxCursor :
  LoopAdvance[RecordAck(subs[n], c)] = Ack(subs[n], c)

------------------------------------------------------------------------------
(* Action properties *)

(***************************************************************************)
(* Committing a lease settles a message nobody acked only if the topic has *)
(* pruned it or consumers have been handed it max_delivery_attempts times. *)
(***************************************************************************)
SetAsideOnlyWhenExhausted ==
  [][(~Idle /\ Idle') =>
       LET n   == plan.name
           max == subs[n].policy.max_delivery_attempts
       IN \A c \in Settled(subs'[n]) \ Settled(subs[n]) :
            c <= floor \/ (max # 0 /\ deliveries[n][c] >= max)]_vars

(***************************************************************************)
(* No message is handed out more often than the policy of its subscription *)
(* allows, counted over every lease, expiry, Nack and policy change.       *)
(***************************************************************************)
DeliveriesWithinPolicy ==
  [][\A n \in Names, c \in Cursor :
       deliveries'[n][c] > deliveries[n][c] =>
         LET max == subs[n].policy.max_delivery_attempts
         IN max = 0 \/ deliveries'[n][c] <= max]_vars

(* What AckLedger calls settled and held. *)
SettledBy == [n \in Names |-> Settled(subs[n])]
HeldBy == [n \in Names |-> Leased(subs[n]) \ Settled(subs[n])]

(***************************************************************************)
(* The registry keeps the promise of AckLedger: settled messages are never *)
(* handed out again, a held message is handed out to nobody else, and an   *)
(* op on one message or one subscription settles nothing else.             *)
(***************************************************************************)
Ledger == INSTANCE AckLedger WITH
  open    <- live,
  settled <- SettledBy,
  held    <- HeldBy,
  retired <- floor

LedgerRefinement == Ledger!LedgerSpec

------------------------------------------------------------------------------
(* Liveness *)

(***************************************************************************)
(* Time passes, a worker that keeps proposing a subscription's leases      *)
(* eventually commits one, and the consumers of every subscription keep    *)
(* pulling.  Nothing says that they ever acknowledge.  A pull is strongly  *)
(* fair because it is disabled while the worker serves another request; a  *)
(* commit because the worker may abort any number of leases first, and for *)
(* each subscription, or one could starve on the commits of another.       *)
(***************************************************************************)
Fairness ==
  /\ WF_vars(Tick)
  /\ \A n \in Names : SF_vars(plan.name = n /\ CommitLease)
  /\ \A n \in Names : \A max \in PullSizes \ {0} : SF_vars(PlanLeaseRequest(n, max))

FairSpec == Spec /\ Fairness

(***************************************************************************)
(* Under policies that dead-letter, a published message is not delivered   *)
(* forever: it is acked, dead-lettered or pruned, or its subscription is   *)
(* deleted.  A poison message never blocks the subscription.               *)
(***************************************************************************)
EveryMessageSettles == \A n \in Names, c \in Cursor :
  (n \in live /\ c <= high) ~>
    (n \notin live \/ c \in Settled(subs[n]) \/ c <= floor)

==============================================================================
