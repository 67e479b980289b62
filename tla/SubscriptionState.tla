-------------------------- MODULE SubscriptionState --------------------------
(***************************************************************************)
(* The durable state of one subscription and the functions that change it  *)
(* (src/src/subscription.rs): acknowledgement, negative acknowledgement,   *)
(* planning a lease and applying the planned lease.  The module holds no   *)
(* variables; SubRegistry keeps one such state per subscription name.      *)
(*                                                                         *)
(* Two abstractions of the data.                                           *)
(*  - A lease is the time it has left.  The code stores the absolute       *)
(*    second at which a lease expires and only ever compares it with the   *)
(*    present time, so what a lease says is max(0, expires_at - now).  A   *)
(*    cursor without a lease and one whose lease is over (a Nack stores    *)
(*    expires_at = 0) are the same to every later call: both have 0 left.  *)
(*  - A cursor without an entry in `attempts` has 0 attempts.              *)
(***************************************************************************)
EXTENDS Integers, FiniteSets

CONSTANTS
  MaxCursor,           \* bound: the largest cursor (u64 in the code)
  MaxAckDeadlineSecs,  \* MAX_ACK_DEADLINE_SECS
  MaxLeaseBatch        \* MAX_LEASE_BATCH

ASSUME MaxCursorAssumption == MaxCursor \in Nat
ASSUME MaxAckDeadlineAssumption == MaxAckDeadlineSecs \in Nat \ {0}
ASSUME MaxLeaseBatchAssumption == MaxLeaseBatch \in Nat

Cursor == 1..MaxCursor

(* SubscriptionPolicy: both fields are whatever number a client sent. *)
Policy == [ack_deadline_secs : Nat, max_delivery_attempts : Nat]

(* SubscriptionPolicy::validate *)
ValidPolicy(p) == p.ack_deadline_secs \in 1..MaxAckDeadlineSecs

SubState ==
  [ acked     : 0..MaxCursor,
    leases    : [Cursor -> 0..MaxAckDeadlineSecs],
    attempts  : [Cursor -> Nat],
    dead      : SUBSET Cursor,
    acked_set : SUBSET Cursor,
    policy    : Policy ]

(* SubscriptionState::default(), with the policy the Create op carries. *)
NewSubscription(p) ==
  [ acked     |-> 0,
    leases    |-> [c \in Cursor |-> 0],
    attempts  |-> [c \in Cursor |-> 0],
    dead      |-> {},
    acked_set |-> {},
    policy    |-> p ]

(* What a consumer will never be handed again. *)
Settled(s) == (1..s.acked) \cup s.acked_set \cup s.dead

(* The cursors whose lease has not expired. *)
Leased(s) == {c \in Cursor : s.leases[c] > 0}

Larger(a, b)  == IF a >= b THEN a ELSE b
Smaller(a, b) == IF a <= b THEN a ELSE b

(***************************************************************************)
(* The end of the run of handled cursors that starts at base + 1: where    *)
(* both the loop of advance_acked and the last loop of plan_lease stop.    *)
(***************************************************************************)
RunEndsAt(base, handled, k) ==
  /\ (base + 1)..k \subseteq handled
  /\ k + 1 \notin handled

RunEnd(base, handled) ==
  CHOOSE k \in base..MaxCursor : RunEndsAt(base, handled, k)

------------------------------------------------------------------------------
(* The Ack op *)

(***************************************************************************)
(* advance_acked folds the run of cursors after the floor that are acked   *)
(* or dead.  `acked_set.remove(&next) || dead.remove(&next)` stops at the  *)
(* first map that holds the cursor, so one that is in both stays in dead.  *)
(***************************************************************************)
AdvanceAcked(s) ==
  LET end == RunEnd(s.acked, s.acked_set \cup s.dead)
      run == (s.acked + 1)..end
  IN [ acked     |-> end,
       leases    |-> s.leases,
       attempts  |-> s.attempts,
       dead      |-> s.dead \ (run \ s.acked_set),
       acked_set |-> s.acked_set \ run,
       policy    |-> s.policy ]

(* Forgets one cursor: `leases.remove(&cursor)`, `attempts.remove(&cursor)`. *)
Without(f, C) == [c \in Cursor |-> IF c \in C THEN 0 ELSE f[c]]

(* A variant of Ack that raises the floor straight to the acked cursor. *)
AckJumpsFloor(s, cursor) ==
  [s EXCEPT !.leases = Without(@, {cursor}), !.attempts = Without(@, {cursor}),
            !.acked = Larger(@, cursor)]

(* A variant of Ack that leaves the run where it is. *)
AckWithoutAdvance(s, cursor) ==
  [s EXCEPT !.leases = Without(@, {cursor}), !.attempts = Without(@, {cursor}),
            !.acked_set = IF cursor > s.acked THEN @ \cup {cursor} ELSE @]

(* A variant of Ack that keeps the lease. *)
AckKeepsLease(s, cursor) ==
  AdvanceAcked(
    [s EXCEPT !.attempts = Without(@, {cursor}),
              !.acked_set = IF cursor > s.acked THEN @ \cup {cursor} ELSE @])

(***************************************************************************)
(* Acknowledging a cursor drops its lease and its attempts, records it     *)
(* unless it is at or below the floor, and advances the floor.             *)
(***************************************************************************)
Ack(s, cursor) ==
  AdvanceAcked(
    [ acked     |-> s.acked,
      leases    |-> Without(s.leases, {cursor}),
      attempts  |-> Without(s.attempts, {cursor}),
      dead      |-> s.dead,
      acked_set |-> s.acked_set \cup {c \in {cursor} : c > s.acked},
      policy    |-> s.policy ])

(* The Nack op: the lease ends now; the attempts stay. *)
Nack(s, cursor) == [s EXCEPT !.leases = Without(@, {cursor})]

------------------------------------------------------------------------------
(* plan_lease *)

(* A variant of Free that hands out what a consumer still holds. *)
FreeThoughLeased(s, c) == c \notin s.dead \cup s.acked_set

(* A cursor plan_lease does not skip. *)
Free(s, c) == s.leases[c] = 0 /\ c \notin s.dead \cup s.acked_set

(* A variant of Poisoned that gives a message one attempt too many. *)
PoisonedLate(s, c) ==
  /\ s.policy.max_delivery_attempts # 0
  /\ s.attempts[c] > s.policy.max_delivery_attempts

(* A variant of Poisoned that dead-letters under the policy that disables it. *)
PoisonedAlways(s, c) == s.attempts[c] + 1 > s.policy.max_delivery_attempts

(* A variant of Poisoned that gives a message one attempt too few. *)
PoisonedEarly(s, c) ==
  /\ s.policy.max_delivery_attempts # 0
  /\ s.attempts[c] + 1 >= s.policy.max_delivery_attempts

(* A variant of Poisoned that never gives up on a message. *)
PoisonedNever(s, c) == FALSE

(* The next attempt would exceed the policy: dead-letter, do not deliver. *)
Poisoned(s, c) ==
  /\ s.policy.max_delivery_attempts # 0
  /\ s.attempts[c] + 1 > s.policy.max_delivery_attempts

Deadline(p) == Smaller(Larger(p.ack_deadline_secs, 1), MaxAckDeadlineSecs)

(***************************************************************************)
(* A plan holds the cursors to hand out, the ones to dead-letter, the      *)
(* floor after the plan, and the time the new leases will have left.  The  *)
(* scan goes upwards from the higher of the two floors and ends once `cap` *)
(* cursors are leased: it has reached exactly the cursors with fewer than  *)
(* `cap` deliverable ones before them.                                     *)
(***************************************************************************)
PlanLease(s, high, floor, max) ==
  LET base        == Larger(s.acked, floor)
      cap         == Smaller(max, MaxLeaseBatch)
      free        == {c \in Cursor : c > base /\ c <= high /\ Free(s, c)}
      deliverable == {c \in free : ~Poisoned(s, c)}
      scanned     == {c \in free :
                        Cardinality({d \in deliverable : d < c}) < cap}
      dead        == scanned \ deliverable
  IN [ leased    |-> scanned \cap deliverable,
       dead      |-> dead,
       new_acked |-> RunEnd(base, s.dead \cup s.acked_set \cup dead),
       left      |-> Deadline(s.policy) ]

(***************************************************************************)
(* A plan made for log positions floor and high suits a state: everything  *)
(* it names is free and between the floors and high, and new_acked is the  *)
(* end of the run that starts at the floors.                               *)
(***************************************************************************)
Suits(p, s, floor, high) ==
  LET base == Larger(s.acked, floor)
  IN /\ p.leased \cap p.dead = {}
     /\ \A c \in p.leased \cup p.dead :
          c > base /\ c <= high /\ c \notin Settled(s) \cup Leased(s)
     /\ p.new_acked \in base..MaxCursor
     /\ RunEndsAt(base, s.dead \cup s.acked_set \cup p.dead, p.new_acked)

(* The floor cannot advance, and the individual acks lie above it. *)
FloorInOrder(s) ==
  /\ s.acked + 1 \notin s.acked_set \cup s.dead
  /\ \A c \in s.acked_set : c > s.acked

(* plan_lease returns None. *)
EmptyPlan(p) == p.leased = {} /\ p.dead = {}

(* A variant of ApplyLease that forgets to count the delivery. *)
ApplyUncounted(s, p) ==
  [s EXCEPT
     !.leases   = [c \in Cursor |-> IF c \in p.leased THEN p.left
                                    ELSE IF c \in p.dead THEN 0 ELSE @[c]],
     !.attempts = Without(@, p.dead),
     !.acked    = Larger(@, p.new_acked),
     !.acked_set = {c \in @ : c > Larger(s.acked, p.new_acked)},
     !.dead      = {c \in @ \cup p.dead : c > Larger(s.acked, p.new_acked)}]

(***************************************************************************)
(* The ApplyLease op: the dead cursors lose lease and attempts, the leased *)
(* ones get a lease and one more attempt, and a higher floor swallows the  *)
(* bookkeeping below it.                                                   *)
(***************************************************************************)
ApplyLease(s, p) ==
  LET advances == p.new_acked > s.acked
      Above(C) == IF advances THEN {c \in C : c > p.new_acked} ELSE C
  IN [ acked     |-> IF advances THEN p.new_acked ELSE s.acked,
       leases    |-> [c \in Cursor |-> IF c \in p.leased THEN p.left
                                       ELSE Without(s.leases, p.dead)[c]],
       attempts  |-> [c \in Cursor |-> IF c \in p.leased THEN s.attempts[c] + 1
                                       ELSE Without(s.attempts, p.dead)[c]],
       dead      |-> Above(s.dead \cup p.dead),
       acked_set |-> Above(s.acked_set),
       policy    |-> s.policy ]

(* One second passes. *)
Elapse(s) == [s EXCEPT !.leases = [c \in Cursor |-> Larger(@[c] - 1, 0)]]
==============================================================================
