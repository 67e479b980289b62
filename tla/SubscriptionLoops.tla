-------------------------- MODULE SubscriptionLoops --------------------------
(***************************************************************************)
(* The loops of src/src/subscription.rs one cursor at a time, as the code  *)
(* runs them: the two of plan_lease and the one of advance_acked.          *)
(* SubscriptionState says with sets and bounds what they compute.          *)
(***************************************************************************)
EXTENDS SubscriptionState

(***************************************************************************)
(* The first loop of plan_lease: what it adds to leased_stamped and dead   *)
(* from cursor c on, when `room` more cursors may be leased.               *)
(***************************************************************************)
Scan(s, high) ==
  LET Skips(c) == s.leases[c] > 0 \/ c \in s.dead \/ c \in s.acked_set
      next_attempt(c) == s.attempts[c] + 1
      max_attempts == s.policy.max_delivery_attempts
      Go[c \in 1..(MaxCursor + 1)] == [room \in 0..MaxLeaseBatch |->
        IF c > high \/ room = 0 THEN [leased |-> {}, dead |-> {}]
        ELSE IF Skips(c) THEN Go[c + 1][room]
        ELSE IF max_attempts # 0 /\ next_attempt(c) > max_attempts
          THEN [leased |-> Go[c + 1][room].leased,
                dead   |-> Go[c + 1][room].dead \cup {c}]
        ELSE [leased |-> Go[c + 1][room - 1].leased \cup {c},
              dead   |-> Go[c + 1][room - 1].dead]]
  IN Go

(* Its last loop, from new_acked on. *)
Bridge(handled) ==
  LET Go[new_acked \in 0..MaxCursor] ==
        IF new_acked + 1 \in handled THEN Go[new_acked + 1] ELSE new_acked
  IN Go

LoopPlanLease(s, high, floor, max) ==
  LET base    == Larger(s.acked, floor)
      scanned == Scan(s, high)[base + 1][Smaller(max, MaxLeaseBatch)]
  IN [ leased    |-> scanned.leased,
       dead      |-> scanned.dead,
       new_acked |-> Bridge(s.dead \cup s.acked_set \cup scanned.dead)[base],
       left      |-> Deadline(s.policy) ]

(* One turn of advance_acked takes the next cursor from one of the maps. *)
FoldAck(s)  == [s EXCEPT !.acked = @ + 1, !.acked_set = @ \ {s.acked + 1}]
FoldDead(s) == [s EXCEPT !.acked = @ + 1, !.dead = @ \ {s.acked + 1}]

(* advance_acked: `||` does not look in dead once acked_set had the cursor. *)
LoopAdvance[s \in SubState] ==
  IF s.acked + 1 \in s.acked_set THEN LoopAdvance[FoldAck(s)]
  ELSE IF s.acked + 1 \in s.dead THEN LoopAdvance[FoldDead(s)]
  ELSE s

(* What the Ack op has done to the state when it calls advance_acked. *)
RecordAck(s, cursor) ==
  [s EXCEPT !.leases    = Without(@, {cursor}),
            !.attempts  = Without(@, {cursor}),
            !.acked_set = IF cursor > s.acked THEN @ \cup {cursor} ELSE @]
==============================================================================
