-------------------------- MODULE SubRegistryProofs --------------------------
(***************************************************************************)
(* Proofs about SubRegistry, for every value of its constants: its         *)
(* invariants and that it implements AckLedger.                            *)
(***************************************************************************)
EXTENDS SubRegistry, SubscriptionStateProofs, FiniteSetTheorems

(***************************************************************************)
(* The part of the inductive invariant that is about one subscription: its *)
(* state s, its delivery history d and the retention floor f.              *)
(***************************************************************************)
Consistent(s, d, f) ==
  /\ FloorInOrder(s)
  /\ \A c \in Leased(s) : /\ c \notin s.acked_set \cup s.dead
                          /\ c <= s.acked => c <= f
  /\ \A c \in Cursor \ Settled(s) : s.attempts[c] = d[c]

(***************************************************************************)
(* The inductive invariant.  Each part needs the others: the floor is in   *)
(* order after a commit because the plan still suits the state; the plan   *)
(* suits it because only the worker writes the registry; and the floor     *)
(* passes a leased cursor only where the topic was pruned.                 *)
(***************************************************************************)
IInv ==
  /\ TypeOK
  /\ \A n \in live : Consistent(subs[n], deliveries[n], floor)
  /\ PlanStillValid

------------------------------------------------------------------------------
(* One subscription *)

(* A new subscription is a well-typed one (SubOp::Create). *)
LEMMA BlankType ==
  ASSUME NEW p \in Policy
  PROVE  NewSubscription(p) \in SubState
BY MaxCursorAssumption, MaxAckDeadlineAssumption DEF NewSubscription, SubState

(* A new subscription is consistent with no deliveries. *)
LEMMA NewConsistent ==
  ASSUME NEW p \in Policy, NEW f
  PROVE  Consistent(NewSubscription(p), NoDeliveries, f)
BY MaxCursorAssumption
   DEF Consistent, FloorInOrder, NewSubscription, NoDeliveries, Leased

(* Acknowledging any cursor keeps a subscription consistent. *)
LEMMA AckConsistent ==
  ASSUME NEW s \in SubState, NEW d, NEW f, Consistent(s, d, f),
         NEW c \in 0..MaxCursor
  PROVE  Consistent(Ack(s, c), d, f)
<1> DEFINE t == Ack(s, c)
<1>1. /\ t.leases = Without(s.leases, {c})
      /\ t.attempts = Without(s.attempts, {c})
      /\ t.acked_set \subseteq s.acked_set \cup {c}
      /\ t.dead \subseteq s.dead
      /\ t \in SubState
      /\ \A e \in (s.acked + 1)..t.acked : e \in s.acked_set \cup s.dead \cup {c}
      /\ Settled(t) = Settled(s) \cup ({c} \cap Cursor)
      /\ FloorInOrder(t)
  BY AckProperty DEF Consistent, FloorInOrder
<1> HIDE DEF t
<1>2. ASSUME NEW e \in Leased(t)
      PROVE  /\ e \notin t.acked_set \cup t.dead
             /\ e <= t.acked => e <= f
  <2>1. e \in Leased(s) /\ e # c
    BY <1>1 DEF Leased, Without
  <2>2. e \notin s.acked_set \cup s.dead /\ (e <= s.acked => e <= f)
    BY <2>1 DEF Consistent
  <2>3. e \notin t.acked_set \cup t.dead
    BY <1>1, <2>1, <2>2
  <2>4. s.acked \in Nat /\ t.acked \in Nat /\ e \in Nat
    BY <1>1, <2>1, MaxCursorAssumption DEF SubState, Leased, Cursor
  <2>5. ASSUME e <= t.acked, ~(e <= s.acked)
        PROVE  FALSE
    BY <1>1, <2>1, <2>2, <2>4, <2>5
  <2> QED
    BY <2>2, <2>3, <2>5
<1>3. ASSUME NEW e \in Cursor \ Settled(t)
      PROVE  t.attempts[e] = d[e]
  <2>1. e \in Cursor \ Settled(s) /\ e # c
    BY <1>1, <1>3
  <2> QED
    BY <1>1, <2>1 DEF Consistent, Without
<1> QED
  BY <1>1, <1>2, <1>3 DEF Consistent, t

(* A Nack touches no more than the lease of its cursor. *)
LEMMA NackProperty ==
  ASSUME NEW s \in SubState, NEW c \in 0..MaxCursor
  PROVE  /\ Nack(s, c) \in SubState
         /\ Nack(s, c).acked = s.acked
         /\ Nack(s, c).attempts = s.attempts
         /\ Nack(s, c).dead = s.dead
         /\ Nack(s, c).acked_set = s.acked_set
         /\ Leased(Nack(s, c)) = Leased(s) \ {c}
<1>1. Without(s.leases, {c}) \in [Cursor -> 0..MaxAckDeadlineSecs]
  BY MaxAckDeadlineAssumption DEF SubState, Without
<1>2. Nack(s, c) = [s EXCEPT !.leases = Without(s.leases, {c})]
  BY Zenon DEF Nack
<1> DEFINE l == Without(s.leases, {c})
<1>3. /\ Nack(s, c) \in SubState
      /\ Nack(s, c).acked = s.acked
      /\ Nack(s, c).attempts = s.attempts
      /\ Nack(s, c).dead = s.dead
      /\ Nack(s, c).acked_set = s.acked_set
      /\ Nack(s, c).leases = l
  <2> HIDE DEF l
  <2> QED
    BY <1>1, <1>2 DEF SubState, l
<1>4. Leased(Nack(s, c)) = Leased(s) \ {c}
  BY <1>3 DEF Leased, Without
<1> QED
  BY <1>3, <1>4

(* The passing second only takes leases away. *)
LEMMA ElapseProperty ==
  ASSUME NEW s \in SubState
  PROVE  /\ Elapse(s) \in SubState
         /\ Elapse(s).policy = s.policy
         /\ Elapse(s).acked = s.acked
         /\ Elapse(s).attempts = s.attempts
         /\ Elapse(s).dead = s.dead
         /\ Elapse(s).acked_set = s.acked_set
         /\ Leased(Elapse(s)) \subseteq Leased(s)
<1> DEFINE l == [c \in Cursor |-> Larger(s.leases[c] - 1, 0)]
<1>1. /\ l \in [Cursor -> 0..MaxAckDeadlineSecs]
      /\ \A c \in Cursor : l[c] > 0 => s.leases[c] > 0
  BY MaxAckDeadlineAssumption DEF SubState, Larger
<1>2. Elapse(s) = [s EXCEPT !.leases = l]
  BY Zenon DEF Elapse
<1>3. /\ Elapse(s) \in SubState
      /\ Elapse(s).policy = s.policy
      /\ Elapse(s).acked = s.acked
      /\ Elapse(s).attempts = s.attempts
      /\ Elapse(s).dead = s.dead
      /\ Elapse(s).acked_set = s.acked_set
      /\ Elapse(s).leases = l
  <2> HIDE DEF l
  <2> QED
    BY <1>1, <1>2 DEF SubState
<1>4. Leased(Elapse(s)) \subseteq Leased(s)
  BY <1>1, <1>3 DEF Leased
<1> QED
  BY <1>3, <1>4

(***************************************************************************)
(* Consistency looks at everything but the policy, and survives losing     *)
(* leases and a rising retention floor.                                    *)
(***************************************************************************)
LEMMA SameConsistent ==
  ASSUME NEW s \in SubState, NEW t \in SubState, NEW d,
         NEW f \in Int, NEW g \in Int, f <= g,
         Consistent(s, d, f),
         t.acked = s.acked, t.attempts = s.attempts, t.dead = s.dead,
         t.acked_set = s.acked_set, Leased(t) \subseteq Leased(s)
  PROVE  Consistent(t, d, g) /\ Settled(t) = Settled(s)
<1>1. Settled(t) = Settled(s)
  BY DEF Settled
<1>2. \A c \in Leased(t) : /\ c \notin t.acked_set \cup t.dead
                           /\ c <= t.acked => c <= g
  BY DEF Consistent, Leased, Cursor
<1> QED
  BY <1>1, <1>2 DEF Consistent, FloorInOrder

(* Applying a plan that suits the state keeps it consistent. *)
LEMMA ApplyLeaseConsistent ==
  ASSUME NEW s \in SubState, NEW d \in [Cursor -> Nat],
         NEW f \in 0..MaxCursor, Consistent(s, d, f),
         NEW p, PlanFields(p),
         NEW g \in 0..MaxCursor, g <= f, NEW h, Suits(p, s, g, h)
  PROVE  Consistent(ApplyLease(s, p),
                    [c \in Cursor |-> IF c \in p.leased THEN d[c] + 1 ELSE d[c]], f)
<1> USE MaxCursorAssumption
<1> DEFINE t == ApplyLease(s, p)
           e == [c \in Cursor |-> IF c \in p.leased THEN d[c] + 1 ELSE d[c]]
           base == Larger(s.acked, g)
<1>1. /\ t \in SubState
      /\ t.acked = p.new_acked
      /\ t.acked_set \subseteq s.acked_set
      /\ t.dead \subseteq s.dead \cup p.dead
      /\ t.leases = [c \in Cursor |-> IF c \in p.leased THEN p.left
                                      ELSE Without(s.leases, p.dead)[c]]
      /\ t.attempts = [c \in Cursor |-> IF c \in p.leased THEN s.attempts[c] + 1
                                        ELSE Without(s.attempts, p.dead)[c]]
      /\ Settled(t) = Settled(s) \cup p.dead \cup (1..g)
      /\ FloorInOrder(t)
  BY ApplyLeaseProperty DEF Consistent
<1> HIDE DEF t
<1>2. /\ p.leased \cap p.dead = {}
      /\ \A c \in p.leased \cup p.dead : c > base /\ c \notin Settled(s)
      /\ p.new_acked \in base..MaxCursor
      /\ (base + 1)..p.new_acked \subseteq s.dead \cup s.acked_set \cup p.dead
  BY DEF Suits, RunEndsAt
<1>3. ASSUME NEW c \in Leased(t)
      PROVE  /\ c \notin t.acked_set \cup t.dead
             /\ c <= t.acked => c <= f
  <2>1. c \in Cursor /\ c \notin p.dead /\ (c \in p.leased \/ c \in Leased(s))
    BY <1>1, <1>2 DEF Leased, Without
  <2>2. c \notin s.acked_set \cup s.dead
    BY <1>2, <2>1 DEF Consistent, Settled
  <2>3. c \notin t.acked_set \cup t.dead
    BY <1>1, <2>1, <2>2
  <2>4. c \in Nat /\ s.acked \in Nat /\ base \in Nat
    BY <2>1 DEF SubState, Cursor, Larger
  <2>5. c <= base => c <= f
    <3>1. c <= s.acked => c <= f
      <4>1. CASE c \in p.leased
        BY <4>1, <1>2, <2>4 DEF Larger
      <4>2. CASE c \in Leased(s)
        BY <4>2 DEF Consistent
      <4> QED
        BY <2>1, <4>1, <4>2
    <3> QED
      BY <3>1, <2>4 DEF Larger
  <2>6. ASSUME c <= t.acked, ~(c <= base)
        PROVE  FALSE
    BY <1>1, <1>2, <2>1, <2>2, <2>4, <2>6
  <2> QED
    BY <2>3, <2>5, <2>6
<1>4. ASSUME NEW c \in Cursor \ Settled(t)
      PROVE  t.attempts[c] = e[c]
  <2>1. c \in Cursor \ Settled(s) /\ c \notin p.dead
    BY <1>1, <1>4
  <2>2. s.attempts[c] = d[c]
    BY <2>1 DEF Consistent
  <2> QED
    BY <1>1, <2>1, <2>2 DEF Without
<1> QED
  BY <1>1, <1>3, <1>4 DEF Consistent, t

(***************************************************************************)
(* A plan goes on suiting a state that has only lost leases, when messages *)
(* have only been published.                                               *)
(***************************************************************************)
LEMMA StillSuits ==
  ASSUME NEW p, NEW q, q.leased = p.leased, q.dead = p.dead,
         q.new_acked = p.new_acked,
         p.leased \in SUBSET Cursor, p.dead \in SUBSET Cursor,
         NEW s, NEW t, t.acked = s.acked, t.dead = s.dead,
         t.acked_set = s.acked_set, Leased(t) \subseteq Leased(s),
         NEW g, NEW h \in Int, NEW k \in Int, h <= k, Suits(p, s, g, h)
  PROVE  Suits(q, t, g, k)
<1>1. Settled(t) = Settled(s)
  BY DEF Settled
<1>2. \A c \in q.leased \cup q.dead :
        c > Larger(t.acked, g) /\ c <= k /\ c \notin Settled(t) \cup Leased(t)
  BY <1>1 DEF Suits, Cursor
<1>3. /\ q.leased \cap q.dead = {}
      /\ q.new_acked \in Larger(t.acked, g)..MaxCursor
      /\ RunEndsAt(Larger(t.acked, g), t.dead \cup t.acked_set \cup q.dead, q.new_acked)
  BY Zenon DEF Suits
<1> QED
  BY <1>2, <1>3 DEF Suits

------------------------------------------------------------------------------
(* The registry *)

(* The default policy is a policy. *)
LEMMA BlankInPolicy == DefaultPolicy \in Policy
BY DEF DefaultPolicy, Policy

(* The invariant holds when the topic is created. *)
LEMMA InitIInv == Init => IInv
<1> SUFFICES ASSUME Init  PROVE IInv
  OBVIOUS
<1>1. TypeOK
  <2>1. Blank \in SubState
    BY BlankType, BlankInPolicy DEF Blank
  <2>2. NoPlan \in Plan
    BY MaxCursorAssumption, MaxAckDeadlineAssumption DEF NoPlan, Plan
  <2>3. NoDeliveries \in [Cursor -> Nat]
    BY DEF NoDeliveries
  <2> QED
    BY <2>1, <2>2, <2>3, MaxCursorAssumption DEF Init, TypeOK
<1>2. \A n \in live : Consistent(subs[n], deliveries[n], floor)
  BY DEF Init
<1>3. PlanStillValid
  BY DEF Init, PlanStillValid, Idle, NoPlan
<1> QED
  BY <1>1, <1>2, <1>3 DEF IInv

(***************************************************************************)
(* A step of the idle worker that replaces one live subscription's state   *)
(* by another consistent one keeps the invariant.                          *)
(***************************************************************************)
LEMMA ReplaceOne ==
  ASSUME IInv, Idle, NEW n \in Names, NEW t \in SubState,
         Consistent(t, deliveries[n], floor),
         live' = live \cup {n}, subs' = [subs EXCEPT ![n] = t],
         UNCHANGED <<high, floor, plan, deliveries>>
  PROVE  IInv'
<1>1. TypeOK'
  BY DEF IInv, TypeOK
<1>2. \A m \in live' : Consistent(subs'[m], deliveries'[m], floor')
  <2> SUFFICES ASSUME NEW m \in live'
               PROVE  Consistent(subs'[m], deliveries'[m], floor')
    OBVIOUS
  <2>1. CASE m = n
    <3>1. subs'[m] = t
      BY <2>1 DEF IInv, TypeOK
    <3> QED
      BY <2>1, <3>1
  <2>2. CASE m # n
    <3>1. m \in live /\ subs'[m] = subs[m]
      BY <2>2 DEF IInv, TypeOK
    <3> QED
      BY <3>1 DEF IInv
  <2> QED
    BY <2>1, <2>2
<1>3. PlanStillValid'
  BY DEF PlanStillValid, Idle
<1> QED
  BY <1>1, <1>2, <1>3 DEF IInv

(* Creating, or giving another policy to, a subscription keeps it. *)
LEMMA CreateIInv ==
  ASSUME IInv, NEW n \in Names, NEW p \in Policies, CreateSubscription(n, p)
  PROVE  IInv'
<1>1. p \in Policy
  BY PoliciesAssumption
<1>2. floor \in Int /\ subs[n] \in SubState
  BY DEF IInv, TypeOK
<1>3. CASE n \in live
  <2> DEFINE t == [subs[n] EXCEPT !.policy = p]
  <2>1. subs' = [subs EXCEPT ![n] = t]
    BY <1>3, Zenon DEF CreateSubscription
  <2>2. /\ t \in SubState
        /\ t.acked = subs[n].acked
        /\ t.attempts = subs[n].attempts
        /\ t.dead = subs[n].dead
        /\ t.acked_set = subs[n].acked_set
        /\ t.leases = subs[n].leases
    BY <1>1, <1>2 DEF SubState
  <2> HIDE DEF t
  <2>3. Leased(t) \subseteq Leased(subs[n])
    BY <2>2 DEF Leased
  <2>4. Consistent(subs[n], deliveries[n], floor)
    BY <1>3 DEF IInv
  <2>5. Consistent(t, deliveries[n], floor)
    BY <1>2, <2>2, <2>3, <2>4, SameConsistent
  <2> QED
    BY <2>1, <2>2, <2>5, ReplaceOne DEF CreateSubscription
<1>4. CASE n \notin live
  <2>1. subs' = [subs EXCEPT ![n] = NewSubscription(p)]
    BY <1>4, Zenon DEF CreateSubscription
  <2>2. NewSubscription(p) \in SubState
    BY <1>1, BlankType
  <2>3. deliveries[n] = NoDeliveries
    BY <1>4 DEF IInv, TypeOK
  <2>4. Consistent(NewSubscription(p), deliveries[n], floor)
    BY <1>1, <2>3, NewConsistent
  <2> QED
    BY <2>1, <2>2, <2>4, ReplaceOne DEF CreateSubscription
<1> QED
  BY <1>3, <1>4

(* Deleting a subscription keeps it. *)
LEMMA DeleteIInv ==
  ASSUME IInv, NEW n \in Names, DeleteSubscription(n)
  PROVE  IInv'
<1>1. Blank \in SubState /\ NoDeliveries \in [Cursor -> Nat]
  BY BlankType, BlankInPolicy DEF Blank, NoDeliveries
<1>2. TypeOK'
  BY <1>1 DEF IInv, TypeOK, DeleteSubscription
<1>3. ASSUME NEW m \in live'
      PROVE  Consistent(subs'[m], deliveries'[m], floor')
  <2>1. /\ m \in live
        /\ subs'[m] = subs[m]
        /\ deliveries'[m] = deliveries[m]
        /\ floor' = floor
    BY DEF IInv, TypeOK, DeleteSubscription
  <2> QED
    BY <2>1 DEF IInv
<1>4. PlanStillValid'
  BY DEF PlanStillValid, Idle, DeleteSubscription
<1> QED
  BY <1>2, <1>3, <1>4 DEF IInv

(* Acknowledging keeps it. *)
LEMMA AckIInv ==
  ASSUME IInv, NEW n \in Names, NEW c \in 0..MaxCursor, AckRequest(n, c)
  PROVE  IInv'
<1>1. subs[n] \in SubState /\ Consistent(subs[n], deliveries[n], floor)
  BY DEF IInv, TypeOK, AckRequest
<1>2. Ack(subs[n], c) \in SubState
  BY <1>1, AckProperty DEF Consistent, FloorInOrder
<1>3. Consistent(Ack(subs[n], c), deliveries[n], floor)
  BY <1>1, AckConsistent
<1>4. /\ subs' = [subs EXCEPT ![n] = Ack(subs[n], c)]
      /\ live' = live \cup {n}
  BY DEF AckRequest
<1> QED
  BY <1>2, <1>3, <1>4, ReplaceOne DEF AckRequest

(* A Nack keeps it. *)
LEMMA NackIInv ==
  ASSUME IInv, NEW n \in Names, NEW c \in 0..MaxCursor, NackRequest(n, c)
  PROVE  IInv'
<1>1. /\ subs[n] \in SubState
      /\ Consistent(subs[n], deliveries[n], floor)
      /\ floor \in Int
  BY DEF IInv, TypeOK, NackRequest
<1>2. Nack(subs[n], c) \in SubState
  BY <1>1, NackProperty
<1>3. Consistent(Nack(subs[n], c), deliveries[n], floor)
  BY <1>1, <1>2, NackProperty, SameConsistent
<1>4. /\ subs' = [subs EXCEPT ![n] = Nack(subs[n], c)]
      /\ live' = live \cup {n}
  BY DEF NackRequest
<1> QED
  BY <1>2, <1>3, <1>4, ReplaceOne DEF NackRequest

(* A lease that plan_lease has just planned satisfies PlanStillValid. *)
LEMMA PlanIInv ==
  ASSUME IInv, NEW n \in Names, NEW max \in PullSizes, PlanLeaseRequest(n, max)
  PROVE  IInv'
<1> DEFINE p == PlanLease(subs[n], high, floor, max)
<1>1. /\ n \in live
      /\ plan' = [ name |-> n, leased |-> p.leased, dead |-> p.dead,
                   new_acked |-> p.new_acked, left |-> p.left, floor |-> floor ]
      /\ UNCHANGED <<live, subs, high, floor, deliveries>>
  BY DEF PlanLeaseRequest
<1>2. /\ subs[n] \in SubState
      /\ high \in 0..MaxCursor
      /\ floor \in 0..MaxCursor
      /\ max \in Nat
  BY PullSizesAssumption, MaxCursorAssumption DEF IInv, TypeOK
<1>3. /\ PlanFields(p)
      /\ p.new_acked \in 0..MaxCursor
      /\ Suits(p, subs[n], floor, high)
      /\ \A c \in p.leased : ~Poisoned(subs[n], c)
      /\ \A c \in p.dead : Poisoned(subs[n], c)
  BY <1>2, PlanLeaseProperty
<1> HIDE DEF p
<1>4. plan' \in Plan
  BY <1>1, <1>2, <1>3 DEF Plan, PlanFields
<1>5. TypeOK'
  BY <1>1, <1>4 DEF IInv, TypeOK
<1>6. /\ plan'.name = n
      /\ plan'.floor = floor
      /\ Suits(plan', subs[n], floor, high)
      /\ \A c \in plan'.leased : ~Poisoned(subs[n], c)
      /\ \A c \in plan'.dead : Poisoned(subs[n], c)
  <2>1. /\ plan'.leased = p.leased
        /\ plan'.dead = p.dead
        /\ plan'.new_acked = p.new_acked
        /\ plan'.name = n
        /\ plan'.floor = floor
    BY <1>1
  <2> QED
    BY <2>1, <1>3 DEF Suits
<1>7. PlanStillValid'
  BY <1>1, <1>2, <1>6 DEF PlanStillValid
<1> QED
  BY <1>1, <1>5, <1>7 DEF IInv

(* Committing the plan keeps the invariant. *)
LEMMA CommitIInv ==
  ASSUME IInv, CommitLease
  PROVE  IInv'
<1> DEFINE n == plan.name
           t == ApplyLease(subs[n], plan)
           e == [c \in Cursor |-> IF c \in plan.leased THEN deliveries[n][c] + 1
                                  ELSE deliveries[n][c]]
<1>1. /\ n \in live
      /\ n \in Names
      /\ plan.floor <= floor
      /\ Suits(plan, subs[n], plan.floor, high)
  BY DEF IInv, PlanStillValid, CommitLease, TypeOK
<1>2. /\ subs[n] \in SubState
      /\ Consistent(subs[n], deliveries[n], floor)
      /\ deliveries[n] \in [Cursor -> Nat]
      /\ floor \in 0..MaxCursor
      /\ plan.floor \in 0..MaxCursor
      /\ PlanFields(plan)
  BY <1>1, MaxCursorAssumption DEF IInv, TypeOK, Plan, PlanFields
<1>3. t \in SubState
  BY <1>1, <1>2, ApplyLeaseProperty DEF Consistent
<1>4. Consistent(t, e, floor)
  BY <1>1, <1>2, ApplyLeaseConsistent
<1>5. /\ subs' = [subs EXCEPT ![n] = t]
      /\ deliveries' = [deliveries EXCEPT ![n] = e]
      /\ plan' = NoPlan
      /\ UNCHANGED <<live, high, floor>>
  BY DEF CommitLease
<1>6. e \in [Cursor -> Nat]
  BY <1>2
<1> HIDE DEF n, t, e
<1>7. TypeOK'
  <2>1. NoPlan \in Plan
    BY MaxCursorAssumption, MaxAckDeadlineAssumption DEF NoPlan, Plan
  <2> QED
    BY <2>1, <1>1, <1>3, <1>5, <1>6 DEF IInv, TypeOK
<1>8. ASSUME NEW m \in live'
      PROVE  Consistent(subs'[m], deliveries'[m], floor')
  <2>1. CASE m = n
    BY <2>1, <1>1, <1>4, <1>5 DEF IInv, TypeOK
  <2>2. CASE m # n
    <3>1. /\ m \in live
          /\ subs'[m] = subs[m]
          /\ deliveries'[m] = deliveries[m]
          /\ floor' = floor
      BY <2>2, <1>5 DEF IInv, TypeOK
    <3> QED
      BY <3>1 DEF IInv
  <2> QED
    BY <2>1, <2>2
<1>9. PlanStillValid'
  BY <1>5 DEF PlanStillValid, Idle, NoPlan
<1> QED
  BY <1>7, <1>8, <1>9 DEF IInv

(* A commit that fails keeps it. *)
LEMMA AbortIInv ==
  ASSUME IInv, AbortLease
  PROVE  IInv'
<1>1. NoPlan \in Plan
  BY MaxCursorAssumption, MaxAckDeadlineAssumption DEF NoPlan, Plan
<1>2. TypeOK'
  BY <1>1 DEF IInv, TypeOK, AbortLease
<1>3. PlanStillValid'
  BY DEF PlanStillValid, Idle, NoPlan, AbortLease
<1> QED
  BY <1>2, <1>3 DEF IInv, AbortLease

(* Publishing, before or after a plan, keeps it. *)
LEMMA PublishIInv ==
  ASSUME IInv, Publish
  PROVE  IInv'
<1>1. TypeOK'
  BY MaxCursorAssumption DEF IInv, TypeOK, Publish
<1>2. PlanStillValid'
  <2> SUFFICES ASSUME ~Idle
               PROVE  /\ plan.name \in live
                      /\ plan.floor <= floor
                      /\ Suits(plan, subs[plan.name], plan.floor, high')
    BY DEF PlanStillValid, Idle, Publish, IInv
  <2>1. /\ plan.name \in live
        /\ plan.floor <= floor
        /\ Suits(plan, subs[plan.name], plan.floor, high)
    BY DEF IInv, PlanStillValid
  <2>2. /\ high \in Int
        /\ high' \in Int
        /\ high <= high'
        /\ plan.leased \in SUBSET Cursor
        /\ plan.dead \in SUBSET Cursor
    BY MaxCursorAssumption DEF IInv, TypeOK, Publish, Plan
  <2> QED
    BY <2>1, <2>2, StillSuits
<1> QED
  BY <1>1, <1>2 DEF IInv, Publish

(* Pruning, before or after a plan, keeps it. *)
LEMMA PruneIInv ==
  ASSUME IInv, NEW u \in Cursor, PruneTo(u)
  PROVE  IInv'
<1> USE MaxCursorAssumption
<1>1. /\ floor \in Int
      /\ floor' \in floor..high
      /\ UNCHANGED <<live, subs, high, plan, deliveries>>
  BY DEF IInv, TypeOK, PruneTo, Smaller, Cursor
<1>2. TypeOK'
  BY <1>1 DEF IInv, TypeOK
<1>3. ASSUME NEW n \in live'
      PROVE  Consistent(subs'[n], deliveries'[n], floor')
  <2>1. /\ subs[n] \in SubState
        /\ Consistent(subs[n], deliveries[n], floor)
        /\ floor' \in Int
        /\ floor <= floor'
    BY <1>1 DEF IInv, TypeOK
  <2>2. Consistent(subs[n], deliveries[n], floor')
    BY <1>1, <2>1, SameConsistent
  <2> QED
    BY <1>1, <2>2
<1>4. PlanStillValid'
  <2>1. plan.floor \in Int
    BY DEF IInv, TypeOK, Plan
  <2>2. floor' \in Int /\ floor <= floor'
    BY <1>1 DEF IInv, TypeOK
  <2> QED
    BY <1>1, <2>1, <2>2 DEF IInv, PlanStillValid, Idle
<1> QED
  BY <1>2, <1>3, <1>4 DEF IInv

(* The clock, before or after a plan, keeps it. *)
LEMMA TickIInv ==
  ASSUME IInv, Tick
  PROVE  IInv'
<1> USE MaxCursorAssumption, MaxAckDeadlineAssumption
<1>1. /\ subs' = [n \in Names |-> Elapse(subs[n])]
      /\ plan' = [plan EXCEPT !.left = Larger(plan.left - 1, 0)]
      /\ UNCHANGED <<live, high, floor, deliveries>>
  BY DEF Tick
<1>2. /\ plan' \in Plan
      /\ plan'.name = plan.name
      /\ plan'.leased = plan.leased
      /\ plan'.dead = plan.dead
      /\ plan'.new_acked = plan.new_acked
      /\ plan'.floor = plan.floor
  <2>1. Larger(plan.left - 1, 0) \in 0..MaxAckDeadlineSecs
    BY DEF IInv, TypeOK, Plan, Larger
  <2> QED
    BY <1>1, <2>1 DEF IInv, TypeOK, Plan
<1>3. ASSUME NEW n \in Names
      PROVE  /\ subs'[n] \in SubState
             /\ subs'[n].policy = subs[n].policy
             /\ subs'[n].acked = subs[n].acked
             /\ subs'[n].attempts = subs[n].attempts
             /\ subs'[n].dead = subs[n].dead
             /\ subs'[n].acked_set = subs[n].acked_set
             /\ Leased(subs'[n]) \subseteq Leased(subs[n])
  <2>1. subs[n] \in SubState /\ subs'[n] = Elapse(subs[n])
    BY <1>1 DEF IInv, TypeOK
  <2> QED
    BY <2>1, ElapseProperty
<1>4. Elapse(Blank) = Blank
  <2>1. Blank.leases = [c \in Cursor |-> 0]
    BY DEF Blank, NewSubscription
  <2>2. [c \in Cursor |-> Larger(Blank.leases[c] - 1, 0)] = Blank.leases
    BY <2>1 DEF Larger
  <2>3. Elapse(Blank) = [Blank EXCEPT !.leases = Blank.leases]
    BY <2>2, Zenon DEF Elapse
  <2> QED
    BY <2>3 DEF Blank, NewSubscription
<1>5. TypeOK'
  <2>1. subs' \in [Names -> SubState]
    BY <1>1, <1>3
  <2>2. \A n \in Names \ live : subs'[n] = Blank
    BY <1>1, <1>4 DEF IInv, TypeOK
  <2> QED
    BY <1>1, <1>2, <2>1, <2>2 DEF IInv, TypeOK
<1>6. ASSUME NEW n \in live'
      PROVE  Consistent(subs'[n], deliveries'[n], floor')
  <2>1. /\ n \in Names
        /\ subs[n] \in SubState
        /\ Consistent(subs[n], deliveries[n], floor)
        /\ floor \in Int
    BY <1>1 DEF IInv, TypeOK
  <2>2. Consistent(subs'[n], deliveries[n], floor)
    BY <1>3, <2>1, SameConsistent
  <2> QED
    BY <1>1, <2>2
<1>7. PlanStillValid'
  <2> SUFFICES ASSUME ~Idle
               PROVE  /\ plan.name \in live
                      /\ plan.floor <= floor
                      /\ Suits(plan', subs'[plan.name], plan.floor, high)
                      /\ \A c \in plan.leased : ~Poisoned(subs'[plan.name], c)
                      /\ \A c \in plan.dead : Poisoned(subs'[plan.name], c)
    BY <1>1, <1>2 DEF PlanStillValid, Idle
  <2>1. /\ plan.name \in live
        /\ plan.floor <= floor
        /\ Suits(plan, subs[plan.name], plan.floor, high)
        /\ \A c \in plan.leased : ~Poisoned(subs[plan.name], c)
        /\ \A c \in plan.dead : Poisoned(subs[plan.name], c)
    BY DEF IInv, PlanStillValid
  <2>2. /\ plan.name \in Names
        /\ high \in Int
        /\ plan.leased \in SUBSET Cursor
        /\ plan.dead \in SUBSET Cursor
    BY <2>1 DEF IInv, TypeOK, Plan
  <2>3. \A c : Poisoned(subs'[plan.name], c) <=> Poisoned(subs[plan.name], c)
    BY <1>3, <2>2 DEF Poisoned
  <2>4. Suits(plan', subs'[plan.name], plan.floor, high)
    BY <1>2, <1>3, <2>1, <2>2, StillSuits
  <2> QED
    BY <2>1, <2>3, <2>4
<1> QED
  BY <1>5, <1>6, <1>7 DEF IInv

(* Every step keeps the invariant: one case per action. *)
LEMMA NextIInv == IInv /\ [Next]_vars => IInv'
<1> SUFFICES ASSUME IInv, [Next]_vars  PROVE IInv'
  OBVIOUS
<1>1. ASSUME NEW n \in Names, NEW p \in Policies, CreateSubscription(n, p)
      PROVE  IInv'
  BY <1>1, CreateIInv
<1>2. ASSUME NEW n \in Names, DeleteSubscription(n)
      PROVE  IInv'
  BY <1>2, DeleteIInv
<1>3. ASSUME NEW n \in Names, NEW c \in 0..MaxCursor, AckRequest(n, c)
      PROVE  IInv'
  BY <1>3, AckIInv
<1>4. ASSUME NEW n \in Names, NEW c \in 0..MaxCursor, NackRequest(n, c)
      PROVE  IInv'
  BY <1>4, NackIInv
<1>5. ASSUME NEW n \in Names, NEW max \in PullSizes, PlanLeaseRequest(n, max)
      PROVE  IInv'
  BY <1>5, PlanIInv
<1>6. CASE CommitLease
  BY <1>6, CommitIInv
<1>7. CASE AbortLease
  BY <1>7, AbortIInv
<1>8. CASE Publish
  BY <1>8, PublishIInv
<1>9. ASSUME NEW u \in Cursor, PruneTo(u)
      PROVE  IInv'
  BY <1>9, PruneIInv
<1>10. CASE Tick
  BY <1>10, TickIInv
<1>11. CASE UNCHANGED vars
  BY <1>11 DEF IInv, TypeOK, PlanStillValid, Idle, vars
<1> QED
  BY <1>1, <1>2, <1>3, <1>4, <1>5, <1>6, <1>7, <1>8, <1>9, <1>10, <1>11
  DEF Next, Control

------------------------------------------------------------------------------
(* What follows for every behaviour *)

(***************************************************************************)
(* The registry, the planned lease and the log positions keep their types, *)
(* and a deleted subscription leaves nothing behind.                       *)
(***************************************************************************)
THEOREM TypeCorrectness == Spec => []TypeOK
<1>1. IInv => TypeOK
  BY DEF IInv
<1> QED
  BY <1>1, InitIInv, NextIInv, PTL DEF Spec

(***************************************************************************)
(* However acks, nacks, commits and expiries interleave, the ack floor of  *)
(* every subscription is as high as its acks and dead letters allow.       *)
(***************************************************************************)
THEOREM FloorIsMaximal == Spec => []FloorMaximal
<1>1. IInv => FloorMaximal
  BY DEF IInv, FloorMaximal, Consistent
<1> QED
  BY <1>1, InitIInv, NextIInv, PTL DEF Spec

(***************************************************************************)
(* No consumer holds a lease on a message that is acked or dead-lettered,  *)
(* and none below the ack floor unless the topic pruned it.                *)
(***************************************************************************)
THEOREM LeasedMessagesAreUnsettled == Spec => []LeasedIsUnsettled
<1>1. IInv => LeasedIsUnsettled
  BY DEF IInv, LeasedIsUnsettled, Consistent
<1> QED
  BY <1>1, InitIInv, NextIInv, PTL DEF Spec

(***************************************************************************)
(* The counter plan_lease compares with max_delivery_attempts is the true  *)
(* number of deliveries of every message that is not settled.              *)
(***************************************************************************)
THEOREM AttemptsAreDeliveries == Spec => []AttemptsCountDeliveries
<1>1. IInv => AttemptsCountDeliveries
  BY DEF IInv, AttemptsCountDeliveries, Consistent
<1> QED
  BY <1>1, InitIInv, NextIInv, PTL DEF Spec

(***************************************************************************)
(* What handle_lease read before it awaited the commit still holds when    *)
(* the commit applies.                                                     *)
(***************************************************************************)
THEOREM PlanStaysValid == Spec => []PlanStillValid
<1>1. IInv => PlanStillValid
  BY DEF IInv
<1> QED
  BY <1>1, InitIInv, NextIInv, PTL DEF Spec

(***************************************************************************)
(* at_capacity keeps the registry within MAX_SUBSCRIPTIONS: a Create adds  *)
(* one name to fewer than that, or none.                                   *)
(***************************************************************************)
THEOREM RegistryStaysWithinLimit == Spec => []WithinSubscriptionLimit
<1> DEFINE Limited == IsFiniteSet(live) /\ Cardinality(live) <= MaxSubscriptions
<1>1. Init => Limited
  BY FS_EmptySet, LimitsAssumption DEF Init
<1>2. Limited /\ [Next]_vars => Limited'
  <2> SUFFICES ASSUME Limited, [Next]_vars  PROVE Limited'
    OBVIOUS
  <2>1. ASSUME NEW n \in Names, NEW p \in Policies, CreateSubscription(n, p)
        PROVE  Limited'
    <3>1. live' = live \cup {n} /\ ~AtCapacity(n)
      BY <2>1 DEF CreateSubscription
    <3>2. CASE n \in live
      <4>1. live' = live
        BY <3>1, <3>2
      <4> QED
        BY <4>1
    <3>3. CASE n \notin live
      <4>1. IsFiniteSet(live') /\ Cardinality(live') = Cardinality(live) + 1
        BY <3>1, <3>3, FS_AddElement
      <4>2. Cardinality(live) \in Nat /\ ~(Cardinality(live) >= MaxSubscriptions)
        BY <3>1, <3>3, FS_CardinalityType DEF AtCapacity
      <4> QED
        BY <4>1, <4>2, LimitsAssumption
    <3> QED
      BY <3>2, <3>3
  <2>2. ASSUME NEW n \in Names, DeleteSubscription(n)
        PROVE  Limited'
    <3>1. live' \subseteq live
      BY <2>2 DEF DeleteSubscription
    <3>2. IsFiniteSet(live') /\ Cardinality(live') <= Cardinality(live)
      BY <3>1, FS_Subset
    <3>3. Cardinality(live') \in Nat /\ Cardinality(live) \in Nat
      BY <3>2, FS_CardinalityType
    <3> QED
      BY <3>2, <3>3, LimitsAssumption
  <2>3. CASE live' = live
    BY <2>3
  <2> QED
    BY <2>1, <2>2, <2>3
    DEF Next, Control, AckRequest, NackRequest, PlanLeaseRequest, CommitLease, AbortLease,
        Publish, PruneTo, Tick, vars
<1>3. Limited => WithinSubscriptionLimit
  BY DEF WithinSubscriptionLimit
<1> QED
  BY <1>1, <1>2, <1>3, PTL DEF Spec

------------------------------------------------------------------------------
(* The registry implements AckLedger *)

(* A new subscription has settled and handed out nothing. *)
LEMMA BlankSettlesNothing ==
  ASSUME NEW p \in Policy
  PROVE  Settled(NewSubscription(p)) = {} /\ Leased(NewSubscription(p)) = {}
BY DEF NewSubscription, Settled, Leased

(* Replacing one subscription's state replaces one entry of the ledger. *)
LEMMA ReplaceEntry ==
  ASSUME TypeOK, NEW n \in Names, NEW t, subs' = [subs EXCEPT ![n] = t]
  PROVE  /\ SettledBy' = [SettledBy EXCEPT ![n] = Settled(t)]
         /\ HeldBy' = [HeldBy EXCEPT ![n] = Leased(t) \ Settled(t)]
         /\ SettledBy[n] = Settled(subs[n])
         /\ HeldBy[n] = Leased(subs[n]) \ Settled(subs[n])
<1>1. /\ DOMAIN subs = Names
      /\ subs'[n] = t
      /\ \A m \in Names \ {n} : subs'[m] = subs[m]
  BY DEF TypeOK
<1> QED
  BY <1>1 DEF SettledBy, HeldBy

(* An op that changes no subscription's view leaves the mapped state. *)
LEMMA SameEntry ==
  ASSUME TypeOK, NEW n \in Names, NEW t, subs' = [subs EXCEPT ![n] = t],
         Settled(t) = Settled(subs[n]),
         Leased(t) \ Settled(t) = Leased(subs[n]) \ Settled(subs[n])
  PROVE  UNCHANGED <<SettledBy, HeldBy>>
<1>1. /\ SettledBy' = [SettledBy EXCEPT ![n] = SettledBy[n]]
      /\ HeldBy' = [HeldBy EXCEPT ![n] = HeldBy[n]]
  BY ReplaceEntry
<1>2. /\ [SettledBy EXCEPT ![n] = SettledBy[n]] = SettledBy
      /\ [HeldBy EXCEPT ![n] = HeldBy[n]] = HeldBy
  BY DEF SettledBy, HeldBy
<1> QED
  BY <1>1, <1>2

(* The initial states are initial states of AckLedger. *)
LEMMA InitLedger == Init => Ledger!LedgerInit
<1>1. Settled(Blank) = {} /\ Leased(Blank) = {}
  BY BlankSettlesNothing, BlankInPolicy DEF Blank
<1> QED
  BY <1>1 DEF Init, Ledger!LedgerInit, SettledBy, HeldBy

(* Creating a subscription is Open, or a stutter when it exists. *)
LEMMA CreateLedger ==
  ASSUME IInv, NEW n \in Names, NEW p \in Policies, CreateSubscription(n, p)
  PROVE  Ledger!Open(n) \/ UNCHANGED Ledger!ledgerVars
<1>1. TypeOK /\ subs[n] \in SubState
  BY DEF IInv, TypeOK
<1>2. CASE n \in live
  <2> DEFINE t == [subs[n] EXCEPT !.policy = p]
  <2>1. subs' = [subs EXCEPT ![n] = t]
    BY <1>2, Zenon DEF CreateSubscription
  <2>2. /\ t.acked = subs[n].acked
        /\ t.dead = subs[n].dead
        /\ t.acked_set = subs[n].acked_set
        /\ t.leases = subs[n].leases
    BY <1>1 DEF SubState
  <2> HIDE DEF t
  <2>3. Settled(t) = Settled(subs[n]) /\ Leased(t) = Leased(subs[n])
    BY <2>2 DEF Settled, Leased
  <2>4. UNCHANGED <<SettledBy, HeldBy>>
    BY <1>1, <2>1, <2>3, SameEntry
  <2>5. live' = live
    BY <1>2 DEF CreateSubscription
  <2> QED
    BY <2>4, <2>5 DEF CreateSubscription, Ledger!ledgerVars
<1>3. CASE n \notin live
  <2>1. subs' = [subs EXCEPT ![n] = NewSubscription(p)]
    BY <1>3, Zenon DEF CreateSubscription
  <2>2. Settled(NewSubscription(p)) = {} /\ Leased(NewSubscription(p)) = {}
    BY PoliciesAssumption, BlankSettlesNothing
  <2>3. Settled(subs[n]) = {} /\ Leased(subs[n]) = {}
    BY <1>1, <1>3, BlankSettlesNothing, BlankInPolicy DEF TypeOK, Blank
  <2>4. UNCHANGED <<SettledBy, HeldBy>>
    BY <1>1, <2>1, <2>2, <2>3, SameEntry
  <2> QED
    BY <1>3, <2>4 DEF CreateSubscription, Ledger!Open
<1> QED
  BY <1>2, <1>3

(* Deleting a subscription is Close. *)
LEMMA DeleteLedger ==
  ASSUME IInv, NEW n \in Names, DeleteSubscription(n)
  PROVE  Ledger!Close(n)
<1>1. Settled(Blank) = {} /\ Leased(Blank) \ Settled(Blank) = {}
  BY BlankSettlesNothing, BlankInPolicy DEF Blank
<1>2. TypeOK /\ subs' = [subs EXCEPT ![n] = Blank]
  BY DEF IInv, DeleteSubscription
<1>3. /\ SettledBy' = [SettledBy EXCEPT ![n] = {}]
      /\ HeldBy' = [HeldBy EXCEPT ![n] = {}]
  <2>1. /\ SettledBy' = [SettledBy EXCEPT ![n] = Settled(Blank)]
        /\ HeldBy' = [HeldBy EXCEPT ![n] = Leased(Blank) \ Settled(Blank)]
    BY <1>2, ReplaceEntry
  <2> QED
    BY <1>1, <2>1, Zenon
<1> QED
  BY <1>3 DEF DeleteSubscription, Ledger!Close

(* An ack is Acknowledge, or a stutter for cursor 0. *)
LEMMA AckLedgerStep ==
  ASSUME IInv, NEW n \in Names, NEW c \in 0..MaxCursor, AckRequest(n, c)
  PROVE  (c \in Cursor /\ Ledger!Acknowledge(n, c)) \/ UNCHANGED Ledger!ledgerVars
<1> DEFINE s == subs[n]
           t == Ack(s, c)
<1>1. TypeOK /\ s \in SubState /\ (\A d \in s.acked_set : d > s.acked)
  BY DEF IInv, TypeOK, AckRequest, Consistent, FloorInOrder
<1>2. /\ t.leases = Without(s.leases, {c})
      /\ Settled(t) = Settled(s) \cup ({c} \cap Cursor)
  <2> HIDE DEF s
  <2> QED
    BY <1>1, AckProperty
<1>3. subs' = [subs EXCEPT ![n] = t]
  BY DEF AckRequest
<1> HIDE DEF t
<1>4. Leased(t) = Leased(s) \ {c}
  BY <1>2 DEF Leased, Without
<1>5. /\ SettledBy' = [SettledBy EXCEPT ![n] = Settled(t)]
      /\ HeldBy' = [HeldBy EXCEPT ![n] = Leased(t) \ Settled(t)]
      /\ SettledBy[n] = Settled(s)
      /\ HeldBy[n] = Leased(s) \ Settled(s)
  BY <1>1, <1>3, ReplaceEntry
<1>6. CASE c \in Cursor
  <2>1. /\ Settled(t) = SettledBy[n] \cup {c}
        /\ Leased(t) \ Settled(t) = HeldBy[n] \ {c}
    BY <1>2, <1>4, <1>5, <1>6
  <2> QED
    BY <1>5, <1>6, <2>1 DEF AckRequest, Ledger!Acknowledge
<1>7. CASE c \notin Cursor
  <2>1. Settled(t) = Settled(s) /\ Leased(t) = Leased(s)
    BY <1>2, <1>4, <1>7 DEF Leased
  <2>2. UNCHANGED <<SettledBy, HeldBy>>
    BY <1>1, <1>3, <2>1, SameEntry
  <2> QED
    BY <2>2 DEF AckRequest, Ledger!ledgerVars
<1> QED
  BY <1>6, <1>7

(* A Nack is Release, or a stutter for cursor 0. *)
LEMMA NackLedgerStep ==
  ASSUME IInv, NEW n \in Names, NEW c \in 0..MaxCursor, NackRequest(n, c)
  PROVE  (c \in Cursor /\ Ledger!Release(n, c)) \/ UNCHANGED Ledger!ledgerVars
<1> DEFINE s == subs[n]
           t == Nack(s, c)
<1>1. TypeOK /\ s \in SubState
  BY DEF IInv, TypeOK
<1>2. /\ t.acked = s.acked
      /\ t.dead = s.dead
      /\ t.acked_set = s.acked_set
      /\ Leased(t) = Leased(s) \ {c}
  BY <1>1, NackProperty
<1>3. subs' = [subs EXCEPT ![n] = t]
  BY DEF NackRequest
<1> HIDE DEF t
<1>4. Settled(t) = Settled(s)
  BY <1>2 DEF Settled
<1>5. /\ SettledBy' = [SettledBy EXCEPT ![n] = Settled(t)]
      /\ HeldBy' = [HeldBy EXCEPT ![n] = Leased(t) \ Settled(t)]
      /\ SettledBy[n] = Settled(s)
      /\ HeldBy[n] = Leased(s) \ Settled(s)
  BY <1>1, <1>3, ReplaceEntry
<1>6. CASE c \in Cursor
  <2>1. [SettledBy EXCEPT ![n] = SettledBy[n]] = SettledBy
    BY DEF SettledBy
  <2>2. Leased(t) \ Settled(t) = HeldBy[n] \ {c}
    BY <1>2, <1>4, <1>5
  <2> QED
    BY <1>4, <1>5, <1>6, <2>1, <2>2 DEF NackRequest, Ledger!Release
<1>7. CASE c \notin Cursor
  <2>1. Leased(t) = Leased(s)
    BY <1>2, <1>7 DEF Leased
  <2>2. UNCHANGED <<SettledBy, HeldBy>>
    BY <1>1, <1>3, <1>4, <2>1, SameEntry
  <2> QED
    BY <2>2 DEF NackRequest, Ledger!ledgerVars
<1> QED
  BY <1>6, <1>7

(* A commit is HandOut, with the floor the plan was made for. *)
LEMMA CommitLedgerStep ==
  ASSUME IInv, CommitLease
  PROVE  \E n \in Names : \E L \in SUBSET Cursor, D \in SUBSET Cursor,
           f \in 0..MaxCursor : \E K \in SUBSET L : Ledger!HandOut(n, L, D, f, K)
<1> DEFINE n == plan.name
           s == subs[n]
           t == ApplyLease(s, plan)
           L == plan.leased
           D == plan.dead
           f == plan.floor
           K == {c \in L : plan.left > 0}
<1>1. /\ TypeOK
      /\ n \in live
      /\ n \in Names
      /\ f <= floor
      /\ Suits(plan, s, f, high)
  BY DEF IInv, PlanStillValid, CommitLease, TypeOK
<1>2. /\ s \in SubState
      /\ FloorInOrder(s)
      /\ f \in 0..MaxCursor
      /\ PlanFields(plan)
  BY <1>1 DEF IInv, TypeOK, Plan, PlanFields, Consistent
<1>3. /\ t.leases = [c \in Cursor |-> IF c \in L THEN plan.left
                                      ELSE Without(s.leases, D)[c]]
      /\ Settled(t) = Settled(s) \cup D \cup (1..f)
  <2> HIDE DEF s, f
  <2> QED
    BY <1>1, <1>2, ApplyLeaseProperty
<1>4. subs' = [subs EXCEPT ![n] = t]
  BY DEF CommitLease
<1> HIDE DEF t
<1>5. /\ SettledBy' = [SettledBy EXCEPT ![n] = Settled(t)]
      /\ HeldBy' = [HeldBy EXCEPT ![n] = Leased(t) \ Settled(t)]
      /\ SettledBy[n] = Settled(s)
      /\ HeldBy[n] = Leased(s) \ Settled(s)
  BY <1>1, <1>4, ReplaceEntry
<1>6. /\ L \cap D = {}
      /\ (L \cup D) \cap (Settled(s) \cup Leased(s)) = {}
      /\ L \in SUBSET Cursor
      /\ D \in SUBSET Cursor
  BY <1>1, <1>2 DEF Suits, PlanFields
<1>7. Leased(t) = (Leased(s) \ D) \cup K
  <2>1. ASSUME NEW c \in Cursor
        PROVE  c \in Leased(t) <=> c \in (Leased(s) \ D) \cup K
    <3>1. CASE c \in L
      BY <3>1, <1>3, <1>6 DEF Leased
    <3>2. CASE c \notin L
      BY <3>2, <1>3, <1>6 DEF Leased, Without
    <3> QED
      BY <3>1, <3>2
  <2>2. (Leased(s) \ D) \cup K \subseteq Cursor /\ Leased(t) \subseteq Cursor
    BY <1>6 DEF Leased
  <2> QED
    BY <2>1, <2>2
<1>8. Leased(t) \ Settled(t) = (HeldBy[n] \cup K) \ (1..f)
  BY <1>3, <1>5, <1>6, <1>7
<1>9. K \in SUBSET L
  OBVIOUS
<1> HIDE DEF n, s, L, D, f, K
<1>10. Ledger!HandOut(n, L, D, f, K)
  <2>1. (L \cup D) \cap (SettledBy[n] \cup HeldBy[n]) = {}
    BY <1>5, <1>6
  <2>2. /\ SettledBy' = [SettledBy EXCEPT ![n] = SettledBy[n] \cup D \cup (1..f)]
        /\ HeldBy' = [HeldBy EXCEPT ![n] = (HeldBy[n] \cup K) \ (1..f)]
    BY <1>3, <1>5, <1>8, Zenon
  <2>3. UNCHANGED <<live, floor>>
    BY DEF CommitLease
  <2> QED
    BY <1>1, <1>6, <1>9, <2>1, <2>2, <2>3 DEF Ledger!HandOut
<1> QED
  BY <1>1, <1>2, <1>6, <1>9, <1>10

(* Pruning is Retire. *)
LEMMA PruneLedgerStep ==
  ASSUME IInv, NEW u \in Cursor, PruneTo(u)
  PROVE  \E r \in Cursor : Ledger!Retire(r)
<1>1. floor' \in Cursor /\ floor' > floor
  BY MaxCursorAssumption DEF IInv, TypeOK, PruneTo, Smaller, Cursor
<1>2. UNCHANGED <<SettledBy, HeldBy>>
  BY DEF PruneTo, SettledBy, HeldBy
<1>3. Ledger!Retire(floor')
  BY <1>1, <1>2 DEF PruneTo, Ledger!Retire
<1> QED
  BY <1>1, <1>3

(* The clock is Lapse. *)
LEMMA TickLedgerStep ==
  ASSUME IInv, Tick
  PROVE  Ledger!Lapse
<1>1. ASSUME NEW n \in Names
      PROVE  /\ Settled(subs'[n]) = Settled(subs[n])
             /\ Leased(subs'[n]) \subseteq Leased(subs[n])
             /\ Leased(subs'[n]) \subseteq Cursor
  <2>1. subs[n] \in SubState /\ subs'[n] = Elapse(subs[n])
    BY DEF IInv, TypeOK, Tick
  <2> QED
    BY <2>1, ElapseProperty DEF Settled, Leased
<1>2. SettledBy' = SettledBy
  BY <1>1 DEF SettledBy
<1>3. /\ HeldBy' \in [Names -> SUBSET Cursor]
      /\ \A n \in Names : HeldBy'[n] \subseteq HeldBy[n]
  BY <1>1 DEF HeldBy
<1> QED
  BY <1>2, <1>3 DEF Tick, Ledger!Lapse, Ledger!LedgerCursor, Cursor

(* Every step is a step of AckLedger or a stutter. *)
LEMMA NextLedger ==
  IInv /\ [Next]_vars => [Ledger!LedgerNext]_(Ledger!ledgerVars)
<1> SUFFICES ASSUME IInv, [Next]_vars
             PROVE  Ledger!LedgerNext \/ UNCHANGED Ledger!ledgerVars
  OBVIOUS
<1> USE DEF Ledger!LedgerNext
<1>0. Ledger!LedgerCursor = Cursor
  BY DEF Ledger!LedgerCursor, Cursor
<1>1. ASSUME NEW n \in Names, NEW p \in Policies, CreateSubscription(n, p)
      PROVE  Ledger!LedgerNext \/ UNCHANGED Ledger!ledgerVars
  BY <1>1, CreateLedger
<1>2. ASSUME NEW n \in Names, DeleteSubscription(n)
      PROVE  Ledger!LedgerNext
  BY <1>2, DeleteLedger
<1>3. ASSUME NEW n \in Names, NEW c \in 0..MaxCursor, AckRequest(n, c)
      PROVE  Ledger!LedgerNext \/ UNCHANGED Ledger!ledgerVars
  BY <1>0, <1>3, AckLedgerStep
<1>4. ASSUME NEW n \in Names, NEW c \in 0..MaxCursor, NackRequest(n, c)
      PROVE  Ledger!LedgerNext \/ UNCHANGED Ledger!ledgerVars
  BY <1>0, <1>4, NackLedgerStep
<1>5. CASE CommitLease
  BY <1>0, <1>5, CommitLedgerStep
<1>6. ASSUME NEW u \in Cursor, PruneTo(u)
      PROVE  Ledger!LedgerNext
  BY <1>0, <1>6, PruneLedgerStep
<1>7. CASE Tick
  BY <1>7, TickLedgerStep
<1>8. ASSUME UNCHANGED <<live, subs, floor>>
      PROVE  UNCHANGED Ledger!ledgerVars
  BY <1>8 DEF Ledger!ledgerVars, SettledBy, HeldBy
<1>9. ASSUME \/ \E n \in Names, max \in PullSizes : PlanLeaseRequest(n, max)
             \/ AbortLease
             \/ Publish
             \/ UNCHANGED vars
      PROVE  UNCHANGED Ledger!ledgerVars
  <2>1. UNCHANGED <<live, subs, floor>>
    BY <1>9 DEF PlanLeaseRequest, AbortLease, Publish, vars
  <2> QED
    BY <2>1, <1>8
<1> HIDE DEF Ledger!LedgerNext
<1> QED
  BY <1>1, <1>2, <1>3, <1>4, <1>5, <1>6, <1>7, <1>9 DEF Next, Control

(***************************************************************************)
(* The registry, with its floors, sets, leases and plans, implements the   *)
(* ledger its consumers rely on.                                           *)
(***************************************************************************)
THEOREM RegistryImplementsLedger == Spec => LedgerRefinement
<1>1. Spec => []IInv
  BY InitIInv, NextIInv, PTL DEF Spec
<1> QED
  BY <1>1, InitLedger, NextLedger, PTL DEF Spec, LedgerRefinement, Ledger!LedgerSpec

------------------------------------------------------------------------------
(* What a committed lease may do *)

(* Only a commit changes the delivery history upwards. *)
LEMMA OnlyCommitDelivers ==
  ASSUME IInv, [Next]_vars, NEW n \in Names, NEW c \in Cursor,
         deliveries'[n][c] > deliveries[n][c]
  PROVE  CommitLease /\ n = plan.name /\ c \in plan.leased
<1>1. CASE UNCHANGED deliveries
  BY <1>1 DEF IInv, TypeOK
<1>2. ASSUME NEW m \in Names, DeleteSubscription(m)
      PROVE  FALSE
  BY <1>2 DEF IInv, TypeOK, DeleteSubscription, NoDeliveries
<1>3. CASE CommitLease
  BY <1>3 DEF IInv, TypeOK, CommitLease
<1> QED
  BY <1>1, <1>2, <1>3
  DEF Next, Control, CreateSubscription, AckRequest, NackRequest,
      PlanLeaseRequest, AbortLease, Publish, PruneTo, Tick, vars

(***************************************************************************)
(* Over leases, expiries, nacks and policy changes, a message is handed    *)
(* out at most as often as the policy in force at the hand-out allows.     *)
(***************************************************************************)
THEOREM DeliveriesStayWithinPolicy == Spec => DeliveriesWithinPolicy
<1>1. ASSUME IInv, [Next]_vars, NEW n \in Names, NEW c \in Cursor,
             deliveries'[n][c] > deliveries[n][c]
      PROVE  LET max == subs[n].policy.max_delivery_attempts
             IN max = 0 \/ deliveries'[n][c] <= max
  <2>1. CommitLease /\ n = plan.name /\ c \in plan.leased
    BY <1>1, OnlyCommitDelivers
  <2>2. deliveries'[n][c] = deliveries[n][c] + 1
    BY <1>1, <2>1 DEF IInv, TypeOK, CommitLease
  <2>3. /\ n \in live
        /\ c \notin Settled(subs[n])
        /\ ~Poisoned(subs[n], c)
    BY <1>1, <2>1 DEF IInv, PlanStillValid, CommitLease, Suits
  <2>4. subs[n].attempts[c] = deliveries[n][c]
    BY <1>1, <2>3 DEF IInv, Consistent
  <2>5. subs[n].policy.max_delivery_attempts \in Nat /\ deliveries[n][c] \in Nat
    BY <1>1 DEF IInv, TypeOK, SubState, Policy
  <2> QED
    BY <2>2, <2>3, <2>4, <2>5 DEF Poisoned
<1>2. IInv /\ [Next]_vars =>
        [\A n \in Names, c \in Cursor :
           deliveries'[n][c] > deliveries[n][c] =>
             LET max == subs[n].policy.max_delivery_attempts
             IN max = 0 \/ deliveries'[n][c] <= max]_vars
  BY <1>1
<1> QED
  BY <1>2, InitIInv, NextIInv, PTL DEF Spec, DeliveriesWithinPolicy

(* A commit settles the planned dead letters and the planned pruned prefix. *)
LEMMA CommitSettles ==
  ASSUME IInv, CommitLease
  PROVE  Settled(subs'[plan.name]) =
           Settled(subs[plan.name]) \cup plan.dead \cup (1..plan.floor)
<1> DEFINE s == subs[plan.name]
           f == plan.floor
<1>1. /\ s \in SubState
      /\ FloorInOrder(s)
      /\ f \in 0..MaxCursor
      /\ PlanFields(plan)
      /\ Suits(plan, s, f, high)
  BY DEF IInv, PlanStillValid, CommitLease, TypeOK, Plan, PlanFields, Consistent
<1>2. subs'[plan.name] = ApplyLease(s, plan)
  BY DEF IInv, PlanStillValid, CommitLease, TypeOK
<1> HIDE DEF s, f
<1>3. Settled(ApplyLease(s, plan)) = Settled(s) \cup plan.dead \cup (1..f)
  BY <1>1, ApplyLeaseProperty
<1> QED
  BY <1>2, <1>3 DEF s, f

(* What a commit settles is pruned, or was planned as a dead letter. *)
LEMMA CommitSetsAside ==
  ASSUME IInv, CommitLease,
         NEW c \in Settled(subs'[plan.name]) \ Settled(subs[plan.name])
  PROVE  LET max == subs[plan.name].policy.max_delivery_attempts
         IN c <= floor \/ (max # 0 /\ deliveries[plan.name][c] >= max)
<1> DEFINE n == plan.name
           s == subs[n]
<1>1. /\ n \in live
      /\ n \in Names
      /\ plan.floor <= floor
      /\ Suits(plan, s, plan.floor, high)
      /\ \A d \in plan.dead : Poisoned(s, d)
  BY DEF IInv, PlanStillValid, TypeOK, CommitLease
<1>2. /\ s \in SubState
      /\ FloorInOrder(s)
      /\ plan.floor \in 0..MaxCursor
      /\ floor \in Int
      /\ PlanFields(plan)
  BY <1>1 DEF IInv, TypeOK, Plan, PlanFields, Consistent
<1>3. Settled(subs'[n]) = Settled(s) \cup plan.dead \cup (1..plan.floor)
  BY CommitSettles
<1>4. CASE c \in 1..plan.floor
  BY <1>1, <1>2, <1>4
<1>5. CASE c \in plan.dead
  <2>1. Poisoned(s, c) /\ c \in Cursor
    BY <1>1, <1>2, <1>5 DEF PlanFields
  <2>2. s.attempts[c] = deliveries[n][c]
    BY <1>1, <1>5, <2>1 DEF IInv, Consistent
  <2>3. s.policy.max_delivery_attempts \in Nat /\ s.attempts[c] \in Nat
    BY <1>2, <2>1 DEF SubState, Policy
  <2> QED
    BY <2>1, <2>2, <2>3 DEF Poisoned
<1> QED
  BY <1>3, <1>4, <1>5

(***************************************************************************)
(* A message that a commit settles without an ack is pruned, or consumers  *)
(* have been handed it as often as the policy allows.                      *)
(***************************************************************************)
THEOREM OnlyExhaustedAreSetAside == Spec => SetAsideOnlyWhenExhausted
<1> DEFINE Exhausted(n, c) ==
             LET max == subs[n].policy.max_delivery_attempts
             IN max # 0 /\ deliveries[n][c] >= max
<1>1. ASSUME IInv, [Next]_vars, ~Idle, Idle',
             NEW c \in Settled(subs'[plan.name]) \ Settled(subs[plan.name])
      PROVE  c <= floor \/ Exhausted(plan.name, c)
  <2>1. CASE UNCHANGED subs
    BY <2>1, <1>1
  <2>2. CASE CommitLease
    BY <2>2, <1>1, CommitSetsAside
  <2>3. UNCHANGED subs \/ CommitLease
    BY <1>1
    DEF Next, Control, CreateSubscription, DeleteSubscription, AckRequest,
        NackRequest, PlanLeaseRequest, AbortLease, Publish, PruneTo, Tick,
        Idle, vars, NoPlan, IInv, TypeOK, Plan
  <2> QED
    BY <2>1, <2>2, <2>3
<1>2. IInv /\ [Next]_vars =>
        [(~Idle /\ Idle') =>
           LET n   == plan.name
               max == subs[n].policy.max_delivery_attempts
           IN \A c \in Settled(subs'[n]) \ Settled(subs[n]) :
                c <= floor \/ (max # 0 /\ deliveries[n][c] >= max)]_vars
  BY <1>1
<1> QED
  BY <1>2, InitIInv, NextIInv, PTL DEF Spec, SetAsideOnlyWhenExhausted

(***************************************************************************)
(* In every reachable state the scan of plan_lease and its last loop make  *)
(* the plan PlanLease defines.                                             *)
(***************************************************************************)
THEOREM ScanMakesThePlan == Spec => []ScanIsPlanLease
<1>1. IInv => ScanIsPlanLease
  <2> SUFFICES ASSUME IInv, NEW n \in live, NEW max \in 0..(MaxCursor + 1)
               PROVE  LoopPlanLease(subs[n], high, floor, max)
                        = PlanLease(subs[n], high, floor, max)
    BY DEF ScanIsPlanLease
  <2>1. subs[n] \in SubState /\ high \in 0..MaxCursor /\ floor \in 0..MaxCursor
    BY MaxCursorAssumption DEF IInv, TypeOK
  <2>2. max \in Nat
    BY MaxCursorAssumption
  <2> QED
    BY <2>1, <2>2, LoopPlan
<1> QED
  BY <1>1, InitIInv, NextIInv, PTL DEF Spec

(***************************************************************************)
(* In every reachable state advance_acked, one cursor at a time, reaches   *)
(* the state the Ack op is defined to reach.                               *)
(***************************************************************************)
THEOREM AdvanceFoldsTheRun == Spec => []AdvanceIsAck
<1>1. IInv => AdvanceIsAck
  BY LoopAck DEF IInv, TypeOK, AdvanceIsAck
<1> QED
  BY <1>1, InitIInv, NextIInv, PTL DEF Spec
==============================================================================
