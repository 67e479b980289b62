----------------------- MODULE SubscriptionStateProofs -----------------------
(***************************************************************************)
(* What the functions of SubscriptionState return, for every cursor bound, *)
(* deadline bound and batch size, and that the loops of SubscriptionLoops  *)
(* return the same.                                                        *)
(***************************************************************************)
EXTENDS SubscriptionLoops, FiniteSetTheorems, WellFoundedInduction, TLAPS

(***************************************************************************)
(* A run of handled cursors ends: RunEnd chooses an existing value.  The   *)
(* least k at or above base whose successor is not handled is the end, and *)
(* there is one because MaxCursor + 1 is never handled.                    *)
(***************************************************************************)
LEMMA RunEndProperty ==
  ASSUME NEW base \in 0..MaxCursor, NEW handled \in SUBSET Cursor
  PROVE  /\ RunEnd(base, handled) \in base..MaxCursor
         /\ RunEndsAt(base, handled, RunEnd(base, handled))
<1> USE MaxCursorAssumption
<1> DEFINE Ends == {k \in base..MaxCursor : k + 1 \notin handled}
<1>1. MaxCursor \in Ends
  BY DEF Cursor
<1>2. PICK k \in Ends : \A j \in Ends : ~(<<j, k>> \in OpToRel(<, Nat))
  <2>1. Ends \subseteq Nat /\ Ends # {}
    BY <1>1
  <2> QED
    BY <2>1, WFMin, NatLessThanWellFounded, Zenon
<1>3. \A j \in Ends : ~(j < k)
  <2>1. ASSUME NEW j \in Nat, NEW i \in Nat, j < i
        PROVE  <<j, i>> \in OpToRel(<, Nat)
    BY <2>1, Zenon DEF OpToRel
  <2>2. Ends \subseteq Nat
    OBVIOUS
  <2> HIDE DEF Ends
  <2> QED
    BY <1>2, <2>1, <2>2
<1>4. (base + 1)..k \subseteq handled
  <2> SUFFICES ASSUME NEW i \in (base + 1)..k  PROVE i \in handled
    OBVIOUS
  <2>1. i - 1 \in base..MaxCursor /\ i - 1 < k /\ (i - 1) + 1 = i
    OBVIOUS
  <2> QED
    BY <2>1, <1>3
<1>5. \E j \in base..MaxCursor : RunEndsAt(base, handled, j)
  BY <1>4 DEF RunEndsAt
<1> QED
  BY <1>5 DEF RunEnd

(***************************************************************************)
(* Acknowledging a cursor settles that cursor and nothing else, and leaves *)
(* the floor in order; the cursors the floor passes were acked or dead.    *)
(***************************************************************************)
LEMMA AckProperty ==
  ASSUME NEW s \in SubState, NEW c \in 0..MaxCursor,
         \A d \in s.acked_set : d > s.acked
  PROVE  /\ Ack(s, c) \in SubState
         /\ Ack(s, c).leases = Without(s.leases, {c})
         /\ Ack(s, c).attempts = Without(s.attempts, {c})
         /\ Ack(s, c).acked_set \subseteq s.acked_set \cup {c}
         /\ Ack(s, c).dead \subseteq s.dead
         /\ Ack(s, c).acked >= s.acked
         /\ \A d \in (s.acked + 1)..Ack(s, c).acked : d \in s.acked_set \cup s.dead \cup {c}
         /\ Settled(Ack(s, c)) = Settled(s) \cup ({c} \cap Cursor)
         /\ FloorInOrder(Ack(s, c))
<1> USE MaxCursorAssumption
<1> DEFINE acks == s.acked_set \cup {d \in {c} : d > s.acked}
           end  == RunEnd(s.acked, acks \cup s.dead)
           run  == (s.acked + 1)..end
           t    == Ack(s, c)
<1>1. /\ s.acked \in 0..MaxCursor
      /\ s.leases \in [Cursor -> 0..MaxAckDeadlineSecs]
      /\ s.attempts \in [Cursor -> Nat]
      /\ s.dead \in SUBSET Cursor
      /\ s.acked_set \in SUBSET Cursor
      /\ s.policy \in Policy
  BY DEF SubState
<1>2. acks \cup s.dead \in SUBSET Cursor
  BY <1>1 DEF Cursor
<1>3. /\ end \in s.acked..MaxCursor
      /\ run \subseteq acks \cup s.dead
      /\ end + 1 \notin acks \cup s.dead
  BY <1>1, <1>2, RunEndProperty DEF RunEndsAt
<1>4. t = [ acked     |-> end,
            leases    |-> Without(s.leases, {c}),
            attempts  |-> Without(s.attempts, {c}),
            dead      |-> s.dead \ (run \ acks),
            acked_set |-> acks \ run,
            policy    |-> s.policy ]
  BY DEF Ack, AdvanceAcked
<1> HIDE DEF t, end
<1>5. /\ Without(s.leases, {c}) \in [Cursor -> 0..MaxAckDeadlineSecs]
      /\ Without(s.attempts, {c}) \in [Cursor -> Nat]
  BY <1>1, MaxAckDeadlineAssumption DEF Without
<1>6. t \in SubState
  <2>1. /\ acks \ run \in SUBSET Cursor
        /\ s.dead \ (run \ acks) \in SUBSET Cursor
        /\ end \in 0..MaxCursor
    BY <1>1, <1>2, <1>3
  <2> HIDE DEF acks, run
  <2> QED
    BY <1>1, <1>4, <1>5, <2>1 DEF SubState
<1>7. \A d \in acks : d > s.acked
  BY <1>1
<1>8. Settled(t) = Settled(s) \cup ({c} \cap Cursor)
  <2>1. Settled(t) = (1..end) \cup (acks \ run) \cup (s.dead \ (run \ acks))
    BY <1>4 DEF Settled
  <2>2. 1..end = (1..s.acked) \cup run
    BY <1>1, <1>3
  <2>3. Settled(t) = (1..s.acked) \cup acks \cup s.dead
    BY <2>1, <2>2, <1>3
  <2>4. (1..s.acked) \cup acks = (1..s.acked) \cup s.acked_set \cup ({c} \cap Cursor)
    BY <1>1 DEF Cursor
  <2> QED
    BY <2>3, <2>4 DEF Settled
<1>9. FloorInOrder(t)
  <2>1. \A d \in acks \ run : d > end
    BY <1>1, <1>2, <1>3, <1>7 DEF Cursor
  <2> QED
    BY <2>1, <1>3, <1>4 DEF FloorInOrder
<1>10. /\ t.leases = Without(s.leases, {c})
       /\ t.attempts = Without(s.attempts, {c})
       /\ t.acked_set \subseteq s.acked_set \cup {c}
       /\ t.dead \subseteq s.dead
       /\ t.acked >= s.acked
       /\ \A d \in (s.acked + 1)..t.acked : d \in s.acked_set \cup s.dead \cup {c}
  BY <1>1, <1>3, <1>4
<1> QED
  BY <1>6, <1>8, <1>9, <1>10 DEF t

(* The fields of a plan have the types the commit relies on. *)
PlanFields(p) ==
  /\ p.leased \in SUBSET Cursor
  /\ p.dead \in SUBSET Cursor
  /\ p.left \in 0..MaxAckDeadlineSecs

(***************************************************************************)
(* Applying a plan that suits the state settles the cursors it             *)
(* dead-letters and the pruned prefix, and leaves the floor in order.      *)
(***************************************************************************)
LEMMA ApplyLeaseProperty ==
  ASSUME NEW s \in SubState, FloorInOrder(s),
         NEW p, PlanFields(p),
         NEW floor \in 0..MaxCursor, NEW high, Suits(p, s, floor, high)
  PROVE  /\ ApplyLease(s, p) \in SubState
         /\ ApplyLease(s, p).acked = p.new_acked
         /\ ApplyLease(s, p).acked_set \subseteq s.acked_set
         /\ ApplyLease(s, p).dead \subseteq s.dead \cup p.dead
         /\ ApplyLease(s, p).leases =
              [c \in Cursor |-> IF c \in p.leased THEN p.left
                                ELSE Without(s.leases, p.dead)[c]]
         /\ ApplyLease(s, p).attempts =
              [c \in Cursor |-> IF c \in p.leased THEN s.attempts[c] + 1
                                ELSE Without(s.attempts, p.dead)[c]]
         /\ Settled(ApplyLease(s, p)) = Settled(s) \cup p.dead \cup (1..floor)
         /\ FloorInOrder(ApplyLease(s, p))
<1> USE MaxCursorAssumption, MaxAckDeadlineAssumption
<1> DEFINE base     == Larger(s.acked, floor)
           advances == p.new_acked > s.acked
           Above(C) == IF advances THEN {c \in C : c > p.new_acked} ELSE C
           l        == [c \in Cursor |-> IF c \in p.leased THEN p.left
                                         ELSE Without(s.leases, p.dead)[c]]
           a        == [c \in Cursor |-> IF c \in p.leased THEN s.attempts[c] + 1
                                         ELSE Without(s.attempts, p.dead)[c]]
           t        == ApplyLease(s, p)
<1>1. /\ s.acked \in 0..MaxCursor
      /\ s.leases \in [Cursor -> 0..MaxAckDeadlineSecs]
      /\ s.attempts \in [Cursor -> Nat]
      /\ s.dead \in SUBSET Cursor
      /\ s.acked_set \in SUBSET Cursor
      /\ s.policy \in Policy
  BY DEF SubState
<1>2. /\ p.leased \in SUBSET Cursor
      /\ p.dead \in SUBSET Cursor
      /\ p.left \in 0..MaxAckDeadlineSecs
  BY DEF PlanFields
<1>3. /\ base \in s.acked..MaxCursor
      /\ base \in floor..MaxCursor
      /\ base = s.acked \/ base = floor
  BY <1>1 DEF Larger
<1>4. /\ p.new_acked \in base..MaxCursor
      /\ (base + 1)..p.new_acked \subseteq s.dead \cup s.acked_set \cup p.dead
      /\ p.new_acked + 1 \notin s.dead \cup s.acked_set \cup p.dead
  BY DEF Suits, RunEndsAt
<1>5. t = [ acked     |-> p.new_acked,
            leases    |-> l,
            attempts  |-> a,
            dead      |-> Above(s.dead \cup p.dead),
            acked_set |-> Above(s.acked_set),
            policy    |-> s.policy ]
  <2>1. p.new_acked = IF advances THEN p.new_acked ELSE s.acked
    BY <1>1, <1>3, <1>4
  <2> QED
    BY <2>1, Zenon DEF ApplyLease
<1> HIDE DEF t, base
<1>6. t \in SubState
  <2>1. l \in [Cursor -> 0..MaxAckDeadlineSecs]
    BY <1>1, <1>2 DEF Without
  <2>2. a \in [Cursor -> Nat]
    BY <1>1, <1>2 DEF Without
  <2>3. /\ Above(s.dead \cup p.dead) \in SUBSET Cursor
        /\ Above(s.acked_set) \in SUBSET Cursor
        /\ p.new_acked \in 0..MaxCursor
    BY <1>1, <1>2, <1>3, <1>4
  <2> HIDE DEF l, a, Above
  <2> QED
    BY <1>1, <1>5, <2>1, <2>2, <2>3 DEF SubState
<1>7. Settled(t) = Settled(s) \cup p.dead \cup (1..floor)
  <2>1. Settled(t) = (1..p.new_acked) \cup Above(s.acked_set)
                       \cup Above(s.dead \cup p.dead)
    BY <1>5 DEF Settled
  <2>2. \A C \in SUBSET Cursor :
          (1..p.new_acked) \cup Above(C) = (1..p.new_acked) \cup C
    <3> SUFFICES ASSUME NEW C \in SUBSET Cursor, NEW c \in C
                 PROVE  c \in (1..p.new_acked) \cup Above(C)
      OBVIOUS
    <3>1. c \in Nat /\ c >= 1 /\ p.new_acked \in Nat
      BY <1>3, <1>4 DEF Cursor
    <3>2. CASE c > p.new_acked
      BY <3>2
    <3>3. CASE ~(c > p.new_acked)
      BY <3>1, <3>3
    <3> QED
      BY <3>2, <3>3
  <2>3. s.acked_set \in SUBSET Cursor /\ s.dead \cup p.dead \in SUBSET Cursor
    BY <1>1, <1>2
  <2>4. Settled(t) = (1..p.new_acked) \cup s.acked_set \cup s.dead \cup p.dead
    <3> HIDE DEF Above
    <3> QED
      BY <2>1, <2>2, <2>3
  <2>5. 1..p.new_acked = (1..base) \cup ((base + 1)..p.new_acked)
    BY <1>1, <1>3, <1>4
  <2>6. 1..base = (1..s.acked) \cup (1..floor)
    BY <1>1, <1>3
  <2> QED
    BY <2>4, <2>5, <2>6, <1>4 DEF Settled
<1>8. FloorInOrder(t)
  <2>1. p.new_acked + 1 \notin Above(s.acked_set) \cup Above(s.dead \cup p.dead)
    BY <1>4
  <2>2. \A c \in Above(s.acked_set) : c > p.new_acked
    <3>1. CASE advances
      BY <3>1
    <3>2. CASE ~advances
      BY <3>2, <1>1, <1>3, <1>4 DEF FloorInOrder
    <3> QED
      BY <3>1, <3>2
  <2> HIDE DEF Above
  <2> QED
    BY <2>1, <2>2, <1>5 DEF FloorInOrder
<1>9. /\ Above(s.acked_set) \subseteq s.acked_set
      /\ Above(s.dead \cup p.dead) \subseteq s.dead \cup p.dead
  OBVIOUS
<1>10. /\ t.acked = p.new_acked
       /\ t.acked_set \subseteq s.acked_set
       /\ t.dead \subseteq s.dead \cup p.dead
       /\ t.leases = l
       /\ t.attempts = a
  <2> HIDE DEF l, a, Above
  <2> QED
    BY <1>5, <1>9
<1> QED
  BY <1>6, <1>7, <1>8, <1>10 DEF t

(***************************************************************************)
(* A plan suits the state and the log positions it was made for; it hands  *)
(* out what the policy still allows and dead-letters what it does not.     *)
(***************************************************************************)
LEMMA PlanLeaseProperty ==
  ASSUME NEW s \in SubState, NEW high \in 0..MaxCursor,
         NEW floor \in 0..MaxCursor, NEW max \in Nat
  PROVE  LET p == PlanLease(s, high, floor, max)
         IN /\ PlanFields(p)
            /\ p.new_acked \in 0..MaxCursor
            /\ Suits(p, s, floor, high)
            /\ \A c \in p.leased : ~Poisoned(s, c)
            /\ \A c \in p.dead : Poisoned(s, c)
<1> USE MaxCursorAssumption, MaxAckDeadlineAssumption
<1> DEFINE base        == Larger(s.acked, floor)
           cap         == Smaller(max, MaxLeaseBatch)
           free        == {c \in Cursor : c > base /\ c <= high /\ Free(s, c)}
           deliverable == {c \in free : ~Poisoned(s, c)}
           scanned     == {c \in free :
                             Cardinality({d \in deliverable : d < c}) < cap}
           dead        == scanned \ deliverable
           leased      == scanned \cap deliverable
           p           == PlanLease(s, high, floor, max)
<1>1. p = [ leased    |-> leased,
            dead      |-> dead,
            new_acked |-> RunEnd(base, s.dead \cup s.acked_set \cup dead),
            left      |-> Deadline(s.policy) ]
  BY Zenon DEF PlanLease
<1>2. leased \subseteq deliverable /\ dead \subseteq free \ deliverable
  OBVIOUS
<1> HIDE DEF p, leased, dead, scanned, cap
<1>3. /\ p.leased = leased
      /\ p.dead = dead
      /\ p.new_acked = RunEnd(base, s.dead \cup s.acked_set \cup dead)
      /\ p.left = Deadline(s.policy)
  BY <1>1
<1>4. /\ s.acked \in 0..MaxCursor
      /\ s.leases \in [Cursor -> 0..MaxAckDeadlineSecs]
      /\ s.dead \in SUBSET Cursor
      /\ s.acked_set \in SUBSET Cursor
      /\ s.policy.ack_deadline_secs \in Nat
  BY DEF SubState, Policy
<1>5. PlanFields(p)
  <2>1. Deadline(s.policy) \in 0..MaxAckDeadlineSecs
    BY <1>4 DEF Deadline, Larger, Smaller
  <2>2. leased \in SUBSET Cursor /\ dead \in SUBSET Cursor
    BY <1>2
  <2> QED
    BY <1>3, <2>1, <2>2 DEF PlanFields
<1>6. /\ base \in s.acked..MaxCursor
      /\ base \in 0..MaxCursor
  BY <1>4 DEF Larger
<1>7. /\ p.new_acked \in base..MaxCursor
      /\ RunEndsAt(base, s.dead \cup s.acked_set \cup p.dead, p.new_acked)
  <2>1. s.dead \cup s.acked_set \cup dead \in SUBSET Cursor
    BY <1>2, <1>4
  <2> HIDE DEF base
  <2> QED
    BY <1>3, <1>6, <2>1, RunEndProperty
<1>8. \A c \in free : c > base /\ c <= high /\ c \notin Settled(s) \cup Leased(s)
  <2> SUFFICES ASSUME NEW c \in free
               PROVE  c \notin Settled(s) \cup Leased(s)
    OBVIOUS
  <2>1. c \in Cursor /\ c > base /\ s.leases[c] = 0 /\ c \notin s.dead \cup s.acked_set
    BY DEF Free
  <2> QED
    BY <2>1, <1>4, <1>6 DEF Settled, Leased, Cursor
<1>9. Suits(p, s, floor, high)
  <2>1. p.leased \cap p.dead = {}
    BY <1>2, <1>3
  <2>2. \A c \in p.leased \cup p.dead :
          c > base /\ c <= high /\ c \notin Settled(s) \cup Leased(s)
    BY <1>2, <1>3, <1>8
  <2> QED
    BY <2>1, <2>2, <1>7 DEF Suits
<1>10. /\ \A c \in p.leased : ~Poisoned(s, c)
       /\ \A c \in p.dead : Poisoned(s, c)
  BY <1>2, <1>3
<1>11. p.new_acked \in 0..MaxCursor
  BY <1>6, <1>7
<1> QED
  BY <1>5, <1>9, <1>10, <1>11 DEF p

------------------------------------------------------------------------------
(* The loops *)

(* A bounded set of numbers that is not empty has a greatest one. *)
LEMMA HasGreatest ==
  ASSUME NEW N \in Nat, NEW S \in SUBSET (0..N), S # {}
  PROVE  \E g \in S : \A j \in S : j <= g
<1> DEFINE Up == {k \in 0..N : \E g \in S : k = N - g}
<1>1. Up \subseteq Nat /\ Up # {}
  <2>1. Up \subseteq Nat
    OBVIOUS
  <2>2. PICK g \in S : TRUE
    OBVIOUS
  <2>3. N - g \in Up
    BY <2>2
  <2> HIDE DEF Up
  <2> QED
    BY <2>1, <2>3
<1>2. PICK k \in Up : \A j \in Up : ~(<<j, k>> \in OpToRel(<, Nat))
  BY <1>1, WFMin, NatLessThanWellFounded, Zenon
<1>3. PICK g \in S : k = N - g
  OBVIOUS
<1>4. \A j \in Up : ~(j < k)
  <2>1. ASSUME NEW j \in Nat, NEW i \in Nat, j < i
        PROVE  <<j, i>> \in OpToRel(<, Nat)
    BY <2>1, Zenon DEF OpToRel
  <2> HIDE DEF Up
  <2> QED
    BY <1>1, <1>2, <2>1
<1>5. ASSUME NEW j \in S
      PROVE  j <= g
  <2>1. N - j \in Up
    OBVIOUS
  <2>2. ~(N - j < N - g)
    BY <1>3, <1>4, <2>1
  <2>3. j \in Int /\ g \in Int
    OBVIOUS
  <2> QED
    BY <2>2, <2>3
<1> QED
  BY <1>5

(* A run has one end. *)
LEMMA RunEndIs ==
  ASSUME NEW base \in 0..MaxCursor, NEW handled \in SUBSET Cursor,
         NEW k \in base..MaxCursor, RunEndsAt(base, handled, k)
  PROVE  RunEnd(base, handled) = k
<1> DEFINE e == RunEnd(base, handled)
<1>1. e \in base..MaxCursor /\ RunEndsAt(base, handled, e)
  BY RunEndProperty
<1> HIDE DEF e
<1>2. ASSUME NEW i \in base..MaxCursor, NEW j \in base..MaxCursor, i < j,
             RunEndsAt(base, handled, i), RunEndsAt(base, handled, j)
      PROVE  FALSE
  <2>1. i + 1 \in (base + 1)..j
    BY <1>2, MaxCursorAssumption
  <2> QED
    BY <1>2, <2>1 DEF RunEndsAt
<1>3. ~(e < k) /\ ~(k < e)
  BY <1>1, <1>2
<1> QED
  BY <1>1, <1>3, MaxCursorAssumption DEF e

(* A run that starts with a handled cursor ends where the rest of it ends. *)
LEMMA RunEndSteps ==
  ASSUME NEW base \in 0..MaxCursor, NEW handled \in SUBSET Cursor,
         NEW rest \in SUBSET Cursor, base + 1 \in handled,
         \A c \in Cursor : c > base + 1 => (c \in rest <=> c \in handled)
  PROVE  base + 1 \in 0..MaxCursor /\ RunEnd(base, handled) = RunEnd(base + 1, rest)
<1> DEFINE e == RunEnd(base + 1, rest)
<1>1. base + 1 \in 1..MaxCursor
  BY DEF Cursor
<1>2. e \in (base + 1)..MaxCursor /\ RunEndsAt(base + 1, rest, e)
  BY <1>1, RunEndProperty
<1> HIDE DEF e
<1>3. \A c \in (base + 2)..e : c \in handled
  BY <1>1, <1>2, MaxCursorAssumption DEF RunEndsAt, Cursor
<1>4. e + 1 \notin handled
  <2> SUFFICES ASSUME e + 1 \in handled  PROVE FALSE
    OBVIOUS
  <2>1. e + 1 \in Cursor /\ e + 1 > base + 1
    BY <1>1, <1>2
  <2> QED
    BY <1>2, <2>1 DEF RunEndsAt
<1>5. RunEndsAt(base, handled, e)
  <2>1. \A c \in (base + 1)..e : c = base + 1 \/ c \in (base + 2)..e
    BY <1>1, <1>2
  <2> QED
    BY <1>3, <1>4, <2>1 DEF RunEndsAt
<1>6. e \in base..MaxCursor
  BY <1>1, <1>2
<1> QED
  BY <1>1, <1>5, <1>6, RunEndIs DEF e

(***************************************************************************)
(* The last loop of plan_lease stops at the end of the run.                *)
(***************************************************************************)
LEMMA BridgeIsRunEnd ==
  ASSUME NEW handled \in SUBSET Cursor, NEW base \in 0..MaxCursor
  PROVE  Bridge(handled)[base] = RunEnd(base, handled)
<1> DEFINE D == 0..MaxCursor
           Loop(f) == [k \in D |-> IF k + 1 \in handled THEN f[k + 1] ELSE k]
           g == [k \in D |-> RunEnd(k, handled)]
           h == Bridge(handled)
<1>1. h = CHOOSE f : f = Loop(f)
  BY DEF Bridge
<1>2. ASSUME NEW k \in D
      PROVE  /\ k + 1 \in handled =>
                  k + 1 \in D /\ RunEnd(k, handled) = RunEnd(k + 1, handled)
             /\ k + 1 \notin handled => RunEnd(k, handled) = k
  <2>1. k + 1 \in handled => k + 1 \in D /\ RunEnd(k, handled) = RunEnd(k + 1, handled)
    BY RunEndSteps
  <2>2. ASSUME k + 1 \notin handled
        PROVE  RunEnd(k, handled) = k
    <3>1. RunEndsAt(k, handled, k) /\ k \in k..MaxCursor
      BY <2>2, MaxCursorAssumption DEF RunEndsAt
    <3> QED
      BY <3>1, RunEndIs
  <2> QED
    BY <2>1, <2>2
<1>3. g = Loop(g)
  BY <1>2
<1>4. h = Loop(h)
  <2> HIDE DEF g, h, Loop
  <2> QED
    BY <1>1, <1>3
<1>5. ASSUME NEW k \in D
      PROVE  h[k] = IF k + 1 \in handled THEN h[k + 1] ELSE k
  <2> HIDE DEF h
  <2> QED
    BY <1>4
<1> HIDE DEF h, g
<1>6. \A k \in D : h[k] = RunEnd(k, handled)
  <2> DEFINE Bad == {k \in D : h[k] # RunEnd(k, handled)}
  <2> SUFFICES ASSUME Bad # {}  PROVE FALSE
    OBVIOUS
  <2>1. PICK k \in Bad : \A j \in Bad : j <= k
    BY HasGreatest, MaxCursorAssumption
  <2>2. k + 1 \notin Bad
    BY <2>1, MaxCursorAssumption
  <2> QED
    BY <1>2, <1>5, <2>1, <2>2
<1> QED
  BY <1>6 DEF h

(***************************************************************************)
(* One turn of advance_acked does not change what AdvanceAcked returns.    *)
(***************************************************************************)
LEMMA FoldsAdvance ==
  ASSUME NEW s \in SubState
  PROVE  /\ s.acked + 1 \in s.acked_set =>
              FoldAck(s) \in SubState /\ AdvanceAcked(s) = AdvanceAcked(FoldAck(s))
         /\ s.acked + 1 \in s.dead \ s.acked_set =>
              FoldDead(s) \in SubState /\ AdvanceAcked(s) = AdvanceAcked(FoldDead(s))
         /\ s.acked + 1 \notin s.acked_set \cup s.dead => AdvanceAcked(s) = s
<1> DEFINE base == s.acked
           acks == s.acked_set
           dead == s.dead
           end  == RunEnd(base, acks \cup dead)
           Advanced(a, d) ==
             [ acked     |-> end,
               leases    |-> s.leases,
               attempts  |-> s.attempts,
               dead      |-> d,
               acked_set |-> a,
               policy    |-> s.policy ]
<1>1. /\ s = [ acked     |-> base,
               leases    |-> s.leases,
               attempts  |-> s.attempts,
               dead      |-> dead,
               acked_set |-> acks,
               policy    |-> s.policy ]
      /\ base \in 0..MaxCursor /\ acks \in SUBSET Cursor /\ dead \in SUBSET Cursor
      /\ s.leases \in [Cursor -> 0..MaxAckDeadlineSecs]
      /\ s.attempts \in [Cursor -> Nat]
      /\ s.policy \in Policy
  BY DEF SubState
<1>2. end \in base..MaxCursor /\ RunEndsAt(base, acks \cup dead, end)
  BY <1>1, RunEndProperty
<1>3. AdvanceAcked(s) = Advanced(acks \ ((base + 1)..end), dead \ (((base + 1)..end) \ acks))
  BY DEF AdvanceAcked
<1>4. FoldAck(s) = [ acked     |-> base + 1,
                     leases    |-> s.leases,
                     attempts  |-> s.attempts,
                     dead      |-> dead,
                     acked_set |-> acks \ {base + 1},
                     policy    |-> s.policy ]
  <2> DEFINE next == base + 1
             a    == acks \ {base + 1}
  <2>1. FoldAck(s) = [s EXCEPT !.acked = next, !.acked_set = a]
    BY DEF FoldAck
  <2> HIDE DEF next, a
  <2>2. FoldAck(s) = [ acked |-> next, leases |-> s.leases, attempts |-> s.attempts,
                       dead |-> dead, acked_set |-> a, policy |-> s.policy ]
    BY <1>1, <2>1
  <2> QED
    BY <2>2 DEF next, a
<1>5. FoldDead(s) = [ acked     |-> base + 1,
                      leases    |-> s.leases,
                      attempts  |-> s.attempts,
                      dead      |-> dead \ {base + 1},
                      acked_set |-> acks,
                      policy    |-> s.policy ]
  <2> DEFINE next == base + 1
             d    == dead \ {base + 1}
  <2>1. FoldDead(s) = [s EXCEPT !.acked = next, !.dead = d]
    BY DEF FoldDead
  <2> HIDE DEF next, d
  <2>2. FoldDead(s) = [ acked |-> next, leases |-> s.leases, attempts |-> s.attempts,
                        dead |-> d, acked_set |-> acks, policy |-> s.policy ]
    BY <1>1, <2>1
  <2> QED
    BY <2>2 DEF next, d
<1>6. ASSUME base + 1 \in acks
      PROVE  FoldAck(s) \in SubState /\ AdvanceAcked(s) = AdvanceAcked(FoldAck(s))
  <2> DEFINE t == FoldAck(s)
             rest == (acks \ {base + 1}) \cup dead
  <2>1. /\ t.acked = base + 1 /\ t.acked_set = acks \ {base + 1} /\ t.dead = dead
        /\ t.leases = s.leases /\ t.attempts = s.attempts /\ t.policy = s.policy
    BY <1>4
  <2>2. base + 1 \in 0..MaxCursor
    BY <1>1, <1>6 DEF Cursor
  <2>3. end = RunEnd(base + 1, rest)
    <3>1. rest \in SUBSET Cursor /\ acks \cup dead \in SUBSET Cursor
      BY <1>1
    <3>2. \A c \in Cursor : c > base + 1 => (c \in rest <=> c \in acks \cup dead)
      BY <1>1 DEF Cursor
    <3>3. base + 1 \in acks \cup dead
      BY <1>6
    <3> HIDE DEF base, acks, dead, rest
    <3> QED
      BY <1>1, <3>1, <3>2, <3>3, RunEndSteps
  <2>4. t \in SubState
    <3>1. acks \ {base + 1} \in SUBSET Cursor
      BY <1>1
    <3> HIDE DEF base, acks, dead
    <3> QED
      BY <1>1, <1>4, <2>2, <3>1 DEF SubState
  <2>5. AdvanceAcked(t) = Advanced((acks \ {base + 1}) \ ((base + 2)..end),
                                   dead \ (((base + 2)..end) \ (acks \ {base + 1})))
    <3>1. base + 1 + 1 = base + 2
      BY <1>1
    <3> HIDE DEF t, end, base, acks, dead
    <3> QED
      BY <2>1, <2>3, <3>1 DEF AdvanceAcked
  <2>6. (base + 1)..end = {base + 1} \cup ((base + 2)..end)
    BY <1>1, <1>2, <1>6 DEF RunEndsAt
  <2>7. /\ acks \ ((base + 1)..end) = (acks \ {base + 1}) \ ((base + 2)..end)
        /\ ((base + 1)..end) \ acks = ((base + 2)..end) \ (acks \ {base + 1})
    <3>1. base + 1 \notin (base + 2)..end
      BY <1>1
    <3> HIDE DEF end, base, acks, dead
    <3> QED
      BY <1>6, <2>6, <3>1
  <2> HIDE DEF end, base, acks, dead, Advanced
  <2> QED
    BY <1>3, <2>4, <2>5, <2>7 DEF t
<1>7. ASSUME base + 1 \in dead \ acks
      PROVE  FoldDead(s) \in SubState /\ AdvanceAcked(s) = AdvanceAcked(FoldDead(s))
  <2> DEFINE t == FoldDead(s)
             rest == acks \cup (dead \ {base + 1})
  <2>1. /\ t.acked = base + 1 /\ t.acked_set = acks /\ t.dead = dead \ {base + 1}
        /\ t.leases = s.leases /\ t.attempts = s.attempts /\ t.policy = s.policy
    BY <1>5
  <2>2. base + 1 \in 0..MaxCursor
    BY <1>1, <1>7 DEF Cursor
  <2>3. end = RunEnd(base + 1, rest)
    <3>1. rest \in SUBSET Cursor /\ acks \cup dead \in SUBSET Cursor
      BY <1>1
    <3>2. \A c \in Cursor : c > base + 1 => (c \in rest <=> c \in acks \cup dead)
      BY <1>1 DEF Cursor
    <3>3. base + 1 \in acks \cup dead
      BY <1>7
    <3> HIDE DEF base, acks, dead, rest
    <3> QED
      BY <1>1, <3>1, <3>2, <3>3, RunEndSteps
  <2>4. t \in SubState
    <3>1. dead \ {base + 1} \in SUBSET Cursor
      BY <1>1
    <3> HIDE DEF base, acks, dead
    <3> QED
      BY <1>1, <1>5, <2>2, <3>1 DEF SubState
  <2>5. AdvanceAcked(t) = Advanced(acks \ ((base + 2)..end),
                                   (dead \ {base + 1}) \ (((base + 2)..end) \ acks))
    <3>1. base + 1 + 1 = base + 2
      BY <1>1
    <3> HIDE DEF t, end, base, acks, dead
    <3> QED
      BY <2>1, <2>3, <3>1 DEF AdvanceAcked
  <2>6. (base + 1)..end = {base + 1} \cup ((base + 2)..end)
    BY <1>1, <1>2, <1>7 DEF RunEndsAt
  <2>7. /\ acks \ ((base + 1)..end) = acks \ ((base + 2)..end)
        /\ dead \ (((base + 1)..end) \ acks)
              = (dead \ {base + 1}) \ (((base + 2)..end) \ acks)
    <3> HIDE DEF end, base, acks, dead
    <3> QED
      BY <1>7, <2>6
  <2> HIDE DEF end, base, acks, dead, Advanced
  <2> QED
    BY <1>3, <2>4, <2>5, <2>7 DEF t
<1>8. ASSUME base + 1 \notin acks \cup dead
      PROVE  AdvanceAcked(s) = s
  <2>1. RunEndsAt(base, acks \cup dead, base) /\ base \in base..MaxCursor
    BY <1>1, <1>8 DEF RunEndsAt
  <2>2. end = base
    BY <1>1, <2>1, RunEndIs
  <2>3. (base + 1)..end = {}
    BY <1>1, <2>2
  <2> HIDE DEF end, base, acks, dead
  <2>4. AdvanceAcked(s) = Advanced(acks, dead)
    BY <1>3, <2>3
  <2> QED
    BY <1>1, <2>2, <2>4
<1> QED
  BY <1>6, <1>7, <1>8

(***************************************************************************)
(* advance_acked, one cursor at a time, returns what AdvanceAcked says.    *)
(***************************************************************************)
LEMMA LoopAdvanceIsAdvanceAcked ==
  ASSUME NEW s \in SubState
  PROVE  LoopAdvance[s] = AdvanceAcked(s)
<1> DEFINE Loop(f) == [r \in SubState |->
                         IF r.acked + 1 \in r.acked_set THEN f[FoldAck(r)]
                         ELSE IF r.acked + 1 \in r.dead THEN f[FoldDead(r)]
                         ELSE r]
           g == [r \in SubState |-> AdvanceAcked(r)]
           h == LoopAdvance
<1>1. h = CHOOSE f : f = Loop(f)
  BY DEF LoopAdvance
<1>2. g = Loop(g)
  <2>1. \A r \in SubState :
          g[r] = IF r.acked + 1 \in r.acked_set THEN g[FoldAck(r)]
                 ELSE IF r.acked + 1 \in r.dead THEN g[FoldDead(r)]
                 ELSE r
    BY FoldsAdvance
  <2> QED
    BY <2>1
<1>3. h = Loop(h)
  <2> HIDE DEF g, h, Loop
  <2> QED
    BY <1>1, <1>2
<1>4. ASSUME NEW r \in SubState
      PROVE  h[r] = IF r.acked + 1 \in r.acked_set THEN h[FoldAck(r)]
                    ELSE IF r.acked + 1 \in r.dead THEN h[FoldDead(r)]
                    ELSE r
  <2> HIDE DEF h
  <2> QED
    BY <1>3
<1> HIDE DEF h, g
<1>5. \A r \in SubState : h[r] = AdvanceAcked(r)
  <2> DEFINE Bad == {k \in 0..MaxCursor :
                       \E r \in SubState : r.acked = k /\ h[r] # AdvanceAcked(r)}
  <2> SUFFICES ASSUME NEW q \in SubState, h[q] # AdvanceAcked(q)  PROVE FALSE
    OBVIOUS
  <2>1. q.acked \in Bad
    BY DEF SubState
  <2>2. PICK k \in Bad : \A j \in Bad : j <= k
    BY <2>1, HasGreatest, MaxCursorAssumption
  <2>3. PICK r \in SubState : r.acked = k /\ h[r] # AdvanceAcked(r)
    BY <2>2
  <2>4. k \in Nat
    BY MaxCursorAssumption
  <2>5. ASSUME NEW t \in SubState, t.acked = k + 1
        PROVE  h[t] = AdvanceAcked(t)
    <3>1. k + 1 \notin Bad
      BY <2>2, <2>4
    <3>2. k + 1 \in 0..MaxCursor
      BY <2>5 DEF SubState
    <3> QED
      BY <2>5, <3>1, <3>2
  <2>6. FoldAck(r).acked = k + 1 /\ FoldDead(r).acked = k + 1
    BY <2>3 DEF FoldAck, FoldDead, SubState
  <2>7. h[r] = AdvanceAcked(r)
    BY <1>4, <2>5, <2>6, FoldsAdvance
  <2> QED
    BY <2>3, <2>7
<1> QED
  BY <1>5 DEF h

(* Recording the acked cursor and then advancing is the Ack op. *)
LEMMA LoopAck ==
  ASSUME NEW s \in SubState, NEW c \in 0..MaxCursor
  PROVE  LoopAdvance[RecordAck(s, c)] = Ack(s, c)
<1> DEFINE t == [ acked     |-> s.acked,
                  leases    |-> Without(s.leases, {c}),
                  attempts  |-> Without(s.attempts, {c}),
                  dead      |-> s.dead,
                  acked_set |-> s.acked_set \cup {d \in {c} : d > s.acked},
                  policy    |-> s.policy ]
<1>1. /\ s = [ acked     |-> s.acked,
               leases    |-> s.leases,
               attempts  |-> s.attempts,
               dead      |-> s.dead,
               acked_set |-> s.acked_set,
               policy    |-> s.policy ]
      /\ s.acked \in 0..MaxCursor
      /\ s.leases \in [Cursor -> 0..MaxAckDeadlineSecs]
      /\ s.attempts \in [Cursor -> Nat]
      /\ s.dead \in SUBSET Cursor /\ s.acked_set \in SUBSET Cursor
      /\ s.policy \in Policy
  BY DEF SubState
<1>2. s.acked_set \cup {d \in {c} : d > s.acked}
        = IF c > s.acked THEN s.acked_set \cup {c} ELSE s.acked_set
  OBVIOUS
<1>3. RecordAck(s, c) = t
  <2> DEFINE w == Without(s.leases, {c})
             a == Without(s.attempts, {c})
             k == IF c > s.acked THEN s.acked_set \cup {c} ELSE s.acked_set
  <2>1. RecordAck(s, c) = [s EXCEPT !.leases = w, !.attempts = a, !.acked_set = k]
    BY DEF RecordAck
  <2>2. t = [ acked |-> s.acked, leases |-> w, attempts |-> a, dead |-> s.dead,
              acked_set |-> k, policy |-> s.policy ]
    BY <1>2
  <2> HIDE DEF t, w, a, k
  <2>3. RecordAck(s, c) = [ acked |-> s.acked, leases |-> w, attempts |-> a,
                            dead |-> s.dead, acked_set |-> k, policy |-> s.policy ]
    BY <1>1, <2>1
  <2> QED
    BY <2>2, <2>3
<1>4. t \in SubState
  <2>1. /\ Without(s.leases, {c}) \in [Cursor -> 0..MaxAckDeadlineSecs]
        /\ Without(s.attempts, {c}) \in [Cursor -> Nat]
    BY <1>1, MaxAckDeadlineAssumption DEF Without
  <2>2. s.acked_set \cup {d \in {c} : d > s.acked} \in SUBSET Cursor
    BY <1>1 DEF Cursor
  <2> QED
    BY <1>1, <2>1, <2>2 DEF SubState
<1>5. Ack(s, c) = AdvanceAcked(t)
  BY DEF Ack
<1> HIDE DEF t
<1> QED
  BY <1>3, <1>4, <1>5, LoopAdvanceIsAdvanceAcked

(* The cursors up to high that plan_lease does not skip, and those it leases. *)
FreeUpTo(s, high) == {c \in Cursor : c <= high /\ Free(s, c)}
DeliverableUpTo(s, high) == {c \in FreeUpTo(s, high) : ~Poisoned(s, c)}

(* Those before d of a set, from c on; and the free ones that `room` reaches. *)
Between(D, c, d) == {e \in D : c <= e /\ e < d}
Reached(F, D, c, room) == {d \in F : c <= d /\ Cardinality(Between(D, c, d)) < room}

(***************************************************************************)
(* How far the scan gets from c on, by what it finds there: a cursor that  *)
(* is leased takes up room, one that is dead-lettered does not.            *)
(***************************************************************************)
ReachesOn(F, D, c, room) ==
  /\ room = 0 => Reached(F, D, c, room) = {}
  /\ c \notin F => Reached(F, D, c, room) = Reached(F, D, c + 1, room)
  /\ c \in F \ D /\ room # 0 =>
       Reached(F, D, c, room) = Reached(F, D, c + 1, room) \cup {c}
  /\ c \in D /\ room # 0 =>
       Reached(F, D, c, room) = Reached(F, D, c + 1, room - 1) \cup {c}

(* What the scan reaches, one cursor further on. *)
LEMMA ReachedSteps ==
  ASSUME NEW F \in SUBSET Cursor, NEW D \in SUBSET F,
         NEW c \in Cursor, NEW room \in Nat
  PROVE  ReachesOn(F, D, c, room)
<1>1. c \in Nat /\ F \subseteq Nat /\ D \subseteq Nat
  BY DEF Cursor
<1>2. ASSUME NEW i \in Nat, NEW d \in Nat
      PROVE  IsFiniteSet(Between(D, i, d)) /\ Cardinality(Between(D, i, d)) \in Nat
  <2>1. Between(D, i, d) \subseteq 1..MaxCursor
    BY DEF Between, Cursor
  <2>2. IsFiniteSet(1..MaxCursor)
    BY FS_Interval, MaxCursorAssumption
  <2> QED
    BY <2>1, <2>2, FS_Subset, FS_CardinalityType
<1>3. ASSUME NEW d \in Nat, d <= c
      PROVE  Cardinality(Between(D, c, d)) = 0
  <2>1. \A e \in D : ~(c <= e /\ e < d)
    BY <1>1, <1>3
  <2>2. Between(D, c, d) = {}
    BY <2>1 DEF Between
  <2> QED
    BY <2>2, FS_EmptySet
<1>4. ASSUME NEW d \in Nat, c \notin D
      PROVE  Between(D, c, d) = Between(D, c + 1, d)
  <2>1. \A e \in D : c <= e <=> c + 1 <= e
    BY <1>1, <1>4
  <2> QED
    BY <2>1 DEF Between
<1>5. ASSUME NEW d \in Nat, c \in D, c < d
      PROVE  Cardinality(Between(D, c, d)) = Cardinality(Between(D, c + 1, d)) + 1
  <2>1. \A e \in D : e # c => (c <= e <=> c + 1 <= e)
    BY <1>1
  <2>2. c <= c /\ ~(c + 1 <= c)
    BY <1>1
  <2>3. Between(D, c, d) = Between(D, c + 1, d) \cup {c} /\ c \notin Between(D, c + 1, d)
    BY <1>5, <2>1, <2>2 DEF Between
  <2>4. IsFiniteSet(Between(D, c + 1, d))
    BY <1>1, <1>2
  <2> QED
    BY <2>3, <2>4, FS_AddElement
<1>6. ASSUME room = 0
      PROVE  Reached(F, D, c, room) = {}
  <2>1. \A d \in F : ~(Cardinality(Between(D, c, d)) < 0)
    BY <1>1, <1>2
  <2> QED
    BY <1>6, <2>1 DEF Reached
<1>7. ASSUME c \notin F
      PROVE  Reached(F, D, c, room) = Reached(F, D, c + 1, room)
  <2>1. \A d \in F : c <= d <=> c + 1 <= d
    BY <1>1, <1>7
  <2>2. \A d \in F : Between(D, c, d) = Between(D, c + 1, d)
    BY <1>1, <1>4, <1>7
  <2> QED
    BY <2>1, <2>2 DEF Reached
<1>8. ASSUME room # 0, c \in F
      PROVE  c \in Reached(F, D, c, room)
  BY <1>1, <1>3, <1>8 DEF Reached
<1>9. ASSUME room # 0, c \in F \ D
      PROVE  Reached(F, D, c, room) = Reached(F, D, c + 1, room) \cup {c}
  <2>1. \A d \in F : d # c => (c <= d <=> c + 1 <= d)
    BY <1>1
  <2>2. \A d \in F : Between(D, c, d) = Between(D, c + 1, d)
    BY <1>1, <1>4, <1>9
  <2> QED
    BY <1>8, <1>9, <2>1, <2>2 DEF Reached
<1>10. ASSUME room # 0, c \in D
       PROVE  Reached(F, D, c, room) = Reached(F, D, c + 1, room - 1) \cup {c}
  <2>1. \A d \in F : d # c => (c <= d <=> c + 1 <= d)
    BY <1>1
  <2>2. ASSUME NEW d \in F, c + 1 <= d
        PROVE  Cardinality(Between(D, c, d)) < room
                 <=> Cardinality(Between(D, c + 1, d)) < room - 1
    <3>1. /\ d \in Nat /\ c < d /\ c + 1 \in Nat
      BY <1>1, <2>2
    <3>2. /\ Cardinality(Between(D, c, d)) = Cardinality(Between(D, c + 1, d)) + 1
          /\ Cardinality(Between(D, c + 1, d)) \in Nat
      BY <1>2, <1>5, <1>10, <3>1
    <3> QED
      BY <3>2
  <2>3. ~(c + 1 <= c)
    BY <1>1
  <2> QED
    BY <1>8, <1>10, <2>1, <2>2, <2>3 DEF Reached
<1> QED
  BY <1>6, <1>7, <1>9, <1>10 DEF ReachesOn

(***************************************************************************)
(* The scan returns what it reaches, leased or dead-lettered.              *)
(***************************************************************************)
LEMMA ScanReaches ==
  ASSUME NEW s \in SubState, NEW high \in 0..MaxCursor,
         NEW c \in 1..(MaxCursor + 1), NEW room \in 0..MaxLeaseBatch
  PROVE  Scan(s, high)[c][room] =
           [leased |-> Reached(FreeUpTo(s, high), DeliverableUpTo(s, high), c, room)
                         \cap DeliverableUpTo(s, high),
            dead   |-> Reached(FreeUpTo(s, high), DeliverableUpTo(s, high), c, room)
                         \ DeliverableUpTo(s, high)]
<1> DEFINE F == FreeUpTo(s, high)
           D == DeliverableUpTo(s, high)
           P == 1..(MaxCursor + 1)
           R == 0..MaxLeaseBatch
           Skips(k) == s.leases[k] > 0 \/ k \in s.dead \/ k \in s.acked_set
           Gives(k) == /\ s.policy.max_delivery_attempts # 0
                       /\ s.attempts[k] + 1 > s.policy.max_delivery_attempts
           Result(k, r) == [leased |-> Reached(F, D, k, r) \cap D,
                            dead   |-> Reached(F, D, k, r) \ D]
           Turn(f, k, r) ==
             IF k > high \/ r = 0 THEN [leased |-> {}, dead |-> {}]
             ELSE IF Skips(k) THEN f[k + 1][r]
             ELSE IF Gives(k)
               THEN [leased |-> f[k + 1][r].leased, dead |-> f[k + 1][r].dead \cup {k}]
             ELSE [leased |-> f[k + 1][r - 1].leased \cup {k}, dead |-> f[k + 1][r - 1].dead]
           Loop(f) == [k \in P |-> [r \in R |-> Turn(f, k, r)]]
           g == [k \in P |-> [r \in R |-> Result(k, r)]]
           h == Scan(s, high)
<1>1. h = CHOOSE f : f = Loop(f)
  BY Zenon DEF Scan
<1>2. F \in SUBSET Cursor /\ D \in SUBSET F
  BY DEF FreeUpTo, DeliverableUpTo
<1>3. ASSUME NEW k \in P, k <= high
      PROVE  /\ k \in Cursor /\ k + 1 \in P
             /\ Skips(k) <=> k \notin F
             /\ ~Skips(k) => (Gives(k) <=> k \notin D)
  <2>1. k \in Cursor /\ k + 1 \in P
    BY <1>3, MaxCursorAssumption DEF Cursor
  <2>2. s.leases[k] \in Nat
    BY <2>1, MaxAckDeadlineAssumption DEF SubState
  <2>3. Skips(k) <=> k \notin F
    BY <1>3, <2>1, <2>2 DEF FreeUpTo, Free
  <2>4. k \in F => (Gives(k) <=> k \notin D)
    BY DEF DeliverableUpTo, Poisoned
  <2> QED
    BY <2>1, <2>3, <2>4
<1>4. ASSUME NEW k \in P, NEW r \in R, k > high \/ r = 0
      PROVE  Reached(F, D, k, r) = {}
  <2>1. CASE k > high
    BY <2>1 DEF Reached, FreeUpTo, Cursor
  <2>2. CASE r = 0 /\ ~(k > high)
    <3>1. k \in Cursor
      BY <1>3, <2>2
    <3> QED
      BY <1>2, <2>2, <3>1, ReachedSteps DEF ReachesOn
  <2> QED
    BY <1>4, <2>1, <2>2
<1> HIDE DEF F, D, Skips, Gives
<1>5. ASSUME NEW f, NEW k \in P, NEW r \in R,
             k + 1 \in P => \A q \in R : f[k + 1][q] = Result(k + 1, q)
      PROVE  Turn(f, k, r) = Result(k, r)
  <2>1. CASE k > high \/ r = 0
    BY <1>4, <2>1
  <2> SUFFICES ASSUME ~(k > high), r # 0
               PROVE  Turn(f, k, r) = Result(k, r)
    BY <2>1
  <2>2. /\ k <= high /\ r \in Nat /\ r - 1 \in R
    BY MaxLeaseBatchAssumption
  <2>3. /\ k \in Cursor /\ k + 1 \in P
        /\ Skips(k) <=> k \notin F
        /\ ~Skips(k) => (Gives(k) <=> k \notin D)
    BY <1>3, <2>2
  <2>4. f[k + 1][r] = Result(k + 1, r) /\ f[k + 1][r - 1] = Result(k + 1, r - 1)
    BY <1>5, <2>2, <2>3
  <2>5. k \in Cursor /\ r \in Nat /\ r # 0
    BY <2>2, <2>3
  <2>6. /\ k \notin F => Reached(F, D, k, r) = Reached(F, D, k + 1, r)
        /\ k \in F \ D => Reached(F, D, k, r) = Reached(F, D, k + 1, r) \cup {k}
        /\ k \in D => Reached(F, D, k, r) = Reached(F, D, k + 1, r - 1) \cup {k}
    <3> HIDE DEF P, R
    <3>1. ReachesOn(F, D, k, r)
      BY <1>2, <2>5, ReachedSteps
    <3> QED
      BY <2>5, <3>1 DEF ReachesOn
  <2>7. CASE Skips(k)
    BY <2>3, <2>4, <2>6, <2>7
  <2>8. CASE ~Skips(k) /\ Gives(k)
    <3>1. Turn(f, k, r) = [leased |-> Reached(F, D, k + 1, r) \cap D,
                           dead   |-> (Reached(F, D, k + 1, r) \ D) \cup {k}]
      BY <2>4, <2>8
    <3>2. k \in F \ D
      BY <2>3, <2>8
    <3> QED
      BY <2>6, <3>1, <3>2
  <2>9. CASE ~Skips(k) /\ ~Gives(k)
    <3>1. Turn(f, k, r) = [leased |-> (Reached(F, D, k + 1, r - 1) \cap D) \cup {k},
                           dead   |-> Reached(F, D, k + 1, r - 1) \ D]
      BY <2>4, <2>9
    <3>2. k \in D
      BY <2>3, <2>9
    <3> QED
      BY <2>6, <3>1, <3>2
  <2> QED
    BY <2>7, <2>8, <2>9
<1> HIDE DEF Turn, Result, P, R
<1>6. \A k \in P : \A r \in R : g[k][r] = Result(k, r)
  OBVIOUS
<1>7. g = Loop(g)
  <2>1. \A k \in P : \A r \in R : Turn(g, k, r) = Result(k, r)
    <3> HIDE DEF g
    <3> QED
      BY <1>5, <1>6
  <2> QED
    BY <2>1
<1>8. h = Loop(h)
  <2> HIDE DEF g, h, Loop
  <2> QED
    BY <1>1, <1>7
<1>9. \A k \in P : \A r \in R : h[k][r] = Turn(h, k, r)
  <2> HIDE DEF h
  <2> QED
    BY <1>8
<1> HIDE DEF h, g
<1>10. \A k \in P : \A r \in R : h[k][r] = Result(k, r)
  <2> DEFINE Bad == {k \in P : \E r \in R : h[k][r] # Result(k, r)}
  <2> SUFFICES ASSUME Bad # {}  PROVE FALSE
    OBVIOUS
  <2>1. PICK k \in Bad : \A j \in Bad : j <= k
    <3>1. Bad \in SUBSET (0..(MaxCursor + 1)) /\ MaxCursor + 1 \in Nat
      BY MaxCursorAssumption DEF P
    <3> HIDE DEF Bad
    <3> QED
      BY <3>1, HasGreatest
  <2>2. k \in P /\ k \in Nat
    BY MaxCursorAssumption DEF P
  <2>3. k + 1 \notin Bad
    BY <2>1, <2>2
  <2>4. k + 1 \in P => \A q \in R : h[k + 1][q] = Result(k + 1, q)
    BY <2>3
  <2>5. \A r \in R : h[k][r] = Result(k, r)
    BY <1>5, <1>9, <2>2, <2>4
  <2> QED
    BY <2>1, <2>5
<1> QED
  BY <1>10 DEF h, F, D, Result, P, R

(***************************************************************************)
(* plan_lease, as the code runs it, returns the plan PlanLease says.       *)
(***************************************************************************)
LEMMA LoopPlan ==
  ASSUME NEW s \in SubState, NEW high \in 0..MaxCursor, NEW floor \in 0..MaxCursor,
         NEW max \in Nat
  PROVE  LoopPlanLease(s, high, floor, max) = PlanLease(s, high, floor, max)
<1> DEFINE base        == Larger(s.acked, floor)
           cap         == Smaller(max, MaxLeaseBatch)
           free        == {c \in Cursor : c > base /\ c <= high /\ Free(s, c)}
           deliverable == {c \in free : ~Poisoned(s, c)}
           scanned     == {c \in free :
                             Cardinality({d \in deliverable : d < c}) < cap}
           dead        == scanned \ deliverable
           F           == FreeUpTo(s, high)
           D           == DeliverableUpTo(s, high)
           found       == Scan(s, high)[base + 1][cap]
<1>1. s.acked \in 0..MaxCursor /\ s.dead \in SUBSET Cursor /\ s.acked_set \in SUBSET Cursor
  BY DEF SubState
<1>2. base \in 0..MaxCursor /\ base + 1 \in 1..(MaxCursor + 1)
  BY <1>1, MaxCursorAssumption DEF Larger
<1>3. cap \in 0..MaxLeaseBatch
  BY MaxLeaseBatchAssumption DEF Smaller
<1> HIDE DEF base, cap
<1>4. free = {c \in F : base + 1 <= c} /\ deliverable = {c \in D : base + 1 <= c}
  <2>1. \A c \in Cursor : c > base <=> base + 1 <= c
    BY <1>2 DEF Cursor
  <2> QED
    BY <2>1 DEF FreeUpTo, DeliverableUpTo
<1>5. \A c \in Cursor : {d \in deliverable : d < c} = Between(D, base + 1, c)
  BY <1>4 DEF Between
<1>6. scanned = Reached(F, D, base + 1, cap)
  <2>1. F \subseteq Cursor
    BY DEF FreeUpTo
  <2> HIDE DEF deliverable, F, D
  <2>2. scanned = {c \in free : Cardinality(Between(D, base + 1, c)) < cap}
    BY <1>4, <1>5, <2>1
  <2> HIDE DEF scanned, free
  <2> QED
    BY <1>4, <2>2 DEF Reached
<1>7. found = [leased |-> scanned \cap D, dead |-> scanned \ D]
  <2> HIDE DEF scanned
  <2> QED
    BY <1>2, <1>3, <1>6, ScanReaches, Zenon
<1>8. scanned \cap D = scanned \cap deliverable /\ scanned \ D = scanned \ deliverable
  BY <1>4
<1> HIDE DEF found, scanned, D
<1>9. found.leased = scanned \cap deliverable /\ found.dead = dead
  BY <1>7, <1>8
<1>10. Bridge(s.dead \cup s.acked_set \cup dead)[base]
         = RunEnd(base, s.dead \cup s.acked_set \cup dead)
  <2>1. s.dead \cup s.acked_set \cup dead \in SUBSET Cursor
    BY <1>1 DEF scanned
  <2> HIDE DEF dead
  <2> QED
    BY <1>2, <2>1, BridgeIsRunEnd
<1>11. LoopPlanLease(s, high, floor, max)
         = [ leased    |-> found.leased,
             dead      |-> found.dead,
             new_acked |-> Bridge(s.dead \cup s.acked_set \cup found.dead)[base],
             left      |-> Deadline(s.policy) ]
  BY Zenon DEF LoopPlanLease, found, base, cap
<1>12. PlanLease(s, high, floor, max)
         = [ leased    |-> scanned \cap deliverable,
             dead      |-> dead,
             new_acked |-> RunEnd(base, s.dead \cup s.acked_set \cup dead),
             left      |-> Deadline(s.policy) ]
  BY Zenon DEF PlanLease, base, cap, scanned
<1> HIDE DEF dead, deliverable
<1> QED
  BY <1>9, <1>10, <1>11, <1>12
==============================================================================
