------------------------ MODULE ControlChannelProofs ------------------------
(***************************************************************************)
(* Proofs about ControlChannel, for every value of its constants: behind   *)
(* the inbox, with lost replies, frames handled again and restarts, the    *)
(* registry keeps its invariants, what was acked stays settled, what is    *)
(* settled had reached a consumer, and no frame is handled again while the *)
(* token set should remember it.                                           *)
(***************************************************************************)
EXTENDS ControlChannel, SubRegistryProofs, DedupCacheProofs

(* Frames, and the worker's place and plan. *)
WorkerOK ==
  /\ sent \in Nat
  /\ ring \in [Token -> Request \cup {NoFrame}]
  /\ pc \in {"idle", "leasing", "routing", "replying"}
  /\ (pc = "leasing") <=> ~Idle
  /\ Idle => plan = NoPlan

(* Only what some reply has given a consumer is acked. *)
AcksWereReceived ==
  /\ received \in [Names -> SUBSET Cursor]
  /\ \A t \in Token : ring[t].op = "ack" => ring[t].cursor \in received[ring[t].name]

(* The histories that speak of a subscription, and of the one being leased. *)
HistoryTypes ==
  /\ ackedOk \in [Names -> SUBSET Cursor]
  /\ routed \in [Names -> [Cursor -> 0..2]]
  /\ \A n \in Names \ live : ackedOk[n] = {} /\ routed[n] = Unrouted

(* The dead letters of a committed lease are settled, and not routed yet. *)
RoutingIsDue == pc = "routing" =>
  /\ outcome.name \in live
  /\ outcome.dead \subseteq Settled(subs[outcome.name]) \cap Cursor
  /\ \A c \in outcome.dead : routed[outcome.name][c] = 0

(***************************************************************************)
(* The inductive invariant: the registry's own, and that neither history   *)
(* runs ahead of what is settled.  RoutingIsDue is what makes a second     *)
(* routing impossible: what a lease dead-letters was unsettled when it was *)
(* planned, and what was routed before is settled.                         *)
(***************************************************************************)
CInv ==
  /\ IInv
  /\ WorkerOK
  /\ AcksWereReceived
  /\ HistoryTypes
  /\ AckAnsweredStaysSettled
  /\ DeadLettersOnce
  /\ RoutingIsDue

------------------------------------------------------------------------------
(* The registry behind the channel *)

(* What a request holds. *)
LEMMA RequestFields ==
  ASSUME WorkerOK, NEW t \in Token
  PROVE  /\ ring[t].op = "create" => ring[t].name \in Names /\ ring[t].policy \in Policies
         /\ ring[t].op = "delete" => ring[t].name \in Names
         /\ ring[t].op = "pull" =>
              ring[t].name \in Names /\ ring[t].max_messages \in PullSizes
         /\ ring[t].op \in {"ack", "nack"} =>
              ring[t].name \in Names /\ ring[t].cursor \in Cursor
BY DEF WorkerOK, Request, NoFrame

(* The channel starts in a consistent registry. *)
LEMMA ChannelInitIInv == ChannelInit => IInv
<1> SUFFICES ASSUME ChannelInit
             PROVE  IInv
  OBVIOUS
<1>1. PICK p \in Policy : subs = [n \in Names |-> NewSubscription(p)]
  BY PoliciesAssumption DEF ChannelInit
<1>2. NewSubscription(p) \in SubState
  BY BlankType
<1>3. NoPlan \in Plan
  BY MaxCursorAssumption, MaxAckDeadlineAssumption DEF NoPlan, Plan
<1>4. NoDeliveries \in [Cursor -> Nat]
  BY DEF NoDeliveries
<1>5. TypeOK
  BY <1>1, <1>2, <1>3, <1>4, PublishedAssumption, MaxCursorAssumption
  DEF ChannelInit, TypeOK
<1>6. \A n \in live : Consistent(subs[n], deliveries[n], floor)
  BY <1>1, NewConsistent DEF ChannelInit
<1>7. PlanStillValid
  BY DEF ChannelInit, PlanStillValid, Idle, NoPlan
<1> QED
  BY <1>5, <1>6, <1>7 DEF IInv

(***************************************************************************)
(* Every step of the channel is a step of the registry or leaves it alone: *)
(* a restart with a plan in flight is a propose that failed.               *)
(***************************************************************************)
LEMMA ChannelStepIsRegistryStep ==
  ASSUME WorkerOK, [ChannelNext]_allVars
  PROVE  [Next]_vars
<1>1. ASSUME NEW t \in Token, ServeCreate(t) \/ ServeDelete(t) \/ ServeAck(t)
                                \/ ServeNack(t) \/ ServePull(t)
      PROVE  Control
  <2>1. ring[t].op = "ack" \/ ring[t].op = "nack" => ring[t].cursor \in 0..MaxCursor
    BY RequestFields DEF Cursor
  <2> QED
    BY <1>1, <2>1, RequestFields
    DEF Control, ServeCreate, ServeDelete, ServeAck, ServeNack, ServePull
<1>2. CASE LeaseCommits \/ LeaseFails
  BY <1>2 DEF LeaseCommits, LeaseFails, Next, Control
<1>3. CASE Restart
  <2>1. CASE Idle
    BY <1>3, <2>1 DEF Restart, WorkerOK, vars
  <2>2. CASE ~Idle
    BY <1>3, <2>2 DEF Restart, AbortLease, Next, Control
  <2> QED
    BY <2>1, <2>2
<1>4. CASE LogChanges
  BY <1>4 DEF LogChanges, Next
<1>5. CASE SecondPasses
  BY <1>5 DEF SecondPasses, Next
<1>6. ASSUME \/ UNCHANGED allVars
             \/ Consumer
             \/ Poll
             \/ \E t \in Token : SkipSeen(t) \/ ServeUnchanged(t)
             \/ \E R \in SUBSET Cursor : RouteDeadLetters(R)
             \/ ReplyArrives \/ ReplyLost
      PROVE  UNCHANGED vars
  BY <1>6
  DEF allVars, Consumer, SendCreate, SendDelete, SendPull, SendAck, SendNack, Send,
      Poll, SkipSeen, ServeUnchanged, RouteDeadLetters, ReplyArrives, ReplyLost
<1> QED
  BY <1>1, <1>2, <1>3, <1>4, <1>5, <1>6 DEF ChannelNext, Worker, Next

(***************************************************************************)
(* A settled message stays settled while its subscription exists: that is  *)
(* what AckLedger promises, and the registry implements it.                *)
(***************************************************************************)
LEMMA SettledGrows ==
  ASSUME IInv, [Next]_vars, NEW n \in live, n \in live'
  PROVE  Settled(subs[n]) \subseteq Settled(subs'[n])
<1>1. n \in Names /\ live \subseteq Names
  BY DEF IInv, TypeOK
<1>2. SettledBy[n] \subseteq SettledBy'[n]
  <2>1. [Ledger!LedgerNext]_(Ledger!ledgerVars)
    BY NextLedger
  <2>2. SettledBy = [m \in Names |-> SettledBy[m]]
    BY DEF SettledBy
  <2> QED
    BY <1>1, <2>1, <2>2
    DEF Ledger!LedgerNext, Ledger!ledgerVars, Ledger!Open, Ledger!Close,
        Ledger!Acknowledge, Ledger!HandOut, Ledger!Release, Ledger!Lapse,
        Ledger!Retire
<1> QED
  BY <1>1, <1>2 DEF SettledBy

------------------------------------------------------------------------------
(* The parts of the invariant *)

(* A consumer's step sends a request, and an ack only for what it was given. *)
LEMMA ConsumersSend ==
  ASSUME Consumer
  PROVE  \E r \in Request :
           Send(r) /\ (r.op = "ack" => r.cursor \in received[r.name])
<1>1. ASSUME NEW n \in Names, NEW p \in Policies, SendCreate(n, p)
      PROVE  \E r \in Request : Send(r) /\ r.op = "create"
  <2>1. [op |-> "create", name |-> n, policy |-> p] \in Request
    BY DEF Request
  <2> QED
    BY <1>1, <2>1 DEF SendCreate
<1>2. ASSUME NEW n \in Names, SendDelete(n)
      PROVE  \E r \in Request : Send(r) /\ r.op = "delete"
  <2>1. [op |-> "delete", name |-> n] \in Request
    BY DEF Request
  <2> QED
    BY <1>2, <2>1 DEF SendDelete
<1>3. ASSUME NEW n \in Names, NEW max \in PullSizes, SendPull(n, max)
      PROVE  \E r \in Request : Send(r) /\ r.op = "pull"
  <2>1. [op |-> "pull", name |-> n, max_messages |-> max] \in Request
    BY DEF Request
  <2> QED
    BY <1>3, <2>1 DEF SendPull
<1>4. ASSUME NEW n \in Names, NEW c \in Cursor, SendAck(n, c)
      PROVE  \E r \in Request : Send(r) /\ r.cursor \in received[r.name]
  <2>1. [op |-> "ack", name |-> n, cursor |-> c] \in Request
    BY DEF Request
  <2> QED
    BY <1>4, <2>1 DEF SendAck
<1>5. ASSUME NEW n \in Names, NEW c \in Cursor, SendNack(n, c)
      PROVE  \E r \in Request : Send(r) /\ r.op = "nack"
  <2>1. [op |-> "nack", name |-> n, cursor |-> c] \in Request
    BY DEF Request
  <2> QED
    BY <1>5, <2>1 DEF SendNack
<1> QED
  BY <1>1, <1>2, <1>3, <1>4, <1>5 DEF Consumer

(* Serving a frame leaves the ring alone. *)
LEMMA ServeKeepsRing ==
  ASSUME NEW t \in Token,
         \/ ServeCreate(t) \/ ServeDelete(t) \/ ServeAck(t) \/ ServeNack(t)
         \/ ServeUnchanged(t) \/ ServePull(t)
  PROVE  UNCHANGED <<ring, sent, received>>
BY DEF ServeCreate, ServeDelete, ServeAck, ServeNack, ServeUnchanged, ServePull, Takes

(* Frames and the worker's place: each step leaves the worker with a plan  *)
(* exactly while it is leasing.                                            *)
LEMMA WorkerStays ==
  ASSUME IInv, WorkerOK, [ChannelNext]_allVars
  PROVE  WorkerOK'
<1>1. ring' \in [Token -> Request \cup {NoFrame}] /\ sent' \in Nat
  <2>1. ASSUME NEW r \in Request, Send(r)
        PROVE  ring' \in [Token -> Request \cup {NoFrame}] /\ sent' \in Nat
    <3>1. sent' = sent + 1 /\ ring' = [ring EXCEPT ![sent + 1] = r]
      BY <2>1 DEF Send
    <3>2. sent \in Nat /\ ring \in [Token -> Request \cup {NoFrame}]
      BY DEF WorkerOK
    <3>3. sent' \in Nat
      BY <3>1, <3>2
    <3>4. r \in Request \cup {NoFrame}
      OBVIOUS
    <3>5. [ring EXCEPT ![sent + 1] = r] \in [Token -> Request \cup {NoFrame}]
      BY <3>2, <3>4, Zenon
    <3> QED
      BY <3>1, <3>3, <3>5, Zenon
  <2>2. CASE Consumer
    <3>1. \E r \in Request : Send(r)
      BY <2>2, ConsumersSend
    <3> QED
      BY <2>1, <3>1
  <2>3. CASE Poll
    BY <2>3 DEF Poll, WorkerOK
  <2>4. ASSUME NEW t \in Token,
               \/ ServeCreate(t) \/ ServeDelete(t) \/ ServeAck(t) \/ ServeNack(t)
               \/ ServeUnchanged(t) \/ ServePull(t)
        PROVE  UNCHANGED <<ring, sent>>
    BY <2>4, ServeKeepsRing
  <2>5. UNCHANGED <<ring, sent>> \/ Consumer \/ Poll
    BY <2>4
    DEF ChannelNext, Worker, Restart, LogChanges, SecondPasses, channel, allVars,
        SkipSeen, LeaseCommits, LeaseFails, RouteDeadLetters, ReplyArrives, ReplyLost
  <2> QED
    BY <2>2, <2>3, <2>5 DEF WorkerOK
<1>2. ASSUME UNCHANGED plan, pc' = pc \/ {pc, pc'} \subseteq {"idle", "routing", "replying"}
      PROVE  WorkerOK'
  BY <1>1, <1>2 DEF WorkerOK, Idle
<1>3. ASSUME plan' = NoPlan, pc' \in {"idle", "routing", "replying"}
      PROVE  WorkerOK'
  BY <1>1, <1>3 DEF WorkerOK, Idle, NoPlan
<1>4. ASSUME NEW t \in Token, ServePull(t)
      PROVE  WorkerOK'
  <2>1. ring[t].name \in Names
    BY <1>4, RequestFields DEF ServePull
  <2>2. plan'.name = ring[t].name /\ pc' = "leasing"
    BY <1>4 DEF ServePull, PlanLeaseRequest
  <2>3. ~Idle'
    BY <2>1, <2>2, NamesAssumption DEF Idle
  <2> QED
    BY <1>1, <2>2, <2>3 DEF WorkerOK
<1>5. CASE LeaseCommits \/ LeaseFails \/ Restart
  <2>1. plan' = NoPlan /\ pc' \in {"idle", "routing", "replying"}
    BY <1>5 DEF LeaseCommits, LeaseFails, Restart, CommitLease, AbortLease
  <2> QED
    BY <2>1, <1>3
<1>6. CASE SecondPasses
  <2>1. pc' = pc /\ plan' \in {plan, [plan EXCEPT !.left = Larger(plan.left - 1, 0)]}
    BY <1>6 DEF SecondPasses, Tick, vars
  <2>2. plan'.name = plan.name
    BY <2>1 DEF IInv, TypeOK, Plan
  <2>3. Idle => plan' = NoPlan
    BY <2>1 DEF WorkerOK, NoPlan, Larger
  <2> QED
    BY <1>1, <2>1, <2>2, <2>3 DEF WorkerOK, Idle
<1>7. ASSUME NEW t \in Token,
             ServeCreate(t) \/ ServeDelete(t) \/ ServeAck(t) \/ ServeNack(t)
      PROVE  WorkerOK'
  <2>1. UNCHANGED <<plan, pc>>
    BY <1>7 DEF ServeCreate, ServeDelete, ServeAck, ServeNack, CreateSubscription,
                DeleteSubscription, AckRequest, NackRequest
  <2> QED
    BY <2>1, <1>2
<1>8. ASSUME \/ UNCHANGED allVars
             \/ Consumer
             \/ LogChanges
             \/ Poll
             \/ \E t \in Token : SkipSeen(t) \/ ServeUnchanged(t)
             \/ \E R \in SUBSET Cursor : RouteDeadLetters(R)
             \/ ReplyArrives \/ ReplyLost
      PROVE  WorkerOK'
  <2>1. UNCHANGED plan /\ (pc' = pc \/ {pc, pc'} \subseteq {"idle", "routing", "replying"})
    BY <1>8
    DEF allVars, vars, Consumer, SendCreate, SendDelete, SendPull, SendAck, SendNack,
        Send, LogChanges, channel, Publish, PruneTo, Poll, SkipSeen, ServeUnchanged,
        RouteDeadLetters, ReplyArrives, ReplyLost
  <2> QED
    BY <2>1, <1>2
<1> QED
  BY <1>4, <1>5, <1>6, <1>7, <1>8 DEF ChannelNext, Worker

(* Received messages stay received, and acks are sent for nothing else. *)
LEMMA AcksStayReceived ==
  ASSUME IInv, WorkerOK, AcksWereReceived, [ChannelNext]_allVars
  PROVE  AcksWereReceived'
<1>1. \A t \in Token : ring[t].op = "ack" => ring[t].name \in Names
  BY RequestFields
<1>2. CASE Consumer
  <2>1. PICK r \in Request : Send(r) /\ (r.op = "ack" => r.cursor \in received[r.name])
    BY <1>2, ConsumersSend
  <2>2. received' = received /\ ring' = [ring EXCEPT ![sent + 1] = r]
    BY <2>1 DEF Send
  <2>3. \A t \in Token : ring'[t] = r \/ ring'[t] = ring[t]
    BY <2>2 DEF WorkerOK
  <2> QED
    BY <2>1, <2>2, <2>3 DEF AcksWereReceived
<1>3. CASE Poll
  <2>1. received' = received /\ \A t \in Token : ring'[t] = NoFrame \/ ring'[t] = ring[t]
    BY <1>3 DEF Poll
  <2>2. NoFrame.op # "ack"
    BY DEF NoFrame
  <2> QED
    BY <2>1, <2>2 DEF AcksWereReceived
<1>4. CASE ReplyArrives
  <2>1. Retained \subseteq Cursor
    BY MaxCursorAssumption DEF IInv, TypeOK, Retained, Cursor
  <2>2. /\ ring' = ring
        /\ received' = [received EXCEPT ![outcome.name] =
                          @ \cup (outcome.leased \cap Retained)]
    BY <1>4 DEF ReplyArrives
  <2>3. /\ received' \in [Names -> SUBSET Cursor]
        /\ \A n \in Names : received[n] \subseteq received'[n]
    BY <2>1, <2>2 DEF AcksWereReceived
  <2> QED
    BY <1>1, <2>2, <2>3 DEF AcksWereReceived
<1>5. ASSUME NEW t \in Token,
             \/ ServeCreate(t) \/ ServeDelete(t) \/ ServeAck(t) \/ ServeNack(t)
             \/ ServeUnchanged(t) \/ ServePull(t)
      PROVE  AcksWereReceived'
  BY <1>5, ServeKeepsRing DEF AcksWereReceived
<1>6. ASSUME \/ UNCHANGED allVars
             \/ \E t \in Token : SkipSeen(t)
             \/ LeaseCommits \/ LeaseFails
             \/ \E R \in SUBSET Cursor : RouteDeadLetters(R)
             \/ ReplyLost \/ Restart \/ LogChanges \/ SecondPasses
      PROVE  AcksWereReceived'
  <2>1. UNCHANGED <<ring, received>>
    BY <1>6 DEF allVars, channel, SkipSeen, LeaseCommits, LeaseFails, RouteDeadLetters,
                ReplyLost, Restart, LogChanges, SecondPasses
  <2> QED
    BY <2>1 DEF AcksWereReceived
<1> QED
  BY <1>2, <1>3, <1>4, <1>5, <1>6 DEF ChannelNext, Worker

(* What the channel remembers of its subscriptions. *)
Remembered == HistoryTypes /\ AckAnsweredStaysSettled /\ DeadLettersOnce

(***************************************************************************)
(* A step that answers no ack, routes nothing and deletes nothing: what    *)
(* was settled stays so.                                                   *)
(***************************************************************************)
LEMMA OtherStepsRemember ==
  ASSUME CInv, [Next]_vars, IInv', live \subseteq live',
         UNCHANGED <<ackedOk, routed>>
  PROVE  Remembered'
<1>1. \A n \in live : Settled(subs[n]) \subseteq Settled(subs'[n])
  BY SettledGrows DEF CInv
<1>2. live' \subseteq Names
  BY DEF IInv, TypeOK
<1>3. \A n \in live' \ live : ackedOk[n] = {} /\ routed[n] = Unrouted
  BY <1>2 DEF CInv, HistoryTypes
<1>4. HistoryTypes'
  BY DEF CInv, HistoryTypes
<1>5. AckAnsweredStaysSettled'
  BY <1>1, <1>3 DEF CInv, AckAnsweredStaysSettled
<1>6. DeadLettersOnce'
  <2>1. ASSUME NEW n \in live', NEW c \in Cursor
        PROVE  routed[n][c] <= 1 /\ (routed[n][c] = 1 => c \in Settled(subs'[n]))
    <3>1. CASE n \in live
      BY <1>1, <3>1 DEF CInv, DeadLettersOnce
    <3>2. CASE n \notin live
      BY <1>3, <3>2 DEF Unrouted
    <3> QED
      BY <3>1, <3>2
  <2> QED
    BY <2>1 DEF DeadLettersOnce
<1> QED
  BY <1>4, <1>5, <1>6 DEF Remembered

(* An ack that is answered Ok has settled its message. *)
LEMMA AckRemembers ==
  ASSUME CInv, [Next]_vars, NEW t \in Token, ServeAck(t)
  PROVE  Remembered'
<1> DEFINE n == ring[t].name
           c == ring[t].cursor
<1>1. /\ n \in Names
      /\ c \in Cursor
      /\ AckRequest(n, c)
      /\ ackedOk' = [ackedOk EXCEPT ![n] = @ \cup {c}]
      /\ UNCHANGED routed
  BY RequestFields DEF ServeAck, CInv
<1> HIDE DEF n, c
<1>3. /\ live' = live
      /\ n \in live
      /\ subs' = [subs EXCEPT ![n] = Ack(subs[n], c)]
  BY <1>1 DEF AckRequest
<1>4. \A m \in live : Settled(subs[m]) \subseteq Settled(subs'[m])
  BY <1>3, SettledGrows DEF CInv
<1>5. c \in Settled(subs'[n])
  <2>1. /\ subs[n] \in SubState
        /\ FloorInOrder(subs[n])
        /\ subs'[n] = Ack(subs[n], c)
        /\ c \in 0..MaxCursor
    BY <1>1, <1>3 DEF CInv, IInv, TypeOK, Consistent, Cursor
  <2>2. Settled(Ack(subs[n], c)) = Settled(subs[n]) \cup ({c} \cap Cursor)
    BY <2>1, AckProperty DEF FloorInOrder
  <2> QED
    BY <1>1, <2>1, <2>2
<1>6. HistoryTypes'
  <2>1. ackedOk' \in [Names -> SUBSET Cursor]
    BY <1>1 DEF CInv, HistoryTypes
  <2>2. \A m \in Names \ live : ackedOk'[m] = {}
    BY <1>1, <1>3 DEF CInv, HistoryTypes
  <2> QED
    BY <1>1, <1>3, <2>1, <2>2 DEF CInv, HistoryTypes
<1>7. AckAnsweredStaysSettled'
  <2>1. live \subseteq Names
    BY DEF CInv, IInv, TypeOK
  <2>2. \A m \in live : ackedOk'[m] \subseteq ackedOk[m] \cup (IF m = n THEN {c} ELSE {})
    BY <1>1, <2>1 DEF CInv, HistoryTypes
  <2> QED
    BY <1>3, <1>4, <1>5, <2>2 DEF CInv, AckAnsweredStaysSettled
<1>8. DeadLettersOnce'
  BY <1>1, <1>3, <1>4 DEF CInv, DeadLettersOnce
<1> QED
  BY <1>6, <1>7, <1>8 DEF Remembered

(* A deleted subscription takes its histories along. *)
LEMMA DeleteRemembers ==
  ASSUME CInv, [Next]_vars, NEW t \in Token, ServeDelete(t)
  PROVE  Remembered'
<1> DEFINE n == ring[t].name
<1>1. /\ n \in Names
      /\ live' = live \ {n}
      /\ ackedOk' = [ackedOk EXCEPT ![n] = {}]
      /\ routed' = [routed EXCEPT ![n] = Unrouted]
  BY RequestFields DEF ServeDelete, DeleteSubscription, CInv
<1> HIDE DEF n
<1>2. Unrouted \in [Cursor -> 0..2]
  BY DEF Unrouted
<1>3. live \subseteq Names
  BY DEF CInv, IInv, TypeOK
<1>4. /\ ackedOk'[n] = {}
      /\ routed'[n] = Unrouted
      /\ \A m \in Names \ {n} : ackedOk'[m] = ackedOk[m] /\ routed'[m] = routed[m]
  BY <1>1 DEF CInv, HistoryTypes
<1>5. HistoryTypes'
  <2>1. ackedOk' \in [Names -> SUBSET Cursor] /\ routed' \in [Names -> [Cursor -> 0..2]]
    BY <1>1, <1>2 DEF CInv, HistoryTypes
  <2> QED
    BY <1>1, <1>4, <2>1 DEF CInv, HistoryTypes
<1>6. \A m \in live' : m \in live /\ Settled(subs[m]) \subseteq Settled(subs'[m])
  BY <1>1, SettledGrows DEF CInv
<1>7. AckAnsweredStaysSettled'
  BY <1>1, <1>3, <1>4, <1>6 DEF CInv, AckAnsweredStaysSettled
<1>8. DeadLettersOnce'
  BY <1>1, <1>3, <1>4, <1>6 DEF CInv, DeadLettersOnce
<1> QED
  BY <1>5, <1>7, <1>8 DEF Remembered

(* What is routed was due, and is routed once. *)
LEMMA RoutingRemembers ==
  ASSUME CInv, NEW R \in SUBSET Cursor, RouteDeadLetters(R)
  PROVE  Remembered'
<1> DEFINE n == outcome.name
<1>1. /\ n \in live
      /\ R \subseteq Settled(subs[n])
      /\ \A c \in R : routed[n][c] = 0
      /\ UNCHANGED <<live, subs, ackedOk>>
  BY DEF RouteDeadLetters, CInv, RoutingIsDue, vars
<1>2. routed' = [routed EXCEPT ![n] = [c \in Cursor |-> IF c \in R
                                         THEN Smaller(routed[n][c] + 1, 2)
                                         ELSE routed[n][c]]]
  BY DEF RouteDeadLetters, RoutedNow
<1> HIDE DEF n
<1>3. n \in Names /\ live \subseteq Names
  BY <1>1 DEF CInv, IInv, TypeOK
<1>4. /\ \A c \in Cursor : routed'[n][c] = IF c \in R THEN 1 ELSE routed[n][c]
      /\ \A m \in Names \ {n} : routed'[m] = routed[m]
      /\ routed' \in [Names -> [Cursor -> 0..2]]
  <2> DEFINE f == [c \in Cursor |-> IF c \in R THEN Smaller(routed[n][c] + 1, 2)
                                   ELSE routed[n][c]]
  <2>1. \A c \in Cursor : f[c] = IF c \in R THEN 1 ELSE routed[n][c]
    BY <1>1 DEF Smaller
  <2>2. f \in [Cursor -> 0..2]
    BY <1>3, <2>1 DEF CInv, HistoryTypes
  <2> HIDE DEF f
  <2>3. routed' = [routed EXCEPT ![n] = f]
    BY <1>2 DEF f
  <2> QED
    BY <1>3, <2>1, <2>2, <2>3 DEF CInv, HistoryTypes
<1>5. HistoryTypes'
  BY <1>1, <1>4 DEF CInv, HistoryTypes
<1>6. AckAnsweredStaysSettled'
  BY <1>1 DEF CInv, AckAnsweredStaysSettled
<1>7. DeadLettersOnce'
  <2>1. ASSUME NEW m \in live, NEW c \in Cursor
        PROVE  routed'[m][c] <= 1 /\ (routed'[m][c] = 1 => c \in Settled(subs[m]))
    <3>1. CASE m = n
      BY <1>1, <1>4, <3>1 DEF CInv, DeadLettersOnce
    <3>2. CASE m # n
      BY <1>3, <1>4, <3>2 DEF CInv, DeadLettersOnce
    <3> QED
      BY <3>1, <3>2
  <2> QED
    BY <1>1, <2>1 DEF DeadLettersOnce
<1> QED
  BY <1>5, <1>6, <1>7 DEF Remembered

(***************************************************************************)
(* The dead letters of a commit were unsettled until then, so none of them *)
(* has been routed; while the worker routes them they stay settled.        *)
(***************************************************************************)
LEMMA RoutingStaysDue ==
  ASSUME CInv, [ChannelNext]_allVars, [Next]_vars
  PROVE  RoutingIsDue'
<1>1. CASE LeaseCommits
  <2> DEFINE n == plan.name
  <2>1. /\ CommitLease
        /\ outcome'.name = n
        /\ outcome'.dead = plan.dead
        /\ UNCHANGED <<live, routed>>
    BY <1>1 DEF LeaseCommits, CommitLease
  <2>2. /\ n \in live
        /\ plan.dead \subseteq Cursor
        /\ \A c \in plan.dead : c \notin Settled(subs[n])
    BY <2>1 DEF CommitLease, CInv, IInv, PlanStillValid, Suits, TypeOK, Plan
  <2>3. Settled(subs'[n]) = Settled(subs[n]) \cup plan.dead \cup (1..plan.floor)
    BY <2>1, CommitSettles DEF CInv
  <2> HIDE DEF n
  <2>4. n \in Names
    BY <2>2 DEF CInv, IInv, TypeOK
  <2>5. \A c \in plan.dead : routed[n][c] = 0
    BY <2>2, <2>4 DEF CInv, HistoryTypes, DeadLettersOnce
  <2> QED
    BY <2>1, <2>2, <2>3, <2>5 DEF RoutingIsDue
<1>2. ASSUME pc' # "routing"
      PROVE  RoutingIsDue'
  BY <1>2 DEF RoutingIsDue
<1>3. ASSUME UNCHANGED <<pc, outcome, routed, live>>
      PROVE  RoutingIsDue'
  BY <1>3, SettledGrows DEF CInv, RoutingIsDue
<1>4. ASSUME \/ UNCHANGED allVars
             \/ LogChanges
             \/ SecondPasses
      PROVE  UNCHANGED <<pc, outcome, routed, live>>
  BY <1>4 DEF allVars, channel, LogChanges, SecondPasses, Publish, PruneTo, Tick, vars
<1>5. ASSUME NEW t \in Token,
             \/ SkipSeen(t)
             \/ ServeCreate(t) \/ ServeDelete(t) \/ ServeAck(t) \/ ServeNack(t)
             \/ ServeUnchanged(t) \/ ServePull(t)
      PROVE  pc' # "routing"
  BY <1>5 DEF SkipSeen, ServeCreate, ServeDelete, ServeAck, ServeNack, ServeUnchanged,
              ServePull, Takes, AtHand
<1>6. ASSUME \/ Consumer
             \/ Poll
             \/ LeaseFails
             \/ \E R \in SUBSET Cursor : RouteDeadLetters(R)
             \/ ReplyArrives \/ ReplyLost \/ Restart
      PROVE  pc' # "routing"
  <2>1. CASE Consumer
    <3>1. PICK r \in Request : Send(r)
      BY <2>1, ConsumersSend
    <3> QED
      BY <3>1 DEF Send
  <2> QED
    BY <1>6, <2>1 DEF Poll, LeaseFails, RouteDeadLetters, ReplyArrives, ReplyLost, Restart
<1> QED
  BY <1>1, <1>2, <1>3, <1>4, <1>5, <1>6 DEF ChannelNext, Worker

------------------------------------------------------------------------------
(* The invariant is inductive *)

(* The invariant holds when the owner starts. *)
LEMMA ChannelInitCInv == ChannelInit => CInv
<1> SUFFICES ASSUME ChannelInit
             PROVE  CInv
  OBVIOUS
<1>1. WorkerOK
  BY DEF ChannelInit, WorkerOK, Idle, NoPlan
<1>2. AcksWereReceived
  BY DEF ChannelInit, AcksWereReceived, NoFrame
<1>3. Unrouted \in [Cursor -> 0..2] /\ \A c \in Cursor : Unrouted[c] = 0
  BY DEF Unrouted
<1>4. HistoryTypes /\ AckAnsweredStaysSettled /\ DeadLettersOnce /\ RoutingIsDue
  BY <1>3 DEF ChannelInit, HistoryTypes, AckAnsweredStaysSettled, DeadLettersOnce,
              RoutingIsDue
<1> QED
  BY <1>1, <1>2, <1>4, ChannelInitIInv DEF CInv

(* Every step of the channel keeps the invariant. *)
LEMMA ChannelNextCInv == CInv /\ [ChannelNext]_allVars => CInv'
<1> SUFFICES ASSUME CInv, [ChannelNext]_allVars
             PROVE  CInv'
  OBVIOUS
<1>1. [Next]_vars
  BY ChannelStepIsRegistryStep DEF CInv
<1>2. IInv'
  BY <1>1, NextIInv DEF CInv
<1>3. WorkerOK' /\ AcksWereReceived' /\ RoutingIsDue'
  BY <1>1, WorkerStays, AcksStayReceived, RoutingStaysDue DEF CInv
<1>4. Remembered'
  <2>1. ASSUME UNCHANGED <<live, ackedOk, routed>>
        PROVE  Remembered'
    BY <1>1, <1>2, <2>1, OtherStepsRemember
  <2>2. ASSUME NEW t \in Token, ServeCreate(t)
        PROVE  Remembered'
    <3>1. live \subseteq live' /\ UNCHANGED <<ackedOk, routed>>
      BY <2>2 DEF ServeCreate, CreateSubscription
    <3> QED
      BY <1>1, <1>2, <3>1, OtherStepsRemember
  <2>3. ASSUME NEW t \in Token, ServeNack(t) \/ ServeUnchanged(t) \/ ServePull(t)
                                  \/ SkipSeen(t)
        PROVE  UNCHANGED <<live, ackedOk, routed>>
    BY <2>3 DEF ServeNack, ServeUnchanged, ServePull, SkipSeen, NackRequest,
                PlanLeaseRequest, vars
  <2>4. CASE Consumer
    <3>1. PICK r \in Request : Send(r)
      BY <2>4, ConsumersSend
    <3> QED
      BY <3>1, <2>1 DEF Send, vars
  <2>5. ASSUME \/ UNCHANGED allVars
               \/ Poll \/ LeaseCommits \/ LeaseFails \/ ReplyArrives \/ ReplyLost
               \/ Restart \/ LogChanges \/ SecondPasses
        PROVE  UNCHANGED <<live, ackedOk, routed>>
    BY <2>5 DEF allVars, vars, channel, Poll, LeaseCommits, LeaseFails, ReplyArrives,
                ReplyLost, Restart, LogChanges, SecondPasses, CommitLease, AbortLease,
                Publish, PruneTo, Tick
  <2> QED
    BY <1>1, <2>1, <2>2, <2>3, <2>4, <2>5, AckRemembers, DeleteRemembers,
       RoutingRemembers
    DEF ChannelNext, Worker
<1> QED
  BY <1>2, <1>3, <1>4 DEF CInv, Remembered

------------------------------------------------------------------------------
(* Theorems *)

(***************************************************************************)
(* Behind the inbox the registry does nothing SubRegistry does not do, and *)
(* keeps its invariants: frames handled again, failed proposes and         *)
(* restarts with a plan in flight included.                                *)
(***************************************************************************)
THEOREM RegistryBehindChannel ==
  ChannelSpec => /\ [](FloorMaximal /\ LeasedIsUnsettled /\ AttemptsCountDeliveries)
                 /\ [](TypeOK /\ PlanStillValid)
                 /\ [][Next]_vars
<1>1. CInv /\ [ChannelNext]_allVars => [Next]_vars
  BY ChannelStepIsRegistryStep DEF CInv
<1>2. CInv => /\ FloorMaximal /\ LeasedIsUnsettled /\ AttemptsCountDeliveries
              /\ TypeOK /\ PlanStillValid
  BY DEF CInv, IInv, Consistent, FloorMaximal, LeasedIsUnsettled,
         AttemptsCountDeliveries
<1> QED
  BY <1>1, <1>2, ChannelInitCInv, ChannelNextCInv, PTL DEF ChannelSpec

(***************************************************************************)
(* An ack that was answered Ok is never undone while the subscription      *)
(* exists, by old frames, late requests or restarts.                       *)
(***************************************************************************)
THEOREM AcksAreForGood == ChannelSpec => []AckAnsweredStaysSettled
<1>1. CInv => AckAnsweredStaysSettled
  BY DEF CInv
<1> QED
  BY <1>1, ChannelInitCInv, ChannelNextCInv, PTL DEF ChannelSpec

(***************************************************************************)
(* route_dead_letters sends a message of a subscription at most once, and  *)
(* only one that is settled.                                               *)
(***************************************************************************)
THEOREM DeadLettersGoOnce == ChannelSpec => []DeadLettersOnce
<1>1. CInv => DeadLettersOnce
  BY DEF CInv
<1> QED
  BY <1>1, ChannelInitCInv, ChannelNextCInv, PTL DEF ChannelSpec

(***************************************************************************)
(* What a subscription gives up had reached a consumer in a reply, was     *)
(* pruned, or was handed out as often as the policy allowed.               *)
(***************************************************************************)
THEOREM NothingIsLostOnTheWay == ChannelSpec => SettledWasReceived
<1> DEFINE GivenUp(n, c) ==
             LET max == subs[n].policy.max_delivery_attempts
             IN \/ c \in received[n]
                \/ c <= floor
                \/ max # 0 /\ deliveries[n][c] >= max
<1>1. ASSUME CInv, [ChannelNext]_allVars, NEW n \in live, n \in live',
             NEW c \in Settled(subs'[n]) \ Settled(subs[n])
      PROVE  GivenUp(n, c)
  <2>1. subs[n] \in SubState /\ FloorInOrder(subs[n]) /\ n \in Names
    BY <1>1 DEF CInv, IInv, TypeOK, Consistent
  <2>2. ASSUME Settled(subs'[n]) = Settled(subs[n])
        PROVE  FALSE
    BY <1>1, <2>2
  <2>3. CASE LeaseCommits
    <3>1. CommitLease /\ plan.name \in Names
      BY <1>1, <2>3 DEF LeaseCommits, CInv, IInv, PlanStillValid, CommitLease, TypeOK
    <3>2. n = plan.name
      BY <2>1, <2>2, <3>1 DEF CommitLease
    <3> QED
      BY <1>1, <3>1, <3>2, CommitSetsAside DEF CInv
  <2>4. ASSUME NEW t \in Token, ServeAck(t)
        PROVE  c \in received[n]
    <3> DEFINE m == ring[t].name
               d == ring[t].cursor
    <3>1. /\ m \in Names
          /\ d \in 0..MaxCursor
          /\ subs' = [subs EXCEPT ![m] = Ack(subs[m], d)]
          /\ d \in received[m]
      BY <1>1, <2>4, RequestFields
      DEF ServeAck, AckRequest, CInv, AcksWereReceived, Cursor
    <3> HIDE DEF m, d
    <3>2. n = m
      BY <2>1, <2>2, <3>1
    <3>3. subs'[n] = Ack(subs[n], d)
      BY <1>1, <2>1, <3>1, <3>2 DEF CInv, IInv, TypeOK
    <3>4. Settled(Ack(subs[n], d)) = Settled(subs[n]) \cup ({d} \cap Cursor)
      BY <2>1, <3>1, AckProperty DEF FloorInOrder
    <3> QED
      BY <1>1, <3>1, <3>2, <3>3, <3>4
  <2>5. ASSUME NEW t \in Token, ServeNack(t)
        PROVE  FALSE
    <3> DEFINE m == ring[t].name
               d == ring[t].cursor
    <3>1. /\ m \in Names
          /\ d \in 0..MaxCursor
          /\ subs' = [subs EXCEPT ![m] = Nack(subs[m], d)]
      BY <1>1, <2>5, RequestFields DEF ServeNack, NackRequest, CInv, Cursor
    <3> HIDE DEF m, d
    <3>2. subs'[n] = subs[n] \/ subs'[n] = Nack(subs[n], d)
      BY <1>1, <2>1, <3>1 DEF CInv, IInv, TypeOK
    <3>3. Settled(Nack(subs[n], d)) = Settled(subs[n])
      BY <2>1, <3>1, NackProperty DEF Settled
    <3> QED
      BY <2>2, <3>2, <3>3
  <2>6. ASSUME NEW t \in Token, ServeCreate(t) \/ ServeDelete(t)
        PROVE  FALSE
    <3> DEFINE m == ring[t].name
    <3>1. subs'[n] = subs[n] \/ subs'[n] = [subs[n] EXCEPT !.policy = ring[t].policy]
      BY <1>1, <2>1, <2>6
      DEF ServeCreate, ServeDelete, CreateSubscription, DeleteSubscription, CInv,
          IInv, TypeOK
    <3>2. Settled([subs[n] EXCEPT !.policy = ring[t].policy]) = Settled(subs[n])
      BY <2>1 DEF Settled, SubState
    <3> QED
      BY <2>2, <3>1, <3>2
  <2>7. ASSUME Tick
        PROVE  FALSE
    BY <2>1, <2>2, <2>7, ElapseProperty DEF Tick, Settled
  <2>8. ASSUME UNCHANGED subs
        PROVE  FALSE
    BY <2>2, <2>8
  <2>9. CASE Consumer
    <3>1. PICK r \in Request : Send(r)
      BY <2>9, ConsumersSend
    <3> QED
      BY <3>1, <2>8 DEF Send, vars
  <2>10. ASSUME \/ UNCHANGED allVars
                \/ Poll \/ LeaseFails \/ ReplyArrives \/ ReplyLost \/ Restart
                \/ LogChanges
                \/ \E R \in SUBSET Cursor : RouteDeadLetters(R)
                \/ \E t \in Token : ServeUnchanged(t) \/ ServePull(t) \/ SkipSeen(t)
         PROVE  UNCHANGED subs
    BY <2>10
    DEF allVars, vars, Poll, LeaseFails, ReplyArrives, ReplyLost, Restart, LogChanges,
        RouteDeadLetters, ServeUnchanged, ServePull, SkipSeen, AbortLease, Publish,
        PruneTo, PlanLeaseRequest
  <2>11. SecondPasses => Tick \/ UNCHANGED subs
    BY DEF SecondPasses, vars
  <2> QED
    BY <1>1, <2>3, <2>4, <2>5, <2>6, <2>7, <2>8, <2>9, <2>10, <2>11
    DEF ChannelNext, Worker
<1>2. CInv /\ [ChannelNext]_allVars =>
        [\A n \in live \cap live' : \A c \in Settled(subs'[n]) \ Settled(subs[n]) :
           LET max == subs[n].policy.max_delivery_attempts
           IN \/ c \in received[n]
              \/ c <= floor
              \/ max # 0 /\ deliveries[n][c] >= max]_allVars
  BY <1>1
<1> QED
  BY <1>2, ChannelInitCInv, ChannelNextCInv, PTL DEF ChannelSpec, SettledWasReceived

------------------------------------------------------------------------------
(* The frames and the token set *)

(* How many slots a frame has, in the queue or among the last handled. *)
Count(seq, t) == Cardinality(Slots(seq, t))

(* Both end with the same frames. *)
TailsAgree(a, b) == \A d \in Nat :
  d < Len(a) /\ d < Len(b) => a[Len(a) - d] = b[Len(b) - d]

(***************************************************************************)
(* A frame has at most k slots when its time to live has begun as often,   *)
(* and fewer when the token set has forgotten it: a slot was evicted.      *)
(***************************************************************************)
Fits(k, t) ==
  /\ k <= taken.windows[t]
  /\ t \notin seen.keys /\ taken.windows[t] # 0 => k < taken.windows[t]

(* Above Capacity the windows of a frame are not counted any further. *)
QueueFits == \A t \in Token :
  taken.windows[t] <= Capacity => Fits(Count(seen.order, t), t)

RecentFits == \A t \in Token : Fits(Count(taken.recent, t), t)

TakenType ==
  /\ taken \in [recent : Seq(Token), windows : [Token -> 0..(Capacity + 1)]]
  /\ Len(taken.recent) <= Capacity

(* Frames are numbered as they are sent. *)
RingOK ==
  /\ sent \in Nat
  /\ ring \in [Token -> Request \cup {NoFrame}]
  /\ batch \subseteq InRing
  /\ InRing \subseteq 1..sent

(***************************************************************************)
(* The inductive invariant of the token set.  The queue ends with the last *)
(* frames handled, so when a slot is evicted that has a whole capacity of  *)
(* slots behind it, the frames handled last are all in what is left of the *)
(* queue, where the evicted frame has one slot less.                       *)
(***************************************************************************)
SetInv ==
  /\ seen \in CacheOf(Token)
  /\ WithinCapacity(seen)
  /\ TakenType
  /\ TailsAgree(seen.order, taken.recent)
  /\ QueueFits
  /\ RecentFits

FrameInv == RingOK /\ SetInv

(* A set that a shift takes into another is no larger. *)
LEMMA ShiftedSet ==
  ASSUME NEW s \in Int, NEW A, NEW B, A \subseteq Int, IsFiniteSet(B),
         \A i \in A : i + s \in B
  PROVE  Cardinality(A) <= Cardinality(B)
<1> DEFINE f == [i \in A |-> i + s]
<1>1. f \in Injection(A, B)
  BY DEF Injection, IsInjective
<1> HIDE DEF f
<1> QED
  BY <1>1, FS_Injection

(* The slots of a frame are finitely many. *)
LEMMA SlotsAreFinite ==
  ASSUME NEW S, NEW a \in Seq(S), NEW t
  PROVE  /\ Slots(a, t) \subseteq 1..Len(a) /\ Slots(a, t) \subseteq Int
         /\ IsFiniteSet(Slots(a, t))
         /\ Count(a, t) \in Nat /\ Count(a, t) <= Len(a)
<1>1. Len(a) \in Nat /\ DOMAIN a = 1..Len(a)
  OBVIOUS
<1>2. IsFiniteSet(1..Len(a)) /\ Cardinality(1..Len(a)) = Len(a)
  BY <1>1, FS_Interval
<1>3. Slots(a, t) \subseteq 1..Len(a)
  BY <1>1 DEF Slots
<1>4. IsFiniteSet(Slots(a, t)) /\ Cardinality(Slots(a, t)) <= Len(a)
  BY <1>2, <1>3, FS_Subset
<1> QED
  BY <1>1, <1>3, <1>4, FS_CardinalityType DEF Count

(***************************************************************************)
(* A sequence that loses its first n entries and gains t at its end: t has *)
(* at most one slot more, nobody else more, and the n-th entry one less.   *)
(***************************************************************************)
LEMMA SlotsAfterAppend ==
  ASSUME NEW S, NEW a \in Seq(S), NEW b \in Seq(S), NEW t, NEW n \in 0..Len(a),
         Len(b) = Len(a) - n + 1, b[Len(b)] = t,
         \A i \in 1..(Len(a) - n) : b[i] = a[n + i]
  PROVE  /\ Count(b, t) <= Count(a, t) + 1
         /\ \A u : u # t => Count(b, u) <= Count(a, u)
         /\ \A u : u # t /\ n # 0 /\ u = a[n] => Count(b, u) < Count(a, u)
<1> DEFINE la == Len(a)
           lb == Len(b)
<1>1. /\ la \in Nat /\ lb \in Nat /\ DOMAIN a = 1..la /\ DOMAIN b = 1..lb
      /\ lb = la - n + 1 /\ n \in Int /\ 0 <= n /\ n <= la
      /\ b[lb] = t /\ \A i \in 1..(la - n) : b[i] = a[n + i]
  OBVIOUS
<1> HIDE DEF la, lb
<1>2. ASSUME NEW u, NEW i \in Slots(b, u), i # lb
      PROVE  i + n \in Slots(a, u) /\ i + n > n
  <2>1. i \in 1..lb /\ b[i] = u
    BY <1>1, <1>2 DEF Slots
  <2>2. i \in 1..(la - n) /\ i + n \in 1..la /\ n + i = i + n /\ i + n > n
    BY <1>1, <1>2, <2>1
  <2>3. a[i + n] = u
    BY <1>1, <2>1, <2>2
  <2> QED
    BY <1>1, <2>2, <2>3 DEF Slots
<1>3. ASSUME NEW u, u # t  PROVE lb \notin Slots(b, u)
  BY <1>1, <1>3 DEF Slots
<1>4. \A u : /\ Slots(a, u) \subseteq Int /\ IsFiniteSet(Slots(a, u)) /\ Count(a, u) \in Nat
             /\ Slots(b, u) \subseteq Int /\ IsFiniteSet(Slots(b, u)) /\ Count(b, u) \in Nat
  BY SlotsAreFinite
<1>5. Count(b, t) <= Count(a, t) + 1
  <2> DEFINE B == Slots(b, t) \ {lb}
  <2>1. lb \in Slots(b, t)
    BY <1>1 DEF Slots
  <2>2. Cardinality(B) = Count(b, t) - 1
    BY <1>4, <2>1, FS_RemoveElement DEF Count
  <2>3. B \subseteq Int /\ \A i \in B : i + n \in Slots(a, t)
    BY <1>2, <1>4
  <2> HIDE DEF B
  <2>4. IsFiniteSet(Slots(a, t))
    BY <1>4
  <2>5. Cardinality(B) <= Cardinality(Slots(a, t))
    BY <1>1, <2>3, <2>4, ShiftedSet
  <2> QED
    BY <1>4, <2>2, <2>5 DEF Count
<1>6. ASSUME NEW u, u # t  PROVE Count(b, u) <= Count(a, u)
  <2>1. \A i \in Slots(b, u) : i + n \in Slots(a, u)
    BY <1>2, <1>3, <1>6
  <2>2. Slots(b, u) \subseteq Int /\ IsFiniteSet(Slots(a, u))
    BY <1>4
  <2>3. Cardinality(Slots(b, u)) <= Cardinality(Slots(a, u))
    BY <1>1, <2>1, <2>2, ShiftedSet
  <2> QED
    BY <2>3 DEF Count
<1>7. ASSUME NEW u, u # t, n # 0, u = a[n]  PROVE Count(b, u) < Count(a, u)
  <2> DEFINE A == Slots(a, u) \ {n}
  <2>1. n \in Slots(a, u)
    BY <1>1, <1>7 DEF Slots
  <2>2. Cardinality(A) = Count(a, u) - 1 /\ IsFiniteSet(A)
    BY <1>4, <2>1, FS_RemoveElement DEF Count
  <2>3. \A i \in Slots(b, u) : i + n \in A
    BY <1>2, <1>3, <1>7
  <2> HIDE DEF A
  <2>4. Slots(b, u) \subseteq Int
    BY <1>4
  <2>5. Cardinality(Slots(b, u)) <= Cardinality(A)
    BY <1>1, <2>2, <2>3, <2>4, ShiftedSet
  <2> QED
    BY <1>4, <2>2, <2>5 DEF Count
<1> QED
  BY <1>5, <1>6, <1>7

(* The end of a sequence has no more slots than the whole. *)
LEMMA SlotsOfATail ==
  ASSUME NEW S, NEW a \in Seq(S), NEW b \in Seq(S), Len(b) <= Len(a), TailsAgree(a, b),
         NEW u
  PROVE  Count(b, u) <= Count(a, u)
<1> DEFINE s == Len(a) - Len(b)
<1>1. /\ Len(a) \in Nat /\ Len(b) \in Nat /\ s \in Nat
      /\ DOMAIN a = 1..Len(a) /\ DOMAIN b = 1..Len(b)
  OBVIOUS
<1>2. ASSUME NEW i \in Slots(b, u)  PROVE i + s \in Slots(a, u)
  <2>1. i \in 1..Len(b) /\ b[i] = u
    BY <1>1 DEF Slots
  <2>2. Len(b) - i \in Nat /\ Len(b) - i < Len(b) /\ Len(b) - i < Len(a)
    BY <1>1, <2>1
  <2>3. a[Len(a) - (Len(b) - i)] = b[Len(b) - (Len(b) - i)]
    BY <2>2 DEF TailsAgree
  <2>4. Len(a) - (Len(b) - i) = i + s /\ Len(b) - (Len(b) - i) = i /\ i + s \in 1..Len(a)
    BY <1>1, <2>1
  <2> QED
    BY <1>1, <2>1, <2>3, <2>4 DEF Slots
<1>3. Slots(b, u) \subseteq Int /\ IsFiniteSet(Slots(a, u))
  BY SlotsAreFinite
<1>4. s \in Int
  BY <1>1
<1> HIDE DEF s
<1>5. Cardinality(Slots(b, u)) <= Cardinality(Slots(a, u))
  BY <1>2, <1>3, <1>4, ShiftedSet
<1> QED
  BY <1>5 DEF Count

(* Nothing has a slot in an empty sequence. *)
LEMMA NoSlots == \A t : Count(<<>>, t) = 0
<1>1. \A t : Slots(<<>>, t) = {}
  BY DEF Slots
<1> QED
  BY <1>1, FS_EmptySet DEF Count

(* A fresh token set remembers nothing. *)
LEMMA EmptyCacheFits ==
  /\ EmptyCache(Token) \in CacheOf(Token)
  /\ WithinCapacity(EmptyCache(Token))
  /\ EmptyCache(Token).order = <<>>
<1> DEFINE age == [k \in Token |-> 0]
<1>1. age \in [Token -> Ages]
  BY CacheAssumption DEF Ages
<1>2. EmptyCache(Token) = [keys |-> {}, age |-> age, order |-> <<>>]
  BY DEF EmptyCache
<1> HIDE DEF age
<1>3. IsFiniteSet({}) /\ Cardinality({}) = 0
  BY FS_EmptySet
<1>4. Cardinality({}) <= Capacity
  BY <1>3, CacheAssumption
<1> QED
  BY <1>1, <1>2, <1>3, <1>4 DEF CacheOf, WithinCapacity

(* Nothing was handled. *)
LEMMA NothingTakenIs ==
  /\ NothingTaken \in [recent : Seq(Token), windows : [Token -> 0..(Capacity + 1)]]
  /\ NothingTaken.recent = <<>> /\ Len(NothingTaken.recent) <= Capacity
  /\ \A t \in Token : NothingTaken.windows[t] = 0
<1>1. Capacity \in Nat /\ 0 \in 0..(Capacity + 1) /\ Len(<<>>) <= Capacity
  BY CacheAssumption
<1>2. <<>> \in Seq(Token)
  OBVIOUS
<1> QED
  BY <1>1, <1>2 DEF NothingTaken

(* The token set fits an empty ring. *)
LEMMA InitFrames == ChannelInit => FrameInv
<1> SUFFICES ASSUME ChannelInit  PROVE FrameInv
  OBVIOUS
<1>1. /\ sent = 0 /\ batch = {} /\ seen = EmptyCache(Token)
      /\ ring = [t \in Token |-> NoFrame] /\ taken = NothingTaken
  BY DEF ChannelInit
<1>2. InRing = {}
  BY <1>1 DEF InRing
<1>3. TakenType /\ TailsAgree(seen.order, taken.recent)
  BY <1>1, NothingTakenIs, EmptyCacheFits DEF TakenType, TailsAgree
<1>4. QueueFits /\ RecentFits
  BY <1>1, NothingTakenIs, EmptyCacheFits, NoSlots DEF QueueFits, RecentFits, Fits
<1> QED
  BY <1>1, <1>2, <1>3, <1>4, EmptyCacheFits DEF FrameInv, RingOK, SetInv

(* A restart forgets every token, and the history with them. *)
LEMMA RestartKeepsSet ==
  ASSUME seen' = EmptyCache(Token), taken' = NothingTaken
  PROVE  SetInv'
<1>1. TakenType' /\ TailsAgree(seen.order, taken.recent)'
  BY NothingTakenIs, EmptyCacheFits DEF TakenType, TailsAgree
<1>2. QueueFits' /\ RecentFits'
  BY NothingTakenIs, EmptyCacheFits, NoSlots DEF QueueFits, RecentFits, Fits
<1> QED
  BY <1>1, <1>2, EmptyCacheFits DEF SetInv

(* What handling a frame does to the history. *)
LEMMA TakenNowIs ==
  ASSUME TakenType, NEW t \in Token
  PROVE  LET now == TakenNow(t)
         IN /\ now \in [recent : Seq(Token), windows : [Token -> 0..(Capacity + 1)]]
            /\ Len(now.recent) <= Capacity
            /\ \A u \in Token : u # t => now.windows[u] = taken.windows[u]
            /\ now.windows[t] # 0
            /\ ~NewWindow(t) => now.windows[t] = taken.windows[t]
            /\ NewWindow(t) => \/ now.windows[t] = taken.windows[t] + 1
                               \/ now.windows[t] = Capacity + 1
            /\ \E m \in 0..Len(taken.recent) :
                 /\ Len(now.recent) = Len(taken.recent) - m + 1
                 /\ now.recent[Len(now.recent)] = t
                 /\ \A i \in 1..(Len(taken.recent) - m) :
                      now.recent[i] = taken.recent[m + i]
<1> DEFINE old == taken.recent
           rest == IF Len(old) < Capacity THEN old ELSE Tail(old)
           began == Smaller(taken.windows[t] + 1, Capacity + 1)
           windows == [taken.windows EXCEPT ![t] = IF NewWindow(t) THEN began ELSE @]
           now == TakenNow(t)
<1>1. Capacity \in Nat /\ Capacity >= 1
  BY CacheAssumption
<1>2. /\ old \in Seq(Token) /\ Len(old) \in Nat /\ Len(old) <= Capacity
      /\ taken.windows \in [Token -> 0..(Capacity + 1)]
      /\ taken.windows[t] \in 0..(Capacity + 1)
  BY DEF TakenType
<1>3. now = [recent |-> Append(rest, t), windows |-> windows]
  BY DEF TakenNow
<1>4. PICK m \in 0..Len(old) :
        /\ rest \in Seq(Token) /\ Len(rest) = Len(old) - m /\ Len(rest) < Capacity
        /\ \A i \in 1..(Len(old) - m) : rest[i] = old[m + i]
  <2>1. CASE Len(old) < Capacity
    <3>1. rest = old /\ 0 \in 0..Len(old) /\ Len(old) - 0 = Len(old)
      BY <1>2, <2>1
    <3>2. \A i \in 1..(Len(old) - 0) : rest[i] = old[0 + i]
      <4>1. \A i \in 1..(Len(old) - 0) : 0 + i = i
        BY <1>2
      <4> QED
        BY <3>1, <4>1
    <3> HIDE DEF rest
    <3> QED
      BY <1>2, <2>1, <3>1, <3>2
  <2>2. CASE ~(Len(old) < Capacity)
    <3>1. rest = Tail(old) /\ old # <<>> /\ Len(old) = Capacity /\ 1 \in 0..Len(old)
      BY <1>1, <1>2, <2>2
    <3>2. /\ Tail(old) \in Seq(Token) /\ Len(Tail(old)) = Len(old) - 1
          /\ \A i \in 1..(Len(old) - 1) : Tail(old)[i] = old[i + 1]
      BY <1>2, <3>1
    <3>3. \A i \in 1..(Len(old) - 1) : rest[i] = old[1 + i]
      BY <3>1, <3>2
    <3> HIDE DEF rest
    <3> QED
      BY <1>1, <1>2, <3>1, <3>2, <3>3
  <2> QED
    BY <2>1, <2>2
<1> HIDE DEF rest
<1>5. /\ Append(rest, t) \in Seq(Token) /\ Len(Append(rest, t)) = Len(rest) + 1
      /\ Append(rest, t)[Len(rest) + 1] = t
      /\ \A i \in 1..Len(rest) : Append(rest, t)[i] = rest[i]
  <2>1. rest \in Seq(Token)
    BY <1>4
  <2> QED
    BY <2>1, AppendProperties
<1>6. /\ began \in 0..(Capacity + 1) /\ began # 0
      /\ began = taken.windows[t] + 1 \/ began = Capacity + 1
  BY <1>1, <1>2 DEF Smaller
<1> HIDE DEF began
<1>7. /\ windows \in [Token -> 0..(Capacity + 1)]
      /\ \A u \in Token : u # t => windows[u] = taken.windows[u]
      /\ windows[t] = IF NewWindow(t) THEN began ELSE taken.windows[t]
  BY <1>2, <1>6
<1>8. ~NewWindow(t) => taken.windows[t] # 0
  BY DEF NewWindow
<1> HIDE DEF windows
<1>9. now.recent = Append(rest, t) /\ now.windows = windows
  BY <1>3
<1>10. now \in [recent : Seq(Token), windows : [Token -> 0..(Capacity + 1)]]
  BY <1>3, <1>5, <1>7
<1>11. /\ Len(now.recent) <= Capacity /\ Len(now.recent) = Len(old) - m + 1
       /\ now.recent[Len(now.recent)] = t
       /\ \A i \in 1..(Len(old) - m) : now.recent[i] = old[m + i]
  BY <1>1, <1>2, <1>4, <1>5, <1>9
<1> HIDE DEF now
<1> QED
  BY <1>6, <1>7, <1>8, <1>9, <1>10, <1>11 DEF now

(***************************************************************************)
(* When a frame that the set does not hold is handled, the count of its    *)
(* last handlings is below the times its time to live has begun then.      *)
(***************************************************************************)
LEMMA HandledWithinWindows ==
  ASSUME SetInv, NEW t \in Token
  PROVE  Count(taken.recent, t) < TakenNow(t).windows[t]
<1> DEFINE k == Count(taken.recent, t)
           w == taken.windows[t]
           now == TakenNow(t).windows[t]
<1>1. TakenType /\ RecentFits
  BY DEF SetInv
<1>2. k \in Nat /\ k <= Capacity /\ w \in Nat /\ Capacity \in Nat
  <2>1. taken.recent \in Seq(Token) /\ Len(taken.recent) <= Capacity
    BY <1>1 DEF TakenType
  <2>2. k \in Nat /\ k <= Len(taken.recent) /\ Len(taken.recent) \in Nat
    BY <2>1, SlotsAreFinite
  <2> QED
    BY <1>1, <2>1, <2>2, CacheAssumption DEF TakenType
<1>3. k <= w /\ (t \notin seen.keys /\ w # 0 => k < w)
  BY <1>1 DEF RecentFits, Fits
<1>4. /\ ~NewWindow(t) => now = w
      /\ NewWindow(t) => now = w + 1 \/ now = Capacity + 1
  BY <1>1, TakenNowIs
<1>5. ~NewWindow(t) => w # 0 /\ t \notin seen.keys
  BY DEF NewWindow
<1> HIDE DEF k, w, now
<1>6. k < now
  BY <1>2, <1>3, <1>4, <1>5
<1> QED
  BY <1>6 DEF k, now

(***************************************************************************)
(* A frame is handled, for the first time or once more.  It gets a slot    *)
(* more in the queue and among the last handled.  If another is evicted,   *)
(* the rest of the queue covers the last frames handled.                   *)
(***************************************************************************)
LEMMA TakesKeepsSet == ASSUME SetInv, NEW t \in Token, ~Seen(seen, t),
                              seen' = TakeUp(seen, t), taken' = TakenNow(t)
                       PROVE  SetInv'
<1> DEFINE old    == seen.order
           new    == (seen').order
           span   == Len(seen.order)
           recent == taken.recent
           latest == (taken').recent
<1>1. seen' \in CacheOf(Token) /\ WithinCapacity(seen') /\ t \in (seen').keys
  BY TakeUpProperty DEF SetInv
<1>2. PICK n \in 0..span :
        /\ Len(new) = span - n + 1
        /\ new[Len(new)] = t
        /\ \A i \in 1..(span - n) : new[i] = old[n + i]
        /\ \A k \in seen.keys \ (seen').keys :
             n # 0 /\ k = old[n] /\ Capacity <= span - n + 1
  BY TakeUpProperty DEF SetInv
<1>3. /\ taken' \in [recent : Seq(Token), windows : [Token -> 0..(Capacity + 1)]]
      /\ Len(latest) <= Capacity
      /\ \A u \in Token : u # t => (taken').windows[u] = taken.windows[u]
      /\ ~NewWindow(t) => (taken').windows[t] = taken.windows[t]
      /\ NewWindow(t) => \/ (taken').windows[t] = taken.windows[t] + 1
                         \/ (taken').windows[t] = Capacity + 1
  BY TakenNowIs DEF SetInv
<1>4. PICK m \in 0..Len(recent) :
        /\ Len(latest) = Len(recent) - m + 1
        /\ latest[Len(latest)] = t
        /\ \A i \in 1..(Len(recent) - m) : latest[i] = recent[m + i]
  BY TakenNowIs DEF SetInv
<1>5. /\ old \in Seq(Token) /\ new \in Seq(Token)
      /\ recent \in Seq(Token) /\ latest \in Seq(Token)
      /\ span \in Nat /\ Len(new) \in Nat /\ Len(recent) \in Nat /\ Len(latest) \in Nat
      /\ Capacity \in Nat
      /\ \A u \in Token : taken.windows[u] \in Nat /\ (taken').windows[u] \in Nat
  BY <1>1, <1>3, CacheAssumption DEF SetInv, CacheOf, TakenType
<1>6. /\ Count(new, t) <= Count(old, t) + 1
      /\ \A u : u # t => Count(new, u) <= Count(old, u)
      /\ \A u : u # t /\ n # 0 /\ u = old[n] => Count(new, u) < Count(old, u)
  BY <1>2, <1>5, SlotsAfterAppend
<1>7. /\ Count(latest, t) <= Count(recent, t) + 1
      /\ \A u : u # t => Count(latest, u) <= Count(recent, u)
  BY <1>4, <1>5, SlotsAfterAppend
<1>8. \A u : /\ Count(old, u) \in Nat /\ Count(new, u) \in Nat
             /\ Count(recent, u) \in Nat /\ Count(latest, u) \in Nat
             /\ Count(latest, u) <= Len(latest)
  BY <1>5, SlotsAreFinite
<1>9. TailsAgree(new, latest)
  <2> SUFFICES ASSUME NEW d \in Nat, d < Len(new), d < Len(latest)
               PROVE  new[Len(new) - d] = latest[Len(latest) - d]
    BY DEF TailsAgree
  <2>1. CASE d = 0
    <3>1. Len(new) - d = Len(new) /\ Len(latest) - d = Len(latest)
      BY <1>5, <2>1
    <3> QED
      BY <1>2, <1>4, <3>1
  <2>2. CASE d # 0
    <3>1. d - 1 \in Nat /\ d - 1 < span /\ d - 1 < Len(recent)
      BY <1>2, <1>4, <1>5, <2>2
    <3>2. old[span - (d - 1)] = recent[Len(recent) - (d - 1)]
      BY <3>1 DEF SetInv, TailsAgree
    <3>3. /\ Len(new) - d \in 1..(span - n) /\ n + (Len(new) - d) = span - (d - 1)
          /\ Len(latest) - d \in 1..(Len(recent) - m)
          /\ m + (Len(latest) - d) = Len(recent) - (d - 1)
      BY <1>2, <1>4, <1>5, <2>2
    <3>4. /\ new[Len(new) - d] = old[span - (d - 1)]
          /\ latest[Len(latest) - d] = recent[Len(recent) - (d - 1)]
      BY <1>2, <1>4, <3>3
    <3> QED
      BY <3>2, <3>4
  <2> QED
    BY <2>1, <2>2
<1>10. ASSUME NEW u \in seen.keys, u \notin (seen').keys
       PROVE  Count(new, u) < Count(old, u) /\ Count(latest, u) <= Count(new, u)
  <2>1. n # 0 /\ u = old[n] /\ Capacity <= span - n + 1 /\ u # t
    BY <1>1, <1>2, <1>10
  <2>2. Len(latest) <= Len(new)
    BY <1>2, <1>3, <1>5, <2>1
  <2> QED
    BY <1>5, <1>6, <1>9, <2>1, <2>2, SlotsOfATail
<1>11. \A u \in Token :
         /\ taken.windows[u] <= Capacity => Fits(Count(old, u), u)
         /\ Fits(Count(recent, u), u)
  BY DEF SetInv, QueueFits, RecentFits
<1>12. Count(recent, t) < (taken').windows[t]
  BY HandledWithinWindows
<1>13. (taken').windows[t] <= Capacity => Count(old, t) < (taken').windows[t]
  <2> DEFINE k == Count(old, t)
             w == taken.windows[t]
             v == (taken').windows[t]
  <2>1. w <= Capacity => k <= w /\ (t \notin seen.keys /\ w # 0 => k < w)
    BY <1>11 DEF Fits
  <2>2. /\ ~NewWindow(t) => v = w /\ w # 0 /\ t \notin seen.keys
        /\ NewWindow(t) => v = w + 1 \/ v = Capacity + 1
    BY <1>3 DEF NewWindow
  <2>3. k \in Nat /\ w \in Nat /\ v \in Nat /\ Capacity \in Nat
    BY <1>5, <1>8
  <2> HIDE DEF k, w, v
  <2>4. v <= Capacity => k < v
    BY <2>1, <2>2, <2>3
  <2> QED
    BY <2>4 DEF k, v
<1> HIDE DEF old, new, span, recent, latest
<1>14. ASSUME NEW u \in Token
       PROVE  /\ (taken').windows[u] <= Capacity =>
                   /\ Count(new, u) <= (taken').windows[u]
                   /\ u \notin (seen').keys /\ (taken').windows[u] # 0 =>
                        Count(new, u) < (taken').windows[u]
              /\ Count(latest, u) <= (taken').windows[u]
              /\ u \notin (seen').keys /\ (taken').windows[u] # 0 =>
                   Count(latest, u) < (taken').windows[u]
  <2>1. CASE u = t
    <3>1. Count(latest, t) <= (taken').windows[t]
      BY <1>5, <1>7, <1>8, <1>12
    <3>2. (taken').windows[t] <= Capacity => Count(new, t) <= (taken').windows[t]
      BY <1>5, <1>6, <1>8, <1>13
    <3> QED
      BY <1>1, <2>1, <3>1, <3>2
  <2>2. CASE u # t
    <3> DEFINE w == taken.windows[u]
               q == Count(old, u)
               p == Count(new, u)
               r == Count(recent, u)
               s == Count(latest, u)
    <3>1. (taken').windows[u] = w /\ p <= q /\ s <= r /\ s <= Capacity
      BY <1>3, <1>5, <1>6, <1>7, <1>8, <2>2 DEF latest
    <3>2. w \in Nat /\ q \in Nat /\ p \in Nat /\ r \in Nat /\ s \in Nat /\ Capacity \in Nat
      BY <1>5, <1>8
    <3>3. /\ w <= Capacity => q <= w /\ (u \notin seen.keys /\ w # 0 => q < w)
          /\ r <= w /\ (u \notin seen.keys /\ w # 0 => r < w)
      BY <1>11 DEF Fits
    <3>4. u \in seen.keys /\ u \notin (seen').keys => p < q /\ s <= p
      BY <1>10
    <3> HIDE DEF w, q, p, r, s
    <3>5. /\ w <= Capacity => p <= w /\ (u \notin (seen').keys /\ w # 0 => p < w)
          /\ s <= w /\ (u \notin (seen').keys /\ w # 0 => s < w)
      <4>1. CASE u \in seen.keys
        BY <3>1, <3>2, <3>3, <3>4, <4>1
      <4>2. CASE u \notin seen.keys
        BY <3>1, <3>2, <3>3, <4>2
      <4> QED
        BY <4>1, <4>2
    <3> QED
      BY <3>1, <3>5 DEF w, p, s
  <2> QED
    BY <2>1, <2>2
<1>15. QueueFits' /\ RecentFits'
  BY <1>14 DEF QueueFits, RecentFits, Fits, new, latest
<1>16. TakenType'
  BY <1>3 DEF TakenType, latest
<1>17. TailsAgree(seen.order, taken.recent)'
  BY <1>9 DEF TailsAgree, new, latest
<1> QED
  BY <1>1, <1>15, <1>16, <1>17 DEF SetInv

(* What leaves the map, the queue and the history alone keeps the invariant. *)
LEMMA SetStays ==
  ASSUME SetInv, seen' \in CacheOf(Token), (seen').keys = seen.keys,
         (seen').order = seen.order, taken' = taken
  PROVE  SetInv'
<1>1. WithinCapacity(seen')
  BY DEF SetInv, WithinCapacity
<1>2. TailsAgree(seen.order, taken.recent)' /\ TakenType'
  BY DEF SetInv, TailsAgree, TakenType
<1>3. QueueFits' /\ RecentFits'
  BY DEF SetInv, QueueFits, RecentFits, Fits
<1> QED
  BY <1>1, <1>2, <1>3 DEF SetInv

(* A request gets a token of its own. *)
LEMMA SendKeepsRing == ASSUME RingOK, NEW r \in Request, Send(r)
                       PROVE  RingOK'
<1>1. /\ sent' = sent + 1 /\ sent < MaxRequests /\ batch' = {}
      /\ ring' = [ring EXCEPT ![sent + 1] = r]
  BY DEF Send
<1>2. sent \in Nat /\ sent' \in Nat /\ MaxRequests \in Nat /\ sent + 1 \in Token
  BY <1>1, ChannelBoundsAssumption DEF RingOK, Token
<1>3. ring' \in [Token -> Request \cup {NoFrame}]
  BY <1>1, <1>2 DEF RingOK
<1>4. \A t \in Token : t # sent + 1 => ring'[t] = ring[t]
  BY <1>1, <1>2 DEF RingOK
<1>5. InRing' \subseteq 1..sent'
  <2> SUFFICES ASSUME NEW t \in Token, ring'[t] # NoFrame  PROVE t \in 1..sent'
    BY DEF InRing
  <2>1. CASE t = sent + 1
    BY <1>1, <1>2, <2>1
  <2>2. CASE t # sent + 1
    <3>1. t \in 1..sent
      BY <1>4, <2>2 DEF RingOK, InRing
    <3> QED
      BY <1>1, <1>2, <3>1
  <2> QED
    BY <2>1, <2>2
<1> QED
  BY <1>1, <1>2, <1>3, <1>5 DEF RingOK

(* A poll drops frames from the ring and reads those that are left. *)
LEMMA PollKeepsRing == ASSUME RingOK, Poll  PROVE RingOK'
<1>1. /\ sent' = sent /\ batch' \subseteq InRing
      /\ ring' = [t \in Token |-> IF t \in batch' THEN ring[t] ELSE NoFrame]
  BY DEF Poll
<1>2. ring' \in [Token -> Request \cup {NoFrame}]
  BY <1>1 DEF RingOK
<1>3. InRing' \subseteq InRing /\ batch' \subseteq InRing'
  BY <1>1 DEF InRing
<1> QED
  BY <1>1, <1>2, <1>3 DEF RingOK

(***************************************************************************)
(* What a step does to the frames and the token set.                       *)
(***************************************************************************)
LEMMA StepsOfTheFrames ==
  ASSUME [ChannelNext]_allVars
  PROVE  \/ \E r \in Request : Send(r)
         \/ Poll
         \/ \E t \in Token : SkipSeen(t)
         \/ SecondPasses
         \/ Restart
         \/ \E t \in Token : Takes(t)
         \/ UNCHANGED <<sent, ring, batch, seen, taken>>
<1>1. ASSUME NEW t \in Token,
             \/ ServeCreate(t) \/ ServeDelete(t) \/ ServeAck(t) \/ ServeNack(t)
             \/ ServeUnchanged(t) \/ ServePull(t)
      PROVE  Takes(t)
  BY <1>1 DEF ServeCreate, ServeDelete, ServeAck, ServeNack, ServeUnchanged, ServePull
<1>2. ASSUME \/ UNCHANGED allVars \/ LogChanges
             \/ LeaseCommits \/ LeaseFails
             \/ \E R \in SUBSET Cursor : RouteDeadLetters(R)
             \/ ReplyArrives \/ ReplyLost
      PROVE  UNCHANGED <<sent, ring, batch, seen, taken>>
  BY <1>2 DEF allVars, channel, LogChanges, LeaseCommits, LeaseFails, RouteDeadLetters,
              ReplyArrives, ReplyLost
<1>3. Consumer => \E r \in Request : Send(r)
  BY ConsumersSend
<1> QED
  BY <1>1, <1>2, <1>3 DEF ChannelNext, Worker

(* Every step of the channel keeps the invariant of ring and token set. *)
LEMMA NextFrames == FrameInv /\ [ChannelNext]_allVars => FrameInv'
<1> SUFFICES ASSUME FrameInv, [ChannelNext]_allVars  PROVE FrameInv'
  OBVIOUS
<1>1. RingOK /\ SetInv /\ seen \in CacheOf(Token)
  BY DEF FrameInv, SetInv
<1>2. CASE UNCHANGED <<sent, ring, batch, seen, taken>>
  BY <1>1, <1>2, SetStays DEF FrameInv, RingOK, InRing
<1>3. ASSUME NEW r \in Request, Send(r)  PROVE FrameInv'
  BY <1>1, <1>3, SendKeepsRing, SetStays DEF FrameInv, Send
<1>4. CASE Poll
  BY <1>1, <1>4, PollKeepsRing, SetStays DEF FrameInv, Poll
<1>5. ASSUME NEW t \in Token, SkipSeen(t)  PROVE FrameInv'
  BY <1>1, <1>5, SetStays DEF FrameInv, RingOK, InRing, SkipSeen
<1>6. CASE SecondPasses
  <2>1. UNCHANGED <<sent, ring, batch, taken>> /\ seen' = Older(seen)
    BY <1>6 DEF SecondPasses
  <2>2. SetInv'
    BY <1>1, <2>1, OlderProperty, SetStays
  <2> QED
    BY <1>1, <2>1, <2>2 DEF FrameInv, RingOK, InRing
<1>7. CASE Restart
  <2>1. /\ UNCHANGED <<sent, ring>> /\ batch' = {}
        /\ seen' = EmptyCache(Token) /\ taken' = NothingTaken
    BY <1>7 DEF Restart
  <2>2. SetInv'
    BY <2>1, RestartKeepsSet
  <2> QED
    BY <1>1, <2>1, <2>2 DEF FrameInv, RingOK, InRing
<1>8. ASSUME NEW t \in Token, Takes(t)  PROVE FrameInv'
  <2>1. /\ ~Seen(seen, t) /\ seen' = TakeUp(seen, t) /\ taken' = TakenNow(t)
        /\ batch' = batch \ {t} /\ UNCHANGED <<sent, ring>>
    BY <1>8 DEF Takes
  <2> QED
    BY <1>1, <2>1, TakesKeepsSet DEF FrameInv, RingOK, InRing
<1> QED
  BY <1>2, <1>3, <1>4, <1>5, <1>6, <1>7, <1>8, StepsOfTheFrames

------------------------------------------------------------------------------
(* Types *)

(* The worker has a committed lease exactly while it routes and replies. *)
OutcomeOK ==
  /\ sent \in 0..MaxRequests
  /\ restarts \in 0..MaxRestarts
  /\ outcome \in [name : Names \cup {NoName}, leased : SUBSET Cursor, dead : SUBSET Cursor]
  /\ (pc \in {"routing", "replying"}) <=> (outcome.name \in Names)

(* The worker without a committed lease. *)
LEMMA NoOutcomeType ==
  /\ NoOutcome \in [name : Names \cup {NoName}, leased : SUBSET Cursor, dead : SUBSET Cursor]
  /\ NoOutcome.name \notin Names
BY NamesAssumption DEF NoOutcome

(* Every step leaves an outcome exactly while the worker routes and replies. *)
LEMMA OutcomeStays ==
  ASSUME CInv, OutcomeOK, [ChannelNext]_allVars
  PROVE  OutcomeOK'
<1>1. sent' \in 0..MaxRequests
  <2>1. sent' = sent \/ (sent < MaxRequests /\ sent' = sent + 1)
    BY StepsOfTheFrames DEF Send, Poll, SkipSeen, SecondPasses, Restart, Takes
  <2> QED
    BY <2>1, ChannelBoundsAssumption DEF OutcomeOK
<1>2. ASSUME UNCHANGED restarts, outcome' = outcome,
             (pc \in {"routing", "replying"}) <=> (pc' \in {"routing", "replying"})
      PROVE  OutcomeOK'
  BY <1>1, <1>2 DEF OutcomeOK
<1>3. ASSUME restarts' \in 0..MaxRestarts, outcome' = NoOutcome, pc' = "idle"
      PROVE  OutcomeOK'
  BY <1>1, <1>3, NoOutcomeType DEF OutcomeOK
<1>4. CASE LeaseCommits
  <2>1. /\ outcome' = [name |-> plan.name, leased |-> plan.leased, dead |-> plan.dead]
        /\ restarts' = restarts /\ pc' \in {"routing", "replying"}
    BY <1>4 DEF LeaseCommits
  <2>2. plan \in Plan /\ ~Idle
    BY <1>4 DEF LeaseCommits, CInv, IInv, TypeOK, WorkerOK
  <2>3. plan.name \in Names /\ plan.leased \subseteq Cursor /\ plan.dead \subseteq Cursor
    BY <2>2 DEF Plan, Idle
  <2> QED
    BY <1>1, <2>1, <2>3 DEF OutcomeOK
<1>5. CASE Restart
  <2>1. restarts' \in 0..MaxRestarts
    BY <1>5, ChannelBoundsAssumption DEF Restart, OutcomeOK
  <2> QED
    BY <1>3, <1>5, <2>1 DEF Restart
<1>6. CASE ReplyArrives \/ ReplyLost
  BY <1>3, <1>6 DEF ReplyArrives, ReplyLost, OutcomeOK
<1>7. CASE Consumer
  <2>1. PICK r \in Request : Send(r)
    BY <1>7, ConsumersSend
  <2> QED
    BY <1>2, <2>1 DEF Send
<1>8. ASSUME NEW t \in Token,
             \/ SkipSeen(t)
             \/ ServeCreate(t) \/ ServeDelete(t) \/ ServeAck(t) \/ ServeNack(t)
             \/ ServeUnchanged(t) \/ ServePull(t)
      PROVE  OutcomeOK'
  <2>1. UNCHANGED <<restarts, outcome>> /\ pc = "idle" /\ pc' \in {"idle", "leasing"}
    BY <1>8 DEF SkipSeen, ServeCreate, ServeDelete, ServeAck, ServeNack, ServeUnchanged,
                ServePull, Takes, AtHand
  <2> QED
    BY <1>2, <2>1
<1>9. ASSUME \/ UNCHANGED allVars \/ Poll \/ LeaseFails \/ LogChanges \/ SecondPasses
             \/ \E R \in SUBSET Cursor : RouteDeadLetters(R)
      PROVE  OutcomeOK'
  <2>1. /\ UNCHANGED <<restarts, outcome>>
        /\ (pc \in {"routing", "replying"}) <=> (pc' \in {"routing", "replying"})
    BY <1>9 DEF allVars, channel, Poll, LeaseFails, LogChanges, SecondPasses,
                RouteDeadLetters
  <2> QED
    BY <1>2, <2>1
<1> QED
  BY <1>4, <1>5, <1>6, <1>7, <1>8, <1>9 DEF ChannelNext, Worker

(***************************************************************************)
(* Types, and that the worker has a plan exactly while it awaits its       *)
(* commit and an outcome exactly while it routes and replies.              *)
(***************************************************************************)
THEOREM ChannelTypes == ChannelSpec => []ChannelTypeOK
<1>1. CInv /\ FrameInv /\ OutcomeOK => ChannelTypeOK
  BY DEF CInv, WorkerOK, AcksWereReceived, HistoryTypes, FrameInv, RingOK, SetInv, TakenType,
         OutcomeOK, CacheOf, Ages, ChannelTypeOK
<1>2. ChannelInit => OutcomeOK
  BY NoOutcomeType, ChannelBoundsAssumption DEF ChannelInit, OutcomeOK
<1>3. CInv /\ OutcomeOK /\ [ChannelNext]_allVars => OutcomeOK'
  BY OutcomeStays
<1> QED
  BY <1>1, <1>2, <1>3, ChannelInitCInv, ChannelNextCInv, InitFrames, NextFrames, PTL
  DEF ChannelSpec

(***************************************************************************)
(* Among any Capacity + 1 frames that a process handles in succession, a   *)
(* frame comes up at most as often as its time to live has begun, however  *)
(* often it was handled before and whatever its tokens left in the queue.  *)
(***************************************************************************)
THEOREM HandlingsAreBounded == ChannelSpec => HandlingsFitWindows
<1>1. ASSUME FrameInv, ChannelTypeOK, [ChannelNext]_allVars, NEW t \in Token, Handles(t)
      PROVE  Cardinality(Slots(taken.recent, t)) < taken'.windows[t]
  <2>1. t \in batch /\ t \notin batch' /\ ~Seen(seen, t) /\ restarts' = restarts
        /\ \A u \in batch : t <= u
    BY <1>1 DEF Handles, AtHand
  <2>2. Takes(t)
    <3>1. CASE UNCHANGED <<sent, ring, batch, seen, taken>>
      BY <2>1, <3>1
    <3>2. (\E r \in Request : Send(r)) \/ Poll \/ SecondPasses => FALSE
      BY <2>1 DEF Send, Poll, SecondPasses
    <3>3. ~Restart
      <4>1. restarts \in Int
        BY <1>1 DEF ChannelTypeOK
      <4> QED
        BY <2>1, <4>1 DEF Restart
    <3>4. ASSUME NEW u \in Token, SkipSeen(u) \/ Takes(u)
          PROVE  u = t
      BY <2>1, <3>4 DEF SkipSeen, Takes
    <3>5. ~SkipSeen(t)
      BY <2>1 DEF SkipSeen
    <3> QED
      BY <1>1, <3>1, <3>2, <3>3, <3>4, <3>5, StepsOfTheFrames
  <2>3. taken' = TakenNow(t)
    BY <2>2 DEF Takes
  <2> QED
    BY <1>1, <2>3, HandledWithinWindows DEF FrameInv, Count
<1>2. FrameInv /\ ChannelTypeOK /\ [ChannelNext]_allVars =>
        [\A t \in Token : Handles(t) =>
           Cardinality(Slots(taken.recent, t)) < taken'.windows[t]]_allVars
  BY <1>1
<1> QED
  BY <1>2, InitFrames, NextFrames, ChannelTypes, PTL DEF ChannelSpec, HandlingsFitWindows
==============================================================================
