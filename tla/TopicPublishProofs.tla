------------------------- MODULE TopicPublishProofs -------------------------
(***************************************************************************)
(* Proofs about TopicPublish, for any publishers and number of messages:   *)
(* the order of the live stream, and that the log stays the numbered tail  *)
(* of its history.  Before them, what a filter by cursor does.             *)
(***************************************************************************)
EXTENDS TopicPublish, SequenceTheorems, FiniteSetTheorems, TLAPS

(* The size of an interval, an empty one included. *)
LEMMA IntervalSize ==
  ASSUME NEW a \in Int, NEW b \in Int, a <= b + 1
  PROVE  IsFiniteSet(a..b) /\ Cardinality(a..b) = b - a + 1
<1>1. CASE a > b
  <2>1. b - a + 1 = 0
    BY <1>1
  <2> QED
    BY <1>1, <2>1, FS_Interval
<1>2. CASE ~(a > b)
  BY <1>2, FS_Interval
<1> QED
  BY <1>1, <1>2

(* Cursors that are consecutive from floor + 1, as the log keeps them. *)
Consecutive(messages, floor) ==
  \A i \in DOMAIN messages : messages[i].cursor = floor + i

(* How many messages a filter for cursors after c drops from the front. *)
Dropped(messages, floor, c) ==
  IF c <= floor THEN 0
  ELSE IF c - floor > Len(messages) THEN Len(messages) ELSE c - floor

(***************************************************************************)
(* A filter by cursor of consecutive messages is their tail: what the      *)
(* arithmetic of `floor`, `since` and `get` depends on.                    *)
(***************************************************************************)
LEMMA AboveIsTail ==
  ASSUME NEW M, NEW messages \in Seq(M), NEW floor \in Nat, NEW c \in Int,
         Consecutive(messages, floor)
  PROVE  LET d == Dropped(messages, floor, c)
         IN  /\ d \in 0..Len(messages)
             /\ Above(messages, c) = [k \in 1..(Len(messages) - d) |-> messages[d + k]]
<1> DEFINE n      == Len(messages)
           d      == Dropped(messages, floor, c)
           kept   == {i \in DOMAIN messages : messages[i].cursor > c}
           Nth(k) == CHOOSE i \in kept : Cardinality({j \in kept : j <= i}) = k
<1>1. n \in Nat /\ DOMAIN messages = 1..n
  OBVIOUS
<1>2. d \in 0..n
  BY <1>1 DEF Dropped
<1>3. kept = (d + 1)..n
  <2>1. \A i \in 1..n : messages[i].cursor = floor + i
    BY <1>1 DEF Consecutive
  <2>2. \A i \in 1..n : floor + i > c <=> i > d
    BY <1>1 DEF Dropped
  <2>3. kept = {i \in 1..n : i > d}
    BY <1>1, <2>1, <2>2
  <2> HIDE DEF d, n, kept
  <2> QED
    BY <1>1, <1>2, <2>3
<1> HIDE DEF n, d, kept
<1>4. \A i \in kept : Cardinality({j \in kept : j <= i}) = i - d
  <2> TAKE i \in kept
  <2>1. i \in (d + 1)..n /\ d \in Int /\ d + 1 \in Int /\ i \in Int
    BY <1>1, <1>2, <1>3
  <2>2. \A j : j \in kept /\ j <= i <=> j \in (d + 1)..i
    BY <1>1, <1>3, <2>1
  <2>3. {j \in kept : j <= i} = (d + 1)..i
    BY <2>2
  <2>4. Cardinality((d + 1)..i) = i - (d + 1) + 1
    BY <2>1, IntervalSize
  <2>5. i - (d + 1) + 1 = i - d
    BY <2>1
  <2> HIDE DEF kept
  <2> QED
    BY <2>3, <2>4, <2>5, Zenon
<1>5. Cardinality(kept) = n - d
  <2>1. d + 1 \in Int /\ n \in Int /\ d + 1 <= n + 1 /\ n - (d + 1) + 1 = n - d
    BY <1>1, <1>2
  <2>2. Cardinality((d + 1)..n) = n - (d + 1) + 1
    BY <2>1, IntervalSize
  <2> QED
    BY <1>3, <2>1, <2>2
<1>6. \A k \in 1..(n - d) : Nth(k) = d + k
  <2> TAKE k \in 1..(n - d)
  <2>1. d + k \in kept
    BY <1>1, <1>2, <1>3
  <2>2. \A i \in kept : Cardinality({j \in kept : j <= i}) = k <=> i = d + k
    BY <1>1, <1>2, <1>3, <1>4
  <2> QED
    BY <2>1, <2>2
<1>7. Above(messages, c) = [k \in 1..Cardinality(kept) |-> messages[Nth(k)]]
  BY DEF Above, kept
<1> HIDE DEF Nth
<1>8. Above(messages, c) = [k \in 1..(n - d) |-> messages[d + k]]
  BY <1>5, <1>6, <1>7
<1> QED
  BY <1>2, <1>8 DEF n, d

(* A sequence of different numbers up to n is not longer than n. *)
LEMMA DistinctAreFew ==
  ASSUME NEW n \in Nat, NEW s \in Seq(1..n),
         \A i, j \in DOMAIN s : s[i] = s[j] => i = j
  PROVE  Len(s) <= n
<1>1. Len(s) \in Nat /\ DOMAIN s = 1..Len(s) /\ s \in [1..Len(s) -> 1..n]
  OBVIOUS
<1>2. IsFiniteSet(1..Len(s)) /\ Cardinality(1..Len(s)) = Len(s)
  <2>1. 1 <= Len(s) + 1 /\ Len(s) \in Int /\ Len(s) - 1 + 1 = Len(s)
    BY <1>1
  <2> QED
    BY <2>1, IntervalSize
<1>3. IsFiniteSet(1..n) /\ Cardinality(1..n) = n
  <2>1. 1 <= n + 1 /\ n \in Int /\ n - 1 + 1 = n
    OBVIOUS
  <2> QED
    BY <2>1, IntervalSize
<1>4. ASSUME n < Len(s)  PROVE FALSE
  <2>1. Cardinality(1..n) < Cardinality(1..Len(s))
    BY <1>2, <1>3, <1>4
  <2>2. \E x, y \in 1..Len(s) : x # y /\ s[x] = s[y]
    <3> HIDE <1>4
    <3> QED
      BY ONLY <1>1, <1>2, <1>3, <2>1, FS_PigeonHole, Zenon
  <2> QED
    BY <1>1, <2>2
<1> QED
  BY <1>1, <1>4

------------------------------------------------------------------------------
ReturnedBodies == {m.body : m \in returned}
Publishing(p) == task[p].pc \in {"stamped", "stored"}

(***************************************************************************)
(* Where the message of a publish can be: with its task, or returned, or   *)
(* given up; only a returned one has been broadcast, and no two tasks have *)
(* the same.  What `after` says of a publish was settled before it began:  *)
(* those messages had returned, so they are with no task.                  *)
(***************************************************************************)
PublishInv ==
  /\ started \in 0..MaxMessages
  /\ live \in Seq(returned)
  /\ after \in [Body -> SUBSET Body]
  /\ ReturnedBodies \subseteq 1..started
  /\ task = [p \in Publishers |-> [pc |-> task[p].pc, msg |-> task[p].msg]]
  /\ \A p \in Publishers : Publishing(p) =>
       /\ task[p].msg.body \in 1..started
       /\ task[p].msg.body \notin ReturnedBodies
       /\ \A q \in Publishers :
            Publishing(q) /\ task[q].msg.body = task[p].msg.body => q = p
  /\ \A b \in 1..started : after[b] \subseteq ReturnedBodies
  /\ LiveInPublishOrder

(* Nobody has begun to publish. *)
LEMMA PublishInit == Init => PublishInv
<1> SUFFICES ASSUME Init  PROVE PublishInv
  OBVIOUS
<1>1. started = 0 /\ live = <<>> /\ returned = {} /\ after = [b \in Body |-> {}]
  BY DEF Init
<1>2. \A p \in Publishers : task[p] = [pc |-> "idle", msg |-> [cursor |-> 0, body |-> 0]]
  BY DEF Init, IdleTask
<1>3. task = [p \in Publishers |-> [pc |-> task[p].pc, msg |-> task[p].msg]]
  BY <1>2 DEF Init, IdleTask
<1>4. \A p \in Publishers : ~Publishing(p)
  BY <1>2 DEF Publishing
<1>5. started \in 0..MaxMessages /\ live \in Seq(returned) /\ ReturnedBodies = {}
  BY <1>1, MaxMessagesAssumption DEF ReturnedBodies
<1> QED
  BY <1>1, <1>3, <1>4, <1>5 DEF PublishInv, LiveInPublishOrder

(* A publish begins: its body is new, and all that returned came before. *)
LEMMA StampKeeps == ASSUME PublishInv, NEW p \in Publishers, Stamp(p)
                    PROVE  PublishInv'
<1>1. /\ started \in Nat /\ started' = started + 1 /\ started' \in 1..MaxMessages
      /\ UNCHANGED <<live, returned>>
      /\ after' = [after EXCEPT ![started'] = ReturnedBodies]
      /\ ReturnedBodies' = ReturnedBodies
  BY MaxMessagesAssumption DEF PublishInv, Stamp, ReturnedBodies
<1>2. 1..started \subseteq 1..started' /\ 1..started \subseteq Body /\ started' \in Body
      /\ started' \notin 1..started
  <2>1. started \in Nat /\ started + 1 <= MaxMessages
    BY <1>1, MaxMessagesAssumption
  <2> QED
    BY <1>1, <2>1, MaxMessagesAssumption DEF Body
<1>3. /\ task' = [q \in Publishers |-> [pc |-> task'[q].pc, msg |-> task'[q].msg]]
      /\ \A q \in Publishers : q # p => task'[q] = task[q]
      /\ task'[p].msg.body = started'
  BY <1>1 DEF PublishInv, Stamp
<1>4. \A q \in Publishers : Publishing(q)' =>
        /\ task'[q].msg.body \in 1..started'
        /\ task'[q].msg.body \notin ReturnedBodies
        /\ \A r \in Publishers :
             Publishing(r)' /\ task'[r].msg.body = task'[q].msg.body => r = q
  BY <1>1, <1>2, <1>3 DEF PublishInv, Publishing
<1>5. after' \in [Body -> SUBSET Body] /\ \A b \in 1..started' : after'[b] \subseteq ReturnedBodies
  BY <1>1, <1>2 DEF PublishInv
<1>6. LiveInPublishOrder'
  <2>1. \A i \in DOMAIN live : live[i].body \in 1..started
    BY DEF PublishInv, ReturnedBodies
  <2> QED
    BY <1>1, <1>2, <2>1 DEF PublishInv, LiveInPublishOrder
<1> QED
  BY <1>1, <1>3, <1>4, <1>5, <1>6 DEF PublishInv

(* A publish ends, with or without its message on the live stream. *)
LEMMA FanOutKeeps == ASSUME PublishInv, NEW p \in Publishers, FanOut(p) \/ FanOutFails(p)
                     PROVE  PublishInv'
<1> DEFINE m == task[p].msg
<1>1. /\ Publishing(p) /\ returned' = returned \cup {m}
      /\ live' = Append(live, m) \/ live' = live
      /\ task' = [task EXCEPT ![p] = IdleTask]
      /\ UNCHANGED <<started, after>>
  BY DEF FanOut, FanOutFails, Publishing
<1>2. /\ m.body \in 1..started /\ m.body \notin ReturnedBodies
      /\ ReturnedBodies' = ReturnedBodies \cup {m.body}
  BY <1>1 DEF PublishInv, ReturnedBodies
<1>3. /\ task' = [q \in Publishers |-> [pc |-> task'[q].pc, msg |-> task'[q].msg]]
      /\ \A q \in Publishers : q # p => task'[q] = task[q]
      /\ ~Publishing(p)'
  BY <1>1 DEF PublishInv, IdleTask, Publishing
<1> HIDE DEF m
<1>4. \A q \in Publishers : Publishing(q)' =>
        /\ q # p /\ Publishing(q) /\ task'[q] = task[q]
        /\ task[q].msg.body # m.body
  BY <1>1, <1>3 DEF PublishInv, Publishing, m
<1>5. live \in Seq(returned') /\ live' \in Seq(returned')
  <2>1. live \in Seq(returned')
    BY <1>1 DEF PublishInv
  <2> QED
    BY <1>1, <2>1, AppendProperties
<1>6. LiveInPublishOrder'
  <2>1. CASE live' = live
    BY <1>1, <2>1 DEF PublishInv, LiveInPublishOrder
  <2>2. CASE live' = Append(live, m)
    <3>1. /\ Len(live) \in Nat /\ DOMAIN live = 1..Len(live)
          /\ DOMAIN live' = 1..(Len(live) + 1)
          /\ \A i \in DOMAIN live : live'[i] = live[i] /\ live[i].body \in ReturnedBodies
          /\ live'[Len(live) + 1] = m
      BY <1>5, <2>2, AppendProperties DEF PublishInv, ReturnedBodies
    <3>2. ASSUME NEW i \in DOMAIN live', NEW j \in DOMAIN live', i < j
          PROVE  live'[j].body \notin after[live'[i].body] \cup {live'[i].body}
      <4>1. i \in DOMAIN live
        BY <3>1, <3>2
      <4>2. CASE j \in DOMAIN live
        BY <3>1, <3>2, <4>1, <4>2 DEF PublishInv, LiveInPublishOrder
      <4>3. CASE j = Len(live) + 1
        BY <1>2, <3>1, <4>1, <4>3 DEF PublishInv
      <4> QED
        BY <3>1, <4>2, <4>3
    <3> QED
      BY <1>1, <3>2 DEF LiveInPublishOrder
  <2> QED
    BY <1>1, <2>1, <2>2
<1> QED
  BY <1>1, <1>2, <1>3, <1>4, <1>5, <1>6 DEF PublishInv

(* Steps that neither begin nor return a publish. *)
LEMMA OtherStepsKeep ==
  ASSUME PublishInv,
         \/ \E p \in Publishers : DurableAppend(p) \/ AppendFails(p)
         \/ \E up_to \in 0..(MaxMessages + 1) : PruneTo(up_to)
         \/ UNCHANGED vars
  PROVE  PublishInv'
<1>1. UNCHANGED <<live, returned, started, after>>
  BY DEF DurableAppend, AppendFails, PruneTo, vars
<1>2. /\ task' = [q \in Publishers |-> [pc |-> task'[q].pc, msg |-> task'[q].msg]]
      /\ \A q \in Publishers :
           Publishing(q)' => Publishing(q) /\ task'[q].msg = task[q].msg
  <2>1. ASSUME NEW p \in Publishers, DurableAppend(p)
        PROVE  <1>2!1 /\ <1>2!2
    <3>1. /\ task = [q \in Publishers |-> [pc |-> task[q].pc, msg |-> task[q].msg]]
          /\ task[p].pc = "stamped"
      BY <2>1 DEF DurableAppend, PublishInv
    <3>2. task' = [q \in Publishers |->
                     IF q = p THEN [pc |-> "stored", msg |-> task[p].msg] ELSE task[q]]
      <4>1. task' = [task EXCEPT ![p] = [task[p] EXCEPT !.pc = "stored"]]
        BY <2>1 DEF DurableAppend
      <4>2. [task[p] EXCEPT !.pc = "stored"] = [pc |-> "stored", msg |-> task[p].msg]
        BY <3>1
      <4> QED
        BY <3>1, <4>1, <4>2
    <3>3. \A q \in Publishers : /\ task'[q] = [pc |-> task'[q].pc, msg |-> task'[q].msg]
                                /\ task'[q].msg = task[q].msg
                                /\ Publishing(q)' => Publishing(q)
      BY <3>1, <3>2 DEF Publishing
    <3> QED
      BY <3>2, <3>3
  <2>2. ASSUME NEW p \in Publishers, AppendFails(p)
        PROVE  <1>2!1 /\ <1>2!2
    BY <2>2 DEF AppendFails, PublishInv, Publishing, IdleTask
  <2>3. CASE task' = task
    BY <2>3 DEF PublishInv, Publishing
  <2> QED
    BY <2>1, <2>2, <2>3 DEF PruneTo, vars
<1>3. ReturnedBodies' = ReturnedBodies
  BY <1>1 DEF ReturnedBodies
<1> QED
  BY <1>1, <1>2, <1>3 DEF PublishInv, LiveInPublishOrder

(***************************************************************************)
(* append_and_fanout takes the live lock after the append, so publishes    *)
(* that overlap may be broadcast either way round; one that began after    *)
(* another returned never is broadcast before it, and none is twice.       *)
(***************************************************************************)
THEOREM LiveKeepsPublishOrder == Spec => []LiveInPublishOrder
<1>1. PublishInv /\ [Next]_vars => PublishInv'
  BY StampKeeps, FanOutKeeps, OtherStepsKeep DEF Next
<1>2. PublishInv => LiveInPublishOrder
  BY DEF PublishInv
<1> QED
  BY <1>1, <1>2, PublishInit, PTL DEF Spec

------------------------------------------------------------------------------
(* Where the log, the history and the messages under way stand. *)

Message == [cursor : Nat, body : Nat]

(* In the durable log, and not before the cursor it was stamped with. *)
Durable(m) == \E i \in DOMAIN history : history[i] = m.body /\ m.cursor <= i

LogShape ==
  /\ log = [messages |-> log.messages, floor |-> log.floor]
  /\ log.messages \in Seq(Message)
  /\ log.floor \in Nat

HistoryDistinct ==
  /\ history \in Seq(1..started)
  /\ \A i, j \in DOMAIN history : history[i] = history[j] => i = j

TasksTyped == \A p \in Publishers :
  \/ task[p] = IdleTask
  \/ /\ Publishing(p)
     /\ task[p].msg \in [cursor : Nat, body : 1..started]
     /\ task[p].msg.cursor <= Len(history) + 1

StampedNotYetStored == \A p \in Publishers : task[p].pc = "stamped" =>
  \A i \in DOMAIN history : history[i] # task[p].msg.body

StoredIsDurable == \A p \in Publishers :
  task[p].pc = "stored" => Durable(task[p].msg)

ReturnedIsDurable == \A m \in returned : m \in Message /\ Durable(m)

LogInv == /\ PublishInv
          /\ LogShape
          /\ RetainedIsTail
          /\ HistoryDistinct
          /\ TasksTyped
          /\ StampedNotYetStored
          /\ StoredIsDurable
          /\ ReturnedIsDurable

(* A sequence over a set is one over any larger set. *)
LEMMA SeqWidens == ASSUME NEW S, NEW T, S \subseteq T, NEW s \in Seq(S)
                   PROVE  s \in Seq(T) /\ \A i \in DOMAIN s : s[i] \in S
OBVIOUS

(* The retained messages one by one: numbered from the floor on. *)
LEMMA RetainedByNumber ==
  ASSUME LogShape, RetainedIsTail, HistoryDistinct
  PROVE  /\ log.messages \in Seq(Message) /\ log.floor \in Nat
         /\ Len(log.messages) \in Nat /\ DOMAIN log.messages = 1..Len(log.messages)
         /\ Len(history) \in Nat /\ DOMAIN history = 1..Len(history)
         /\ log.floor + Len(log.messages) = Len(history)
         /\ \A i \in 1..Len(log.messages) :
              /\ log.floor + i \in 1..Len(history)
              /\ log.messages[i] = [cursor |-> log.floor + i, body |-> history[log.floor + i]]
              /\ log.messages[i].cursor = log.floor + i
              /\ log.messages[i].body = history[log.floor + i]
         /\ Consecutive(log.messages, log.floor)
<1>1. /\ log.messages \in Seq(Message) /\ log.floor \in Nat
      /\ Len(log.messages) \in Nat /\ DOMAIN log.messages = 1..Len(log.messages)
      /\ Len(history) \in Nat /\ DOMAIN history = 1..Len(history)
  BY DEF LogShape, HistoryDistinct
<1>2. log.floor + Len(log.messages) = Len(history)
  BY DEF RetainedIsTail, HighCursor
<1>3. ASSUME NEW i \in 1..Len(log.messages)
      PROVE  /\ log.floor + i \in 1..Len(history)
             /\ log.messages[i] = [cursor |-> log.floor + i, body |-> history[log.floor + i]]
             /\ log.messages[i].cursor = log.floor + i
             /\ log.messages[i].body = history[log.floor + i]
  <2>1. log.messages[i] = [cursor |-> log.floor + i, body |-> history[log.floor + i]]
    BY <1>1 DEF RetainedIsTail
  <2>2. log.messages[i].cursor = log.floor + i /\ log.messages[i].body = history[log.floor + i]
    BY <2>1
  <2>3. log.floor + i \in 1..Len(history)
    BY <1>1, <1>2
  <2> QED
    BY <2>1, <2>2, <2>3
<1>4. Consecutive(log.messages, log.floor)
  BY <1>1, <1>3 DEF Consecutive
<1> QED
  BY <1>1, <1>2, <1>3, <1>4

(* An empty log is the tail of an empty history. *)
LEMMA LogInit == Init => LogInv
<1> SUFFICES ASSUME Init  PROVE LogInv
  OBVIOUS
<1>1. PublishInv
  BY PublishInit
<1>2. /\ log = [messages |-> <<>>, floor |-> 0] /\ history = <<>> /\ started = 0 /\ returned = {}
      /\ \A p \in Publishers : task[p] = IdleTask /\ task[p].pc = "idle"
  BY DEF Init, EmptyLog, IdleTask
<1>3. LogShape /\ RetainedIsTail
  BY <1>2 DEF LogShape, RetainedIsTail, HighCursor
<1> QED
  BY <1>1, <1>2, <1>3 DEF LogInv, HistoryDistinct, TasksTyped, StampedNotYetStored,
     StoredIsDurable, ReturnedIsDurable

(* A stamp reads the next cursor and writes nothing durable. *)
LEMMA StampKeepsLog == ASSUME LogInv, NEW p \in Publishers, Stamp(p)
                       PROVE  LogInv'
<1>1. PublishInv'
  BY StampKeeps DEF LogInv
<1>2. /\ started \in Nat /\ started' = started + 1
      /\ UNCHANGED <<log, returned, history>>
      /\ task[p].pc = "idle"
  BY DEF Stamp, LogInv, PublishInv
<1>3. 1..started \subseteq 1..started' /\ started' \in 1..started' /\ started' \notin 1..started
  BY <1>2
<1>4. /\ NextCursor(log) = Len(history) + 1
      /\ history \in Seq(1..started) /\ Len(history) \in Nat
  BY DEF LogInv, RetainedIsTail, NextCursor, HistoryDistinct
<1>5. /\ task'[p] = [pc |-> "stamped", msg |-> [cursor |-> Len(history) + 1, body |-> started']]
      /\ \A q \in Publishers : q # p => task'[q] = task[q]
  BY <1>2, <1>4 DEF Stamp, LogInv, PublishInv
<1>6. HistoryDistinct'
  <2>1. history \in Seq(1..started')
    BY <1>3, <1>4, SeqWidens
  <2> QED
    BY <1>2, <2>1 DEF HistoryDistinct, LogInv
<1>7. TasksTyped'
  <2> SUFFICES ASSUME NEW q \in Publishers
               PROVE  \/ task'[q] = IdleTask
                      \/ /\ Publishing(q)'
                         /\ task'[q].msg \in [cursor : Nat, body : 1..started']
                         /\ task'[q].msg.cursor <= Len(history) + 1
    BY <1>2 DEF TasksTyped
  <2>1. CASE q = p
    BY <1>3, <1>4, <1>5, <2>1 DEF Publishing
  <2>2. CASE q # p
    BY <1>3, <1>5, <2>2 DEF Publishing, LogInv, TasksTyped
  <2> QED
    BY <2>1, <2>2
<1>8. StampedNotYetStored'
  <2>1. \A i \in DOMAIN history : history[i] \in 1..started
    BY <1>4, SeqWidens
  <2> QED
    BY <1>2, <1>3, <1>5, <2>1 DEF StampedNotYetStored, LogInv
<1>9. StoredIsDurable' /\ ReturnedIsDurable' /\ LogShape' /\ RetainedIsTail'
  BY <1>2, <1>5 DEF StoredIsDurable, ReturnedIsDurable, Durable, LogShape, RetainedIsTail,
     HighCursor, LogInv
<1> QED
  BY <1>1, <1>6, <1>7, <1>8, <1>9 DEF LogInv

(* The op takes the next position, and the body it brings is a new one. *)
LEMMA AppendKeepsLog == ASSUME LogInv, NEW p \in Publishers, DurableAppend(p)
                        PROVE  LogInv'
<1> DEFINE m    == task[p].msg
           n    == Len(history)
           kept == log.messages
<1>1. PublishInv'
  BY OtherStepsKeep DEF LogInv
<1>2. /\ task[p].pc = "stamped"
      /\ log' = AppendMessage(log, m)
      /\ history' = Append(history, m.body)
      /\ task' = [task EXCEPT ![p] = [task[p] EXCEPT !.pc = "stored"]]
      /\ UNCHANGED <<returned, started>>
  BY DEF DurableAppend
<1>3. m \in [cursor : Nat, body : 1..started] /\ m.cursor <= n + 1
  BY <1>2 DEF LogInv, TasksTyped, IdleTask
<1>4. /\ kept \in Seq(Message) /\ log.floor \in Nat /\ log.floor + Len(kept) = n
      /\ history \in Seq(1..started) /\ n \in Nat /\ started \in Nat
      /\ Len(kept) \in Nat
      /\ log = [messages |-> kept, floor |-> log.floor]
  BY DEF LogInv, LogShape, RetainedIsTail, HistoryDistinct, HighCursor, PublishInv
<1>5. /\ \A q \in Publishers : q # p => task'[q] = task[q]
      /\ task'[p] = [pc |-> "stored", msg |-> m]
  BY <1>2 DEF LogInv, PublishInv
<1>6. [m EXCEPT !.cursor = NextCursor(log)] = [cursor |-> n + 1, body |-> m.body]
  BY <1>3, <1>4 DEF NextCursor, HighCursor
<1>7. log' = [messages |-> Append(kept, [cursor |-> n + 1, body |-> m.body]),
              floor |-> log.floor]
  BY <1>2, <1>4, <1>6 DEF AppendMessage
<1>8. m.body \in Nat /\ m.body \in 1..started
      /\ [cursor |-> n + 1, body |-> m.body] \in Message
  BY <1>3, <1>4 DEF Message
<1>9. \A i \in DOMAIN history : history[i] # m.body
  BY <1>2 DEF LogInv, StampedNotYetStored
<1> HIDE DEF m, n, kept
<1>10. /\ history' \in Seq(1..started) /\ Len(history') = n + 1
       /\ \A i \in 1..n : history'[i] = history[i]
       /\ history'[n + 1] = m.body
       /\ DOMAIN history = 1..n /\ DOMAIN history' = 1..(n + 1)
  BY <1>2, <1>4, <1>8, AppendProperties DEF n
<1>11. /\ log'.messages \in Seq(Message) /\ Len(log'.messages) = Len(kept) + 1
       /\ \A i \in 1..Len(kept) : log'.messages[i] = kept[i]
       /\ log'.messages[Len(kept) + 1] = [cursor |-> n + 1, body |-> m.body]
       /\ DOMAIN log'.messages = 1..(Len(kept) + 1)
       /\ log'.floor = log.floor
  BY <1>4, <1>7, <1>8, AppendProperties
<1>12. LogShape'
  BY <1>4, <1>7, <1>11 DEF LogShape
<1>13. RetainedIsTail'
  <2>1. \A i \in 1..Len(kept) :
           kept[i] = [cursor |-> log.floor + i, body |-> history[log.floor + i]]
    BY <1>4 DEF LogInv, RetainedIsTail, kept
  <2>2. \A i \in 1..Len(kept) : log.floor + i \in 1..n
    BY <1>4
  <2>3. log'.floor + Len(log'.messages) = n + 1
    BY <1>4, <1>11
  <2>4. \A i \in DOMAIN log'.messages :
          log'.messages[i] = [cursor |-> log'.floor + i, body |-> history'[log'.floor + i]]
    <3> TAKE i \in DOMAIN log'.messages
    <3>1. CASE i \in 1..Len(kept)
      BY <1>10, <1>11, <2>1, <2>2, <3>1
    <3>2. CASE i = Len(kept) + 1
      <4>1. log'.floor + i = n + 1
        BY <1>4, <1>11, <3>2
      <4> QED
        BY <1>10, <1>11, <3>2, <4>1
    <3> QED
      BY <1>4, <1>11, <3>1, <3>2
  <2> QED
    BY <1>10, <2>3, <2>4 DEF RetainedIsTail, HighCursor
<1>14. HistoryDistinct'
  <2>1. \A i, j \in 1..n : history[i] = history[j] => i = j
    BY <1>10 DEF LogInv, HistoryDistinct
  <2>2. \A i \in 1..(n + 1) : i \in 1..n \/ i = n + 1
    BY <1>4
  <2>3. \A i \in 1..n : history'[i] # history'[n + 1]
    BY <1>9, <1>10
  <2>4. \A i, j \in 1..(n + 1) : history'[i] = history'[j] => i = j
    BY <1>10, <2>1, <2>2, <2>3
  <2> QED
    BY <1>2, <1>10, <2>4 DEF HistoryDistinct
<1>15. ASSUME NEW k, \E i \in DOMAIN history : history[i] = k.body /\ k.cursor <= i
       PROVE  \E i \in DOMAIN history' : history'[i] = k.body /\ k.cursor <= i
  <2>1. PICK i \in DOMAIN history : history[i] = k.body /\ k.cursor <= i
    BY <1>15
  <2> QED
    BY <1>4, <1>10, <2>1
<1>16. TasksTyped'
  <2> SUFFICES ASSUME NEW q \in Publishers
               PROVE  \/ task'[q] = IdleTask
                      \/ /\ Publishing(q)'
                         /\ task'[q].msg \in [cursor : Nat, body : 1..started]
                         /\ task'[q].msg.cursor <= (n + 1) + 1
    BY <1>2, <1>10 DEF TasksTyped
  <2>1. CASE q = p
    BY <1>3, <1>4, <1>5, <2>1 DEF Publishing
  <2>2. CASE q # p
    BY <1>4, <1>5, <2>2 DEF Publishing, LogInv, TasksTyped, n
  <2> QED
    BY <2>1, <2>2
<1>17. StampedNotYetStored'
  <2> SUFFICES ASSUME NEW q \in Publishers, task'[q].pc = "stamped",
                      NEW i \in DOMAIN history'
               PROVE  history'[i] # task'[q].msg.body
    BY DEF StampedNotYetStored
  <2>1. q # p /\ task'[q] = task[q] /\ task[q].pc = "stamped"
    BY <1>5
  <2>2. \A k \in DOMAIN history : history[k] # task[q].msg.body
    BY <2>1 DEF LogInv, StampedNotYetStored
  <2>3. task[q].msg.body # m.body
    BY <1>2, <2>1 DEF LogInv, PublishInv, Publishing, m
  <2>4. i \in 1..n \/ i = n + 1
    BY <1>4, <1>10
  <2> QED
    BY <1>10, <2>1, <2>2, <2>3, <2>4
<1>18. \E i \in DOMAIN history' : history'[i] = m.body /\ m.cursor <= i
  BY <1>3, <1>4, <1>10
<1>19. StoredIsDurable'
  <2> SUFFICES ASSUME NEW q \in Publishers, task'[q].pc = "stored"
               PROVE  \E i \in DOMAIN history' :
                        history'[i] = task'[q].msg.body /\ task'[q].msg.cursor <= i
    BY DEF StoredIsDurable, Durable
  <2>1. CASE q = p
    BY <1>5, <1>18, <2>1
  <2>2. CASE q # p
    BY <1>5, <1>15, <2>2 DEF LogInv, StoredIsDurable, Durable
  <2> QED
    BY <2>1, <2>2
<1>20. ReturnedIsDurable'
  BY <1>2, <1>15 DEF LogInv, ReturnedIsDurable, Durable
<1> QED
  BY <1>1, <1>12, <1>13, <1>14, <1>16, <1>17, <1>19, <1>20 DEF LogInv

(* Giving up leaves the rest as it is. *)
LEMMA GiveUpKeepsLog == ASSUME LogInv, NEW p \in Publishers, AppendFails(p)
                        PROVE  LogInv'
<1>1. PublishInv'
  BY OtherStepsKeep DEF LogInv
<1>2. /\ UNCHANGED <<log, returned, history, started>>
      /\ task'[p] = IdleTask /\ task'[p].pc = "idle"
      /\ \A q \in Publishers : q # p => task'[q] = task[q]
  BY DEF AppendFails, LogInv, PublishInv, IdleTask
<1>3. TasksTyped' /\ StampedNotYetStored' /\ StoredIsDurable'
  BY <1>2 DEF LogInv, TasksTyped, Publishing, StampedNotYetStored, StoredIsDurable, Durable
<1> QED
  BY <1>1, <1>2, <1>3 DEF LogInv, LogShape, RetainedIsTail, HighCursor, HistoryDistinct,
     ReturnedIsDurable, Durable

(* The broadcast, sent or failed, follows the append. *)
LEMMA ReturnKeepsLog == ASSUME LogInv, NEW p \in Publishers, FanOut(p) \/ FanOutFails(p)
                        PROVE  LogInv'
<1>1. PublishInv'
  BY FanOutKeeps DEF LogInv
<1>2. /\ UNCHANGED <<log, history, started>>
      /\ task[p].pc = "stored" /\ returned' = returned \cup {task[p].msg}
      /\ task'[p] = IdleTask /\ task'[p].pc = "idle"
      /\ \A q \in Publishers : q # p => task'[q] = task[q]
  BY DEF FanOut, FanOutFails, LogInv, PublishInv, IdleTask
<1>3. TasksTyped' /\ StampedNotYetStored' /\ StoredIsDurable'
  BY <1>2 DEF LogInv, TasksTyped, Publishing, StampedNotYetStored, StoredIsDurable, Durable
<1>4. task[p].msg \in Message /\ Durable(task[p].msg)
  BY <1>2 DEF LogInv, TasksTyped, StoredIsDurable, Message, IdleTask
<1>5. ReturnedIsDurable'
  BY <1>2, <1>4 DEF LogInv, ReturnedIsDurable, Durable
<1> QED
  BY <1>1, <1>2, <1>3, <1>5 DEF LogInv, LogShape, RetainedIsTail, HighCursor, HistoryDistinct

(* The floor rises by what is dropped, so the cursors stay absolute. *)
LEMMA PruneKeepsLog == ASSUME LogInv, NEW c \in 0..(MaxMessages + 1), PruneTo(c)
                       PROVE  LogInv'
<1> DEFINE kept  == log.messages
           d     == Dropped(kept, log.floor, c)
           after_prune == [k \in 1..(Len(kept) - d) |-> kept[d + k]]
<1>1. PublishInv'
  BY OtherStepsKeep DEF LogInv
<1>2. UNCHANGED <<task, returned, history, started>> /\ log' = DropUpTo(log, c)
  BY DEF PruneTo
<1>3. /\ kept \in Seq(Message) /\ log.floor \in Nat /\ Len(kept) \in Nat
      /\ log.floor + Len(kept) = Len(history) /\ c \in Int
      /\ DOMAIN kept = 1..Len(kept)
      /\ \A i \in 1..Len(kept) :
            kept[i] = [cursor |-> log.floor + i, body |-> history[log.floor + i]]
  BY DEF LogInv, LogShape, RetainedIsTail, HighCursor
<1>4. Consecutive(kept, log.floor)
  BY RetainedByNumber DEF LogInv
<1>5. d \in 0..Len(kept) /\ Above(kept, c) = after_prune
  BY <1>3, <1>4, AboveIsTail
<1> HIDE DEF kept, d
<1>6. after_prune \in Seq(Message) /\ Len(after_prune) = Len(kept) - d
      /\ DOMAIN after_prune = 1..(Len(kept) - d)
  <2>1. \A k \in 1..(Len(kept) - d) : d + k \in 1..Len(kept)
    BY <1>3, <1>5
  <2>2. Len(kept) - d \in Nat
    BY <1>3, <1>5
  <2>3. after_prune \in [1..(Len(kept) - d) -> Message]
    BY <1>3, <2>1
  <2> QED
    BY <2>2, <2>3
<1>7. log' = [messages |-> after_prune, floor |-> log.floor + d]
  <2>1. Len(kept) - (Len(kept) - d) = d
    BY <1>3, <1>5
  <2>2. DropUpTo(log, c) = [messages |-> Above(kept, c),
                            floor |-> log.floor + (Len(kept) - Len(Above(kept, c)))]
    BY DEF DropUpTo, kept
  <2> HIDE DEF after_prune
  <2> QED
    BY <1>2, <1>5, <1>6, <2>1, <2>2
<1>8. log'.messages = after_prune /\ log'.floor = log.floor + d
  BY <1>7
<1>9. LogShape'
  BY <1>3, <1>5, <1>6, <1>7 DEF LogShape
<1>10. \A k \in 1..(Len(kept) - d) :
         /\ d + k \in 1..Len(kept)
         /\ log.floor + (d + k) = (log.floor + d) + k
         /\ after_prune[k] = kept[d + k]
  BY <1>3, <1>5
<1>11. log.floor + d + (Len(kept) - d) = Len(history)
  BY <1>3, <1>5
<1> HIDE DEF after_prune
<1>12. \A k \in DOMAIN log'.messages :
         log'.messages[k] = [cursor |-> log'.floor + k, body |-> history[log'.floor + k]]
  BY <1>3, <1>6, <1>8, <1>10
<1>13. RetainedIsTail'
  BY <1>2, <1>6, <1>8, <1>11, <1>12 DEF RetainedIsTail, HighCursor
<1> QED
  BY <1>1, <1>2, <1>9, <1>13 DEF LogInv, HistoryDistinct, TasksTyped, Publishing,
     StampedNotYetStored, StoredIsDurable, ReturnedIsDurable, Durable

(* Every step keeps the invariant. *)
LEMMA LogStep == LogInv /\ [Next]_vars => LogInv'
<1>1. ASSUME LogInv, UNCHANGED vars  PROVE LogInv'
  <2>1. PublishInv'
    BY <1>1, OtherStepsKeep DEF LogInv
  <2> QED
    BY <1>1, <2>1 DEF vars, LogInv, LogShape, RetainedIsTail, HighCursor, HistoryDistinct,
       TasksTyped, Publishing, StampedNotYetStored, StoredIsDurable, ReturnedIsDurable, Durable
<1> QED
  BY <1>1, StampKeepsLog, AppendKeepsLog, GiveUpKeepsLog, ReturnKeepsLog, PruneKeepsLog DEF Next

(* The log is well formed in every reachable state. *)
LEMMA LogInvariant == Spec => []LogInv
  BY LogInit, LogStep, PTL DEF Spec

------------------------------------------------------------------------------
(* What follows from the invariant. *)

(* No publish is appended twice, so the history is as short as their number. *)
LEMMA HistoryIsBounded ==
  ASSUME LogInv
  PROVE  /\ Len(history) \in Nat /\ DOMAIN history = 1..Len(history)
         /\ Len(history) <= started /\ started \in Nat /\ started <= MaxMessages
         /\ log.floor \in Nat /\ Len(log.messages) \in Nat
         /\ log.floor + Len(log.messages) = Len(history)
<1>1. history \in Seq(1..started) /\ started \in Nat /\ started <= MaxMessages
  BY MaxMessagesAssumption DEF LogInv, HistoryDistinct, PublishInv
<1>2. Len(history) <= started
  BY <1>1, DistinctAreFew DEF LogInv, HistoryDistinct
<1> QED
  BY <1>1, <1>2 DEF LogInv, LogShape, RetainedIsTail, HighCursor

(***************************************************************************)
(* However appends, prunes and publishers interleave, the log is the tail  *)
(* of all that was ever appended, each message under its absolute cursor,  *)
(* whatever cursor its publisher stamped on it.                            *)
(***************************************************************************)
THEOREM LogIsTailOfHistory == Spec => []RetainedIsTail
<1>1. LogInv => RetainedIsTail
  BY DEF LogInv
<1> QED
  BY <1>1, LogInvariant, PTL

(***************************************************************************)
(* get(), which indexes, finds message number c exactly while it is        *)
(* retained.                                                               *)
(***************************************************************************)
THEOREM GetFindsWhatIsRetained == Spec => []GetFindsStored
<1>1. LogInv => GetFindsStored
  <2> SUFFICES ASSUME LogInv, NEW c \in 0..(MaxMessages + 1)
               PROVE  MessageAt(log, c) =
                        IF c \in (log.floor + 1)..Len(history)
                        THEN [cursor |-> c, body |-> history[c]] ELSE NoMessage
    BY DEF GetFindsStored
  <2>1. /\ log.floor \in Nat /\ Len(history) \in Nat /\ c \in Int
        /\ log.floor + Len(log.messages) = Len(history)
    BY HistoryIsBounded, MaxMessagesAssumption
  <2>2. c \in (log.floor + 1)..Len(history) <=> ~(c <= log.floor \/ c > HighCursor(log))
    BY <2>1 DEF HighCursor
  <2>3. CASE c \in (log.floor + 1)..Len(history)
    <3>1. c - log.floor \in DOMAIN log.messages /\ log.floor + (c - log.floor) = c
      BY <2>1, <2>3 DEF LogInv, LogShape
    <3>2. log.messages[c - log.floor] = [cursor |-> c, body |-> history[c]]
      BY <3>1 DEF LogInv, RetainedIsTail
    <3> QED
      BY <2>2, <2>3, <3>2 DEF MessageAt
  <2>4. CASE c \notin (log.floor + 1)..Len(history)
    BY <2>2, <2>4 DEF MessageAt
  <2> QED
    BY <2>3, <2>4
<1> QED
  BY <1>1, LogInvariant, PTL

(***************************************************************************)
(* since(from) replays the retained messages after `from`, in the order    *)
(* they were appended, none skipped and none twice.                        *)
(***************************************************************************)
THEOREM SinceReplaysTheTail == Spec => []SinceIsStrictTail
<1>1. LogInv => SinceIsStrictTail
  <2> SUFFICES ASSUME LogInv, NEW from \in 0..(MaxMessages + 1)
               PROVE  LET tail  == Since(log, from)
                          first == IF from > log.floor THEN from ELSE log.floor
                      IN  [i \in DOMAIN tail |-> tail[i].body] =
                            SubSeq(history, first + 1, Len(history))
    BY DEF SinceIsStrictTail
  <2> DEFINE kept  == log.messages
             d     == Dropped(kept, log.floor, from)
             first == IF from > log.floor THEN from ELSE log.floor
             tail  == Since(log, from)
             sub   == SubSeq(history, first + 1, Len(history))
  <2>1. /\ log.floor \in Nat /\ Len(history) \in Nat /\ from \in Int
        /\ log.floor + Len(kept) = Len(history) /\ Len(kept) \in Nat
        /\ kept \in Seq(Message) /\ DOMAIN kept = 1..Len(kept)
        /\ \A i \in 1..Len(kept) : kept[i].body = history[log.floor + i]
        /\ Consecutive(kept, log.floor)
    <3>1. LogShape /\ RetainedIsTail /\ HistoryDistinct
      BY DEF LogInv
    <3>2. from \in Int
      BY MaxMessagesAssumption
    <3> QED
      BY <3>1, <3>2, RetainedByNumber
  <2>3. d \in 0..Len(kept) /\ Above(kept, from) = [k \in 1..(Len(kept) - d) |-> kept[d + k]]
    <3> HIDE DEF kept, d
    <3>1. /\ Dropped(kept, log.floor, from) \in 0..Len(kept)
          /\ Above(kept, from) = [k \in 1..(Len(kept) - Dropped(kept, log.floor, from)) |->
                                    kept[Dropped(kept, log.floor, from) + k]]
      BY <2>1, AboveIsTail
    <3> QED
      BY <3>1 DEF d
  <2>4. tail = [k \in 1..(Len(kept) - d) |-> kept[d + k]]
    BY <2>3 DEF Since
  <2>5. \/ first <= Len(history) /\ first = log.floor + d
        \/ first > Len(history) /\ d = Len(kept)
    BY <2>1 DEF Dropped
  <2>6. first \in Nat /\ \A i \in (first + 1)..Len(history) : i \in DOMAIN history
    BY <2>1, HistoryIsBounded
  <2> HIDE DEF kept, d, first, tail
  <2>10. /\ log.floor \in Nat /\ Len(history) \in Nat /\ Len(kept) \in Nat
         /\ d \in Nat /\ d <= Len(kept) /\ first \in Nat
         /\ log.floor + Len(kept) = Len(history)
    BY <2>1, <2>3, <2>6
  <2>7. [i \in DOMAIN tail |-> tail[i].body] =
          [k \in 1..(Len(kept) - d) |-> history[log.floor + (d + k)]]
    <3>1. \A k \in 1..(Len(kept) - d) : d + k \in 1..Len(kept)
      BY <2>1, <2>3
    <3>2. DOMAIN tail = 1..(Len(kept) - d)
          /\ \A k \in 1..(Len(kept) - d) : tail[k] = kept[d + k]
      BY <2>4
    <3>3. \A k \in 1..(Len(kept) - d) : tail[k].body = history[log.floor + (d + k)]
      BY <2>1, <3>1, <3>2
    <3> QED
      BY <3>2, <3>3
  <2>8. sub = [k \in 1..(Len(kept) - d) |-> history[first + k]]
    <3>1. sub = [k \in 1..(1 + Len(history) - (first + 1)) |-> history[k + (first + 1) - 1]]
      BY <2>1, <2>6
    <3>2. 1..(1 + Len(history) - (first + 1)) = 1..(Len(kept) - d)
      <4>1. \/ 1 + Len(history) - (first + 1) = Len(kept) - d
            \/ 1 + Len(history) - (first + 1) < 1 /\ Len(kept) - d < 1
        BY <2>5, <2>10
      <4>2. 1 + Len(history) - (first + 1) \in Int /\ Len(kept) - d \in Int
        BY <2>10
      <4> QED
        BY <4>1, <4>2
    <3>3. \A k \in 1..(Len(kept) - d) : k + (first + 1) - 1 = first + k
      BY <2>3, <2>6
    <3> QED
      BY <3>1, <3>2, <3>3
  <2>9. \A k \in 1..(Len(kept) - d) : log.floor + (d + k) = first + k
    BY <2>5, <2>10
  <2>11. [i \in DOMAIN tail |-> tail[i].body] = sub
    BY <2>7, <2>8, <2>9
  <2> QED
    BY <2>11 DEF first, tail
<1> QED
  BY <1>1, LogInvariant, PTL

(***************************************************************************)
(* What was returned or broadcast is in the durable log exactly once, and  *)
(* at no earlier position than the cursor its publisher was given.         *)
(***************************************************************************)
THEOREM PublishedIsDurable == Spec => []AnnouncedIsDurable
<1>1. LogInv => AnnouncedIsDurable
  <2> SUFFICES ASSUME LogInv, NEW m \in returned \cup {live[i] : i \in DOMAIN live}
               PROVE  /\ Cardinality(PositionsOf(m.body)) = 1
                      /\ \A i \in PositionsOf(m.body) : m.cursor <= i
    BY DEF AnnouncedIsDurable
  <2>1. m \in returned
    BY DEF LogInv, PublishInv
  <2>2. PICK i \in DOMAIN history : history[i] = m.body /\ m.cursor <= i
    BY <2>1 DEF LogInv, ReturnedIsDurable, Durable
  <2>3. PositionsOf(m.body) = {i}
    BY <2>2 DEF LogInv, HistoryDistinct, PositionsOf
  <2> QED
    BY <2>2, <2>3, FS_Singleton
<1> QED
  BY <1>1, LogInvariant, PTL

(***************************************************************************)
(* Types; with them the bounds: no body is appended twice, so the history  *)
(* and every cursor stay within the number of publishes.                   *)
(***************************************************************************)
THEOREM PublishTypes == Spec => []TypeOK
<1>1. LogInv => TypeOK
  <2> SUFFICES ASSUME LogInv  PROVE TypeOK
    OBVIOUS
  <2> DEFINE n == Len(history)
  <2>1. /\ n \in Nat /\ n <= MaxMessages /\ started \in 0..MaxMessages
        /\ 1..started \subseteq Body /\ MaxMessages \in Nat
        /\ \A i \in DOMAIN history : history[i] \in Body
        /\ history \in Seq(Body)
    <3>1. 1..started \subseteq Body
      BY HistoryIsBounded, MaxMessagesAssumption DEF Body
    <3>2. history \in Seq(1..started)
      BY DEF LogInv, HistoryDistinct
    <3>3. history \in Seq(Body) /\ \A i \in DOMAIN history : history[i] \in 1..started
      BY <3>1, <3>2, SeqWidens
    <3> QED
      BY <3>1, <3>3, HistoryIsBounded, MaxMessagesAssumption
  <2>2. log.floor \in 0..MaxMessages
    BY <2>1, HistoryIsBounded
  <2>3. log.messages \in Seq(MessageType)
    <3>1. log.messages = [i \in 1..Len(log.messages) |-> log.messages[i]]
          /\ DOMAIN log.messages = 1..Len(log.messages) /\ Len(log.messages) \in Nat
      BY DEF LogInv, LogShape
    <3>2. \A i \in 1..Len(log.messages) :
            /\ log.messages[i] = [cursor |-> log.floor + i, body |-> history[log.floor + i]]
            /\ log.floor + i \in 0..(MaxMessages + 1)
            /\ log.floor + i \in DOMAIN history
      <4>1. LogShape /\ RetainedIsTail /\ HistoryDistinct
        BY DEF LogInv
      <4> TAKE i \in 1..Len(log.messages)
      <4>2. /\ log.messages[i] = [cursor |-> log.floor + i, body |-> history[log.floor + i]]
            /\ log.floor + i \in 1..n /\ DOMAIN history = 1..n
        BY <4>1, RetainedByNumber
      <4>3. log.floor + i \in 0..(MaxMessages + 1)
        BY <2>1, <4>2
      <4> QED
        BY <4>2, <4>3
    <3>3. \A i \in 1..Len(log.messages) : log.messages[i] \in MessageType
      <4> TAKE i \in 1..Len(log.messages)
      <4>1. history[log.floor + i] \in Body
        BY <2>1, <3>2
      <4>2. [cursor |-> log.floor + i, body |-> history[log.floor + i]]
              \in [cursor : 0..(MaxMessages + 1), body : Body]
        BY <3>2, <4>1
      <4> QED
        BY <3>2, <4>2 DEF MessageType
    <3>4. log.messages \in [1..Len(log.messages) -> MessageType]
      BY <3>1, <3>3
    <3> QED
      BY <3>1, <3>4
  <2>4. \A p \in Publishers :
          task[p] = IdleTask \/ task[p] \in [pc : {"stamped", "stored"}, msg : MessageType]
    <3> TAKE p \in Publishers
    <3>1. CASE task[p] # IdleTask
      <4>1. /\ task[p] = [pc |-> task[p].pc, msg |-> task[p].msg]
            /\ task[p].pc \in {"stamped", "stored"}
        BY <3>1 DEF LogInv, PublishInv, TasksTyped, Publishing
      <4>2. /\ task[p].msg \in [cursor : Nat, body : 1..started]
            /\ task[p].msg.cursor <= n + 1
        BY <3>1 DEF LogInv, TasksTyped
      <4>3. task[p].msg \in MessageType
        <5>1. task[p].msg.cursor \in 0..(MaxMessages + 1)
          BY <2>1, <4>2
        <5> QED
          BY <2>1, <4>2, <5>1 DEF MessageType
      <4> QED
        BY <4>1, <4>3
    <3> QED
      BY <3>1
  <2>5. returned \subseteq MessageType
    <3> SUFFICES ASSUME NEW m \in returned  PROVE m \in MessageType
      OBVIOUS
    <3>1. m \in [cursor : Nat, body : Nat]
      BY DEF LogInv, ReturnedIsDurable, Message
    <3>2. PICK i \in DOMAIN history : history[i] = m.body /\ m.cursor <= i
      BY DEF LogInv, ReturnedIsDurable, Durable
    <3>3. m.body \in Body /\ m.cursor \in 0..(MaxMessages + 1)
      BY <2>1, <3>1, <3>2, HistoryIsBounded
    <3> QED
      BY <3>1, <3>3 DEF MessageType
  <2>6. live \in Seq(MessageType)
    BY <2>5, SeqWidens DEF LogInv, PublishInv
  <2> QED
    BY <2>1, <2>2, <2>3, <2>4, <2>5, <2>6 DEF TypeOK, LogInv, PublishInv
<1> QED
  BY <1>1, LogInvariant, PTL
==============================================================================
