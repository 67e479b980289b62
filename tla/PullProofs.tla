------------------------------ MODULE PullProofs -----------------------------
(***************************************************************************)
(* Proofs about Pull, for every value of its constants: pages taken from   *)
(* one lagging replica after another neither skip nor repeat a message,    *)
(* and a Replay that says it is complete is.                               *)
(***************************************************************************)
EXTENDS Pull, SequenceTheorems, TLAPS

(* The owner's log only grows, so a replica that replays gets further. *)
OwnerGrows == \A i, j \in 1..Len(owner) : i <= j => owner[i].high <= owner[j].high

(* What converge_to has seen still holds when the page is read. *)
TargetReached ==
  /\ pc = "converging" => target # NoTarget
  /\ converged => /\ pc = "reading"
                  /\ target # NoTarget
                  /\ target <= Held.high

(***************************************************************************)
(* The inductive invariant.  PagesComplete is inductive with the types     *)
(* alone, wherever the replicas are: a page starts right after the         *)
(* reader's position or right after a floor that is then reported.         *)
(* ConvergedIsComplete needs it, and that a replica never falls behind a   *)
(* target it has reached.                                                  *)
(***************************************************************************)
PullInv ==
  /\ TypeOK
  /\ OwnerGrows
  /\ TargetReached
  /\ PagesComplete
  /\ ConvergedIsComplete

------------------------------------------------------------------------------
(* The states a log and its replica have. *)
LEMMA StateFields ==
  ASSUME TypeOK
  PROVE  /\ \A i \in 1..Len(owner) : /\ owner[i] \in LogState
                                     /\ owner[i].high \in 0..MaxCursor
                                     /\ owner[i].floor \in 0..MaxCursor
         /\ Len(owner) \in Nat
         /\ Held.high \in 0..MaxCursor
         /\ Held.floor \in 0..MaxCursor
         /\ Present.high \in 0..MaxCursor
         /\ Present.floor \in 0..MaxCursor
<1>1. /\ owner \in Seq(LogState)
      /\ Len(owner) \in Nat
      /\ replica \in 1..Len(owner)
      /\ Len(owner) \in 1..Len(owner)
  BY BoundsAssumption DEF TypeOK
<1>2. \A i \in 1..Len(owner) : owner[i] \in LogState
  BY <1>1
<1> QED
  BY <1>1, <1>2 DEF LogState, Cursors, Held, Present

(* A page is the run of cursors First..Last(limit), which may be empty. *)
LEMMA PageIsRun ==
  ASSUME TypeOK, NEW limit \in Limits
  PROVE  /\ First \in 1..(MaxCursor + 1)
         /\ First > from /\ First > Held.floor
         /\ First = from + 1 \/ First = Held.floor + 1
         /\ Last(limit) \in (First - 1)..MaxCursor
         /\ Page(limit) \in Seq(1..MaxCursor)
         /\ Len(Page(limit)) = Last(limit) - First + 1
         /\ \A i \in 1..Len(Page(limit)) : Page(limit)[i] = First - 1 + i
         /\ Page(limit) = <<>> <=> Last(limit) = First - 1
<1>1. /\ from \in 0..MaxCursor
      /\ Held.high \in 0..MaxCursor
      /\ Held.floor \in 0..MaxCursor
      /\ limit \in Nat \ {0}
      /\ MaxCursor \in Nat
  BY StateFields, LimitsAssumption, BoundsAssumption DEF TypeOK, Cursors
<1>2. /\ First \in 1..(MaxCursor + 1)
      /\ First > from /\ First > Held.floor
      /\ First = from + 1 \/ First = Held.floor + 1
  BY <1>1 DEF First, Larger
<1> HIDE DEF First
<1>3. Last(limit) \in (First - 1)..MaxCursor
  BY <1>1, <1>2 DEF Last, Larger, Smaller
<1> HIDE DEF Last
<1> DEFINE n == Last(limit) - First + 1
<1>4. n \in Nat /\ \A i \in 1..n : First - 1 + i \in 1..MaxCursor
  BY <1>1, <1>2, <1>3
<1>5. Page(limit) = [i \in 1..n |-> First - 1 + i]
  BY DEF Page
<1> HIDE DEF n
<1>6. Page(limit) \in [1..n -> 1..MaxCursor] /\ DOMAIN Page(limit) = 1..n
  BY <1>4, <1>5
<1>7. Page(limit) \in Seq(1..MaxCursor) /\ Len(Page(limit)) = n
  <2>1. Page(limit) \in Seq(1..MaxCursor)
    BY <1>4, <1>6, SeqDef
  <2>2. Len(Page(limit)) \in Nat /\ DOMAIN Page(limit) = 1..Len(Page(limit))
    BY <2>1, LenProperties
  <2>3. 1..Len(Page(limit)) = 1..n
    BY <1>6, <2>2
  <2> DEFINE l == Len(Page(limit))
  <2>4. l = 0 \/ l \in 1..l
    BY <2>2
  <2>5. n = 0 \/ n \in 1..n
    BY <1>4
  <2>6. l \in Nat /\ (l = 0 \/ l \in 1..n) /\ (n = 0 \/ n \in 1..l)
    BY <2>2, <2>3, <2>4, <2>5
  <2> HIDE DEF l
  <2>7. l = n
    BY <1>4, <2>6
  <2> QED
    BY <2>1, <2>7 DEF l
<1>8. \A i \in 1..Len(Page(limit)) : Page(limit)[i] = First - 1 + i
  BY <1>5, <1>7
<1>9. Page(limit) = <<>> <=> Last(limit) = First - 1
  <2>1. Page(limit) = <<>> <=> Len(Page(limit)) = 0
    BY <1>7, EmptySeq
  <2> QED
    BY <1>2, <1>3, <1>7, <2>1 DEF n
<1> QED
  BY <1>2, <1>3, <1>7, <1>8, <1>9 DEF n

(* Reading a page returns exactly its run, after what was returned before. *)
LEMMA PageReturns ==
  ASSUME TypeOK, NEW limit \in Limits, ReadPage(limit)
  PROVE  /\ delivered' \in Seq(1..MaxCursor)
         /\ Len(delivered') = Len(delivered) + (Last(limit) - First + 1)
         /\ \A i \in 1..Len(delivered') :
              delivered'[i] = IF i <= Len(delivered) THEN delivered[i]
                              ELSE First - 1 + (i - Len(delivered))
         /\ Returned' = Returned \cup (First..Last(limit))
<1> DEFINE page == Page(limit)
           n    == Len(delivered)
           m    == Last(limit) - First + 1
<1>1. /\ delivered \in Seq(1..MaxCursor)
      /\ n \in Nat
      /\ DOMAIN delivered = 1..n
  BY LenProperties DEF TypeOK
<1>2. /\ page \in Seq(1..MaxCursor)
      /\ Len(page) = m
      /\ m \in Nat
      /\ First \in Nat /\ Last(limit) \in Int
      /\ \A i \in 1..m : page[i] = First - 1 + i
  BY PageIsRun, BoundsAssumption
<1>3. delivered' = delivered \o page
  BY DEF ReadPage
<1> HIDE DEF page
<1>4. /\ delivered' \in Seq(1..MaxCursor)
      /\ Len(delivered') = n + m
      /\ \A i \in 1..(n + m) :
           delivered'[i] = IF i <= n THEN delivered[i] ELSE page[i - n]
  <2>1. /\ delivered \o page \in Seq(1..MaxCursor)
        /\ Len(delivered \o page) = Len(delivered) + Len(page)
        /\ \A i \in 1..(Len(delivered) + Len(page)) :
             (delivered \o page)[i] = IF i <= Len(delivered) THEN delivered[i]
                                      ELSE page[i - Len(delivered)]
    <3>1. delivered \in Seq(1..MaxCursor) /\ page \in Seq(1..MaxCursor)
      BY <1>1, <1>2
    <3> QED
      BY <3>1, ConcatProperties
  <2> QED
    BY <1>2, <1>3, <2>1
<1>5. \A i \in 1..(n + m) :
        delivered'[i] = IF i <= n THEN delivered[i] ELSE First - 1 + (i - n)
  <2> HIDE DEF m, n
  <2> QED
    BY <1>1, <1>2, <1>4
<1>6. DOMAIN delivered' = 1..(n + m)
  BY <1>4, LenProperties
<1>7. Returned' = Returned \cup (First..Last(limit))
  <2>1. Returned' = {delivered'[i] : i \in 1..(n + m)}
    BY <1>6 DEF Returned
  <2>2. Returned = {delivered[i] : i \in 1..n}
    BY <1>1 DEF Returned
  <2>3. Last(limit) = First + m - 1
    BY <1>2
  <2> HIDE DEF n, m
  <2>4. ASSUME NEW c \in Returned'
        PROVE  c \in Returned \cup (First..Last(limit))
    <3>1. PICK i \in 1..(n + m) : c = delivered'[i]
      BY <2>1, <2>4
    <3>2. CASE i <= n
      BY <1>1, <1>5, <2>2, <3>1, <3>2
    <3>3. CASE i > n
      BY <1>1, <1>2, <1>5, <2>3, <3>1, <3>3
    <3> QED
      BY <1>1, <1>2, <3>2, <3>3
  <2>5. ASSUME NEW c \in Returned
        PROVE  c \in Returned'
    <3>1. PICK i \in 1..n : c = delivered[i]
      BY <2>2, <2>5
    <3>2. i \in 1..(n + m) /\ delivered'[i] = c
      BY <1>1, <1>2, <1>5, <3>1
    <3> QED
      BY <2>1, <3>2
  <2>6. ASSUME NEW c \in First..Last(limit)
        PROVE  c \in Returned'
    <3>1. c - First + 1 + n \in 1..(n + m)
      BY <1>1, <1>2, <2>3, <2>6
    <3>2. delivered'[c - First + 1 + n] = c
      BY <1>1, <1>2, <1>5, <2>6, <3>1
    <3> QED
      BY <2>1, <3>1, <3>2
  <2> QED
    BY <2>4, <2>5, <2>6
<1> QED
  BY <1>4, <1>5, <1>7

(* The next page starts where this one ends: nothing skipped, nothing twice. *)
LEMMA PageKeepsOrder ==
  ASSUME TypeOK, PagesComplete, NEW limit \in Limits, ReadPage(limit)
  PROVE  PagesComplete'
<1> DEFINE n == Len(delivered)
           m == Last(limit) - First + 1
<1>1. /\ delivered \in Seq(1..MaxCursor)
      /\ n \in Nat
      /\ \A i \in 1..n : delivered[i] \in Returned
      /\ from \in Nat /\ reported \in Nat
  <2>1. n \in Nat /\ DOMAIN delivered = 1..n
    BY LenProperties DEF TypeOK
  <2> QED
    BY <2>1 DEF TypeOK, Returned, Cursors
<1>2. /\ First \in Nat /\ Last(limit) \in Int
      /\ m \in Nat
      /\ First > from
      /\ First = from + 1 \/ First = Held.floor + 1
      /\ Page(limit) = <<>> <=> m = 0
  BY PageIsRun, BoundsAssumption
<1>3. Held.floor \in Nat
  BY StateFields
<1>4. /\ Len(delivered') = n + m
      /\ \A i \in 1..(n + m) :
           delivered'[i] = IF i <= n THEN delivered[i] ELSE First - 1 + (i - n)
      /\ Returned' = Returned \cup (First..Last(limit))
  BY PageReturns
<1>5. from' = IF m = 0 THEN from ELSE Last(limit)
  BY <1>2 DEF ReadPage, NextCursor
<1>6. reported' = Larger(reported, Held.floor)
  BY DEF ReadPage
<1>7. Last(limit) = First + m - 1
  BY <1>2
<1> HIDE DEF n, m
<1>8. \A i \in 1..n : delivered[i] \in 1..from
  BY <1>1 DEF PagesComplete
<1>9. ASSUME NEW i \in 1..(Len(delivered') - 1)
      PROVE  delivered'[i] < delivered'[i + 1]
  <2>1. i \in 1..(n + m) /\ i + 1 \in 1..(n + m)
    BY <1>1, <1>2, <1>4
  <2>2. CASE i + 1 <= n
    <3>1. delivered[i] < delivered[i + 1]
      BY <1>1, <2>1, <2>2 DEF PagesComplete, n
    <3> QED
      BY <1>1, <1>4, <2>1, <2>2, <3>1
  <2>3. CASE i = n
    <3>1. delivered'[i] = delivered[n] /\ delivered'[i + 1] = First
      BY <1>1, <1>2, <1>4, <2>1, <2>3
    <3> QED
      BY <1>1, <1>2, <1>8, <2>1, <2>3, <3>1
  <2>4. CASE i > n
    BY <1>1, <1>2, <1>4, <2>1, <2>4
  <2> QED
    BY <1>1, <2>1, <2>2, <2>3, <2>4
<1>10. ASSUME NEW c \in 1..from'
       PROVE  c \in Returned' \/ c <= reported'
  <2>1. CASE c <= from
    <3>1. c \in Returned \/ c <= reported
      BY <1>1, <1>2, <1>5, <2>1 DEF PagesComplete
    <3> QED
      BY <1>1, <1>3, <1>4, <1>6, <3>1 DEF Larger
  <2>2. CASE c > from
    <3>1. m # 0 /\ c <= Last(limit)
      BY <1>1, <1>2, <1>5, <2>2
    <3>2. c >= First \/ c <= Held.floor
      BY <1>1, <1>2, <1>3, <2>2, <3>1
    <3> QED
      BY <1>1, <1>2, <1>3, <1>4, <1>6, <3>1, <3>2 DEF Larger
  <2> QED
    BY <1>1, <1>2, <1>5, <2>1, <2>2
<1>11. Returned' \subseteq 1..from'
  BY <1>1, <1>2, <1>4, <1>5, <1>7 DEF PagesComplete
<1> QED
  BY <1>9, <1>10, <1>11 DEF PagesComplete

------------------------------------------------------------------------------
(* The invariant is inductive *)

(* Nothing has been published, pulled or returned. *)
LEMMA InitPull == Init => PullInv
<1> SUFFICES ASSUME Init
             PROVE  PullInv
  OBVIOUS
<1> USE BoundsAssumption, NoTargetAssumption
<1>1. [high |-> 0, floor |-> 0] \in LogState
  BY DEF LogState, Cursors
<1>2. owner \in Seq(LogState) /\ Len(owner) = 1
  BY <1>1 DEF Init
<1>3. /\ delivered \in Seq(1..MaxCursor)
      /\ Len(delivered) = 0
      /\ Returned = {}
  BY DEF Init, Returned
<1>4. NoReplay \in Replay
  BY DEF NoReplay, Replay, Cursors
<1>5. TypeOK
  <2>1. /\ snapshot = 1 /\ replica = 1 /\ pc = "idle"
        /\ target = NoTarget /\ converged = FALSE /\ from = 0
        /\ replay = NoReplay /\ reported = 0 /\ timeouts = 0
    BY DEF Init
  <2>2. Len(owner) \in 1..MaxVersions /\ 1 \in 1..Len(owner)
    BY <1>2
  <2>3. NoTarget \in Cursors \cup {NoTarget} /\ 0 \in Cursors /\ 0 \in 0..MaxTimeouts
    BY DEF Cursors
  <2> QED
    BY <1>2, <1>3, <1>4, <2>1, <2>2, <2>3 DEF TypeOK
<1>6. OwnerGrows
  <2>1. \A i, j \in 1..1 : i = j
    OBVIOUS
  <2>2. owner[1].high \in Nat
    BY DEF Init
  <2> QED
    BY <1>2, <2>1, <2>2 DEF OwnerGrows
<1>7. TargetReached /\ ConvergedIsComplete
  BY DEF Init, TargetReached, ConvergedIsComplete, NoReplay
<1>8. PagesComplete
  BY <1>3 DEF Init, PagesComplete
<1> QED
  BY <1>5, <1>6, <1>7, <1>8 DEF PullInv

(* What the reader has does not depend on the rest. *)
LEMMA ReaderKeeps ==
  ASSUME PagesComplete, ConvergedIsComplete,
         UNCHANGED <<from, replay, delivered, reported>>
  PROVE  PagesComplete' /\ ConvergedIsComplete'
BY DEF PagesComplete, ConvergedIsComplete, Returned

(* A new state of the owner's log is no lower than the ones before. *)
LEMMA CommitPull ==
  ASSUME PullInv, NEW state \in LogState, Present.high <= state.high, Commit(state)
  PROVE  PullInv'
<1> DEFINE n == Len(owner)
<1>1. /\ owner \in Seq(LogState)
      /\ n \in 1..MaxVersions
      /\ replica \in 1..n
      /\ snapshot \in 1..n
  BY DEF PullInv, TypeOK
<1>2. /\ owner' = Append(owner, state)
      /\ n < MaxVersions
      /\ UNCHANGED <<snapshot, pc, replica, target, converged, from, replay,
                     delivered, reported, timeouts>>
  BY DEF Commit
<1>3. /\ owner' \in Seq(LogState)
      /\ Len(owner') = n + 1
      /\ owner'[n + 1] = state
      /\ \A i \in 1..n : owner'[i] = owner[i]
  BY <1>1, <1>2, AppendProperties
<1>4. \A i \in 1..n : owner[i].high \in 0..MaxCursor /\ owner[i].high <= owner[n].high
  BY <1>1, StateFields DEF PullInv, OwnerGrows
<1>5. state.high \in 0..MaxCursor /\ owner[n].high <= state.high
  BY DEF LogState, Cursors, Present
<1> HIDE DEF n
<1>6. TypeOK'
  BY <1>1, <1>2, <1>3, BoundsAssumption DEF PullInv, TypeOK
<1>7. OwnerGrows'
  <2>1. ASSUME NEW i \in 1..(n + 1), NEW j \in 1..(n + 1), i <= j
        PROVE  owner'[i].high <= owner'[j].high
    <3>1. CASE j <= n
      <4>1. i \in 1..n /\ j \in 1..n
        BY <1>1, <2>1, <3>1
      <4> QED
        BY <1>3, <2>1, <4>1 DEF PullInv, OwnerGrows, n
    <3>2. CASE j = n + 1
      <4>1. i = n + 1 \/ i \in 1..n
        BY <1>1, <2>1
      <4> QED
        BY <1>1, <1>3, <1>4, <1>5, <3>2, <4>1, BoundsAssumption
    <3> QED
      BY <1>1, <2>1, <3>1, <3>2
  <2> QED
    BY <1>3, <2>1 DEF OwnerGrows
<1>8. TargetReached'
  BY <1>1, <1>2, <1>3 DEF PullInv, TargetReached, Held
<1> QED
  BY <1>2, <1>6, <1>7, <1>8, ReaderKeeps DEF PullInv

(* Publishing and pruning are such states. *)
LEMMA OwnerPull ==
  ASSUME PullInv, Owner
  PROVE  PullInv'
<1>1. /\ Present \in LogState
      /\ Present.high \in 0..MaxCursor
      /\ Present.floor \in 0..MaxCursor
  BY StateFields DEF PullInv, LogState, Present, TypeOK
<1>2. CASE Publish
  <2> DEFINE state == [Present EXCEPT !.high = @ + 1]
  <2>1. state \in LogState /\ Present.high <= state.high
    BY <1>1, <1>2, BoundsAssumption DEF Publish, LogState, Cursors
  <2>2. Commit(state)
    BY <1>2 DEF Publish
  <2> HIDE DEF state
  <2> QED
    BY <2>1, <2>2, CommitPull
<1>3. ASSUME NEW up_to \in 1..MaxCursor, PruneTo(up_to)
      PROVE  PullInv'
  <2> DEFINE state == [Present EXCEPT !.floor = Larger(@, Smaller(up_to, Present.high))]
  <2>1. state \in LogState /\ Present.high <= state.high
    BY <1>1, BoundsAssumption DEF LogState, Cursors, Larger, Smaller
  <2>2. Commit(state)
    BY <1>3 DEF PruneTo
  <2> HIDE DEF state
  <2> QED
    BY <2>1, <2>2, CommitPull
<1>4. CASE Checkpoint
  <2>1. /\ snapshot' \in 1..Len(owner)
        /\ UNCHANGED <<owner, pc, replica, target, converged, from, replay,
                       delivered, reported, timeouts>>
    BY <1>4 DEF Checkpoint, PullInv, TypeOK
  <2>2. TypeOK' /\ OwnerGrows' /\ TargetReached'
    BY <2>1 DEF PullInv, TypeOK, OwnerGrows, TargetReached, Held
  <2> QED
    BY <2>1, <2>2, ReaderKeeps DEF PullInv
<1> QED
  BY <1>2, <1>3, <1>4 DEF Owner

(* Replaying only brings a replica further past its target. *)
LEMMA ReplicaPull ==
  ASSUME PullInv, ReplicaAdvances
  PROVE  PullInv'
<1>1. /\ replica \in 1..Len(owner)
      /\ replica + 1 \in 1..Len(owner)
      /\ replica' = replica + 1
      /\ UNCHANGED <<ownerVars, pc, target, converged, from, replay, delivered,
                     reported, timeouts>>
  BY StateFields DEF ReplicaAdvances, PullInv, TypeOK
<1>2. TypeOK' /\ OwnerGrows'
  BY <1>1 DEF PullInv, TypeOK, OwnerGrows, ownerVars
<1>3. TargetReached'
  <2>1. Held.high <= Held'.high
    BY <1>1 DEF PullInv, OwnerGrows, Held, ownerVars
  <2>2. Held.high \in Nat /\ Held'.high \in Nat
    <3>1. /\ Held = owner[replica]
          /\ Held' = owner[replica + 1]
          /\ \A i \in 1..Len(owner) : owner[i].high \in 0..MaxCursor
      BY <1>1, StateFields DEF PullInv, Held, ownerVars
    <3> QED
      BY <1>1, <3>1, BoundsAssumption
  <2>3. target \in Nat \cup {NoTarget}
    BY DEF PullInv, TypeOK, Cursors
  <2> QED
    BY <1>1, <2>1, <2>2, <2>3 DEF PullInv, TargetReached
<1> QED
  BY <1>1, <1>2, <1>3, ReaderKeeps DEF PullInv, ownerVars

(* The steps of a pull up to the read. *)
LEMMA ConvergingPull ==
  ASSUME PullInv,
         Open \/ FetchTarget \/ FetchFails \/ Converges \/ GivesUp \/ QuietWindowEnds
  PROVE  PullInv'
<1>1. UNCHANGED <<ownerVars, from, replay, delivered, reported>>
  BY DEF Open, FetchTarget, FetchFails, Converges, GivesUp, QuietWindowEnds
<1>2. OwnerGrows'
  BY <1>1 DEF PullInv, OwnerGrows, ownerVars
<1>3. TypeOK'
  <2>1. /\ pc' \in {"idle", "opened", "converging", "quiet", "reading"}
        /\ converged' \in BOOLEAN
    BY DEF Open, FetchTarget, FetchFails, Converges, GivesUp, QuietWindowEnds, PullInv,
           TypeOK
  <2>2. replica' \in 1..Len(owner)
    BY DEF Open, FetchTarget, FetchFails, Converges, GivesUp, QuietWindowEnds, PullInv,
           TypeOK
  <2>3. target' \in Cursors \cup {NoTarget}
    <3>1. target' \in {target, Present.high, NoTarget}
      BY DEF Open, FetchTarget, FetchFails, Converges, GivesUp, QuietWindowEnds
    <3> QED
      BY <3>1, StateFields DEF PullInv, TypeOK, Cursors
  <2>4. timeouts' \in 0..MaxTimeouts
    <3>1. timeouts' = timeouts \/ (timeouts < MaxTimeouts /\ timeouts' = timeouts + 1)
      BY DEF Open, FetchTarget, FetchFails, Converges, GivesUp, QuietWindowEnds
    <3> QED
      BY <3>1, BoundsAssumption DEF PullInv, TypeOK
  <2> QED
    BY <1>1, <2>1, <2>2, <2>3, <2>4 DEF PullInv, TypeOK, ownerVars
<1>4. TargetReached'
  <2>1. /\ converged \in BOOLEAN
        /\ target \in 0..MaxCursor \cup {NoTarget}
        /\ pc = "converging" => target # NoTarget
        /\ converged => pc = "reading"
        /\ Present.high \in 0..MaxCursor
        /\ Held.high \in 0..MaxCursor
    BY StateFields DEF PullInv, TypeOK, TargetReached, Cursors
  <2>2. CASE Converges
    <3>1. /\ Held' = Held
          /\ target' = target
          /\ target # NoTarget /\ Held.high >= target
          /\ pc' = "reading"
      BY <1>1, <2>1, <2>2 DEF Converges, Held, ownerVars
    <3> QED
      BY <2>1, <3>1, BoundsAssumption DEF TargetReached
  <2>3. CASE FetchTarget
    <3>1. target' \in Nat /\ ~converged'
      BY <2>1, <2>3, BoundsAssumption DEF FetchTarget
    <3> QED
      BY <3>1, NoTargetAssumption DEF TargetReached
  <2>4. CASE Open \/ FetchFails \/ GivesUp \/ QuietWindowEnds
    <3>1. pc' # "converging" /\ ~converged'
      BY <2>1, <2>4 DEF Open, FetchFails, GivesUp, QuietWindowEnds
    <3> QED
      BY <3>1 DEF TargetReached
  <2> QED
    BY <2>2, <2>3, <2>4
<1> QED
  BY <1>1, <1>2, <1>3, <1>4, ReaderKeeps DEF PullInv

(* A complete Replay: the page reached the end of a replica past the target. *)
LEMMA ReadCompletes ==
  ASSUME PullInv, NEW limit \in Limits, ReadPage(limit)
  PROVE  ConvergedIsComplete'
<1> SUFFICES ASSUME converged
             PROVE  ConvergedIsComplete'
  BY DEF ReadPage, ConvergedIsComplete
<1>1. /\ target \in 0..MaxCursor
      /\ target # NoTarget
      /\ target <= Held.high
      /\ Held.high \in 0..MaxCursor
      /\ Held.floor \in 0..MaxCursor
      /\ from \in 0..MaxCursor
      /\ reported \in 0..MaxCursor
  BY StateFields DEF PullInv, TargetReached, TypeOK, Cursors
<1>2. /\ replay'.truncated = (Held.high > Last(limit))
      /\ replay'.target = target
      /\ replay'.missing = 0
      /\ reported' = Larger(reported, Held.floor)
      /\ from' = IF Page(limit) = <<>> THEN from ELSE Last(limit)
  BY <1>1, BoundsAssumption DEF ReadPage, NextCursor, Larger
<1>3. /\ First \in Nat
      /\ Last(limit) \in Int
      /\ First = from + 1 \/ First = Held.floor + 1
      /\ Page(limit) = <<>> <=> Last(limit) = First - 1
  BY PageIsRun, BoundsAssumption DEF PullInv
<1>4. PagesComplete'
  BY PageKeepsOrder DEF PullInv
<1>5. from' \in Int /\ reported' \in Int /\ Held.floor <= reported'
  BY <1>1, <1>2, <1>3 DEF Larger
<1>6. ASSUME ~(Held.high > Last(limit)), NEW c \in 1..target
      PROVE  c \in Returned' \/ c <= reported'
  <2>1. c <= Last(limit)
    BY <1>1, <1>3, <1>6
  <2>2. CASE c <= from'
    BY <1>4, <1>5, <2>2 DEF PagesComplete
  <2>3. CASE c > from'
    <3>1. c <= Held.floor
      BY <1>1, <1>2, <1>3, <2>1, <2>3
    <3> QED
      BY <1>1, <1>5, <3>1
  <2> QED
    BY <1>5, <2>2, <2>3
<1> QED
  BY <1>1, <1>2, <1>6 DEF ConvergedIsComplete

(* The read that ends a pull. *)
LEMMA ReadPull ==
  ASSUME PullInv, NEW limit \in Limits, ReadPage(limit)
  PROVE  PullInv'
<1>1. PagesComplete' /\ ConvergedIsComplete'
  BY PageKeepsOrder, ReadCompletes DEF PullInv
<1>2. OwnerGrows' /\ TargetReached'
  BY DEF PullInv, OwnerGrows, TargetReached, ReadPage, ownerVars
<1>3. TypeOK'
  <2>1. /\ delivered' \in Seq(1..MaxCursor)
        /\ Last(limit) \in (First - 1)..MaxCursor
        /\ First \in 1..(MaxCursor + 1)
        /\ Page(limit) = <<>> <=> Last(limit) = First - 1
    BY PageReturns, PageIsRun DEF PullInv
  <2>2. /\ Held.high \in 0..MaxCursor
        /\ Held.floor \in 0..MaxCursor
        /\ from \in 0..MaxCursor
        /\ reported \in 0..MaxCursor
        /\ converged \in BOOLEAN
        /\ target \in 0..MaxCursor \cup {NoTarget}
        /\ 1 \in 1..Len(owner)
    BY StateFields, BoundsAssumption DEF PullInv, TypeOK, Cursors
  <2>3. from' \in Cursors
    BY <2>1, <2>2, BoundsAssumption DEF ReadPage, NextCursor, Cursors
  <2>4. reported' \in Cursors
    BY <2>2 DEF ReadPage, Larger, Cursors
  <2>5. replay' \in Replay
    <3> DEFINE missing == IF target = NoTarget THEN 0 ELSE Larger(target - Held.high, 0)
    <3>1. missing \in Cursors
      BY <2>2, BoundsAssumption DEF Larger, Cursors
    <3>2. replay' = [ converged |-> converged,
                      truncated |-> Held.high > Last(limit),
                      target    |-> target,
                      missing   |-> missing ]
      BY DEF ReadPage
    <3> HIDE DEF missing
    <3> QED
      BY <2>2, <3>1, <3>2 DEF Replay, Cursors
  <2>6. /\ UNCHANGED <<ownerVars, timeouts>>
        /\ pc' = "idle" /\ replica' = 1 /\ target' = NoTarget /\ converged' = FALSE
    BY DEF ReadPage
  <2> QED
    BY <2>1, <2>2, <2>3, <2>4, <2>5, <2>6 DEF PullInv, TypeOK, ownerVars
<1> QED
  BY <1>1, <1>2, <1>3 DEF PullInv

(* Every step keeps the invariant. *)
LEMMA NextPull == PullInv /\ [Next]_vars => PullInv'
<1> SUFFICES ASSUME PullInv, [Next]_vars
             PROVE  PullInv'
  OBVIOUS
<1>1. CASE UNCHANGED vars
  <2>1. TypeOK' /\ OwnerGrows' /\ TargetReached'
    BY <1>1 DEF PullInv, vars, TypeOK, OwnerGrows, TargetReached, Held
  <2> QED
    BY <1>1, <2>1, ReaderKeeps DEF PullInv, vars
<1>2. CASE Owner
  BY <1>2, OwnerPull
<1>3. CASE ReplicaAdvances
  BY <1>3, ReplicaPull
<1>4. CASE Reader
  BY <1>4, ConvergingPull, ReadPull DEF Reader
<1> QED
  BY <1>1, <1>2, <1>3, <1>4 DEF Next

------------------------------------------------------------------------------
(* Theorems *)

(* The types of a pull and of what it has returned. *)
THEOREM PullTypes == Spec => []TypeOK
<1>1. PullInv => TypeOK
  BY DEF PullInv
<1> QED
  BY <1>1, InitPull, NextPull, PTL DEF Spec

(***************************************************************************)
(* A reader that continues from next_cursor() gets the retained messages   *)
(* in order, none twice and none skipped, whichever replica each page came *)
(* from.                                                                   *)
(***************************************************************************)
THEOREM PagingIsComplete == Spec => []PagesComplete
<1>1. PullInv => PagesComplete
  BY DEF PullInv
<1> QED
  BY <1>1, InitPull, NextPull, PTL DEF Spec

(***************************************************************************)
(* converged() with missing() = 0 and without truncated() is true of what  *)
(* the reader has, up to the owner's high-water cursor of that pull.       *)
(***************************************************************************)
THEOREM ConvergedReplayIsComplete == Spec => []ConvergedIsComplete
<1>1. PullInv => ConvergedIsComplete
  BY DEF PullInv
<1> QED
  BY <1>1, InitPull, NextPull, PTL DEF Spec
=============================================================================
