-------------------------------- MODULE Pull --------------------------------
(***************************************************************************)
(* Durable pull: PubSub::pull_limited, fetch_high_cursor and converge_to   *)
(* in src/src/lib.rs, called again and again by a reader that continues    *)
(* from next_cursor().                                                     *)
(*                                                                         *)
(* Every pull opens a read replica of the owner's log, which starts at the *)
(* owner's latest snapshot and replays the ops after it, while the owner   *)
(* publishes, prunes and checkpoints.  The pull asks the owner for its     *)
(* high-water cursor, waits until the replica has reached it or the        *)
(* deadline has passed, and returns one page of what the replica holds.    *)
(* The replica never stops replaying, between the last check and the read  *)
(* included.                                                               *)
(*                                                                         *)
(* A log is its two positions; its messages are those above `floor` up to  *)
(* `high` (TopicPublish checks that since() returns them).  Replication,   *)
(* snapshots and the request to the owner are external (ce-coord, ce-rs).  *)
(***************************************************************************)
EXTENDS Integers, Sequences

CONSTANTS
  Limits,        \* the page limits a reader asks for, clamped to at least 1
  NoTarget,      \* fetch_high_cursor(...).ok() is None
  MaxCursor,     \* bound: messages published
  MaxVersions,   \* bound: states of the owner's log
  MaxTimeouts    \* bound: pulls that time out or do not reach the owner

ASSUME LimitsAssumption == Limits \subseteq Nat \ {0}
ASSUME NoTargetAssumption == NoTarget \notin Nat
ASSUME BoundsAssumption ==
  MaxCursor \in Nat /\ MaxVersions \in Nat \ {0} /\ MaxTimeouts \in Nat

VARIABLES
  owner,      \* the states of the owner's log so far; the last is the present
  snapshot,   \* which of them the latest checkpoint holds, 1 without one
  pc,         \* where the pull is
  replica,    \* which of them the reader's replica has replayed to
  target,     \* the owner's high-water cursor, if it answered
  converged,  \* what converge_to returned
  from,       \* where the reader is: next_cursor() of the pull before
  replay,     \* the last Replay: what the reader sees of it
  delivered,  \* history: the cursors of all messages returned, in order
  reported,   \* history: the highest floor() a Replay has shown
  timeouts    \* pulls that have timed out so far

ownerVars == <<owner, snapshot>>
vars == <<owner, snapshot, pc, replica, target, converged, from, replay,
          delivered, reported, timeouts>>

Cursors == 0..MaxCursor
LogState == [high : Cursors, floor : Cursors]
Replay ==
  [ converged : BOOLEAN,
    truncated : BOOLEAN,
    target    : Cursors \cup {NoTarget},
    missing   : Cursors ]

NoReplay == [converged |-> FALSE, truncated |-> FALSE, target |-> NoTarget,
             missing |-> 0]

Larger(a, b)  == IF a >= b THEN a ELSE b
Smaller(a, b) == IF a <= b THEN a ELSE b

Present == owner[Len(owner)]
Held    == owner[replica]      \* what the replica reads

Init ==
  /\ owner = <<[high |-> 0, floor |-> 0]>>
  /\ snapshot = 1
  /\ pc = "idle"
  /\ replica = 1
  /\ target = NoTarget
  /\ converged = FALSE
  /\ from = 0
  /\ replay = NoReplay
  /\ delivered = <<>>
  /\ reported = 0
  /\ timeouts = 0

------------------------------------------------------------------------------
(* The owner *)

Commit(state) ==
  /\ Len(owner) < MaxVersions
  /\ owner' = Append(owner, state)
  /\ UNCHANGED <<snapshot, pc, replica, target, converged, from, replay,
                 delivered, reported, timeouts>>

Publish ==
  /\ Present.high < MaxCursor
  /\ Commit([Present EXCEPT !.high = @ + 1])

(* Every op is a version, one that drops nothing too. *)
PruneTo(up_to) ==
  Commit([Present EXCEPT !.floor = Larger(@, Smaller(up_to, Present.high))])

(* Topic::checkpoint: replicas opened from now on start here. *)
Checkpoint ==
  /\ snapshot # Len(owner)
  /\ snapshot' = Len(owner)
  /\ UNCHANGED <<owner, pc, replica, target, converged, from, replay, delivered,
                 reported, timeouts>>

------------------------------------------------------------------------------
(* One pull *)

(* Replicated::snapshot_reader; what it had for the pull before is gone. *)
Open ==
  /\ pc = "idle"
  /\ replica' = snapshot
  /\ pc' = "opened"
  /\ UNCHANGED <<ownerVars, target, converged, from, replay, delivered,
                 reported, timeouts>>

(* The feed brings the next op to an open replica. *)
ReplicaAdvances ==
  /\ pc # "idle"
  /\ replica < Len(owner)
  /\ replica' = replica + 1
  /\ UNCHANGED <<ownerVars, pc, target, converged, from, replay, delivered,
                 reported, timeouts>>

(* The owner answers HighCursor. *)
FetchTarget ==
  /\ pc = "opened"
  /\ target' = Present.high
  /\ pc' = "converging"
  /\ UNCHANGED <<ownerVars, replica, converged, from, replay, delivered,
                 reported, timeouts>>

(* It does not, or its reply is lost. *)
FetchFails ==
  /\ pc = "opened"
  /\ timeouts < MaxTimeouts
  /\ timeouts' = timeouts + 1
  /\ target' = NoTarget
  /\ pc' = "quiet"
  /\ UNCHANGED <<ownerVars, replica, converged, from, replay, delivered, reported>>

(* A variant of Converges that compares the replica's version. *)
ConvergesByVersion ==
  /\ pc = "converging"
  /\ replica >= target
  /\ converged' = TRUE
  /\ pc' = "reading"
  /\ UNCHANGED <<ownerVars, replica, target, from, replay, delivered, reported,
                 timeouts>>

(* A poll, or the last look at the deadline, finds the target reached. *)
Converges ==
  /\ pc = "converging"
  /\ Held.high >= target
  /\ converged' = TRUE
  /\ pc' = "reading"
  /\ UNCHANGED <<ownerVars, replica, target, from, replay, delivered, reported,
                 timeouts>>

(* The deadline has passed and it is not. *)
GivesUp ==
  /\ pc = "converging"
  /\ Held.high < target
  /\ timeouts < MaxTimeouts
  /\ timeouts' = timeouts + 1
  /\ converged' = FALSE
  /\ pc' = "reading"
  /\ UNCHANGED <<ownerVars, replica, target, from, replay, delivered, reported>>

(* Without a target: two quiet polls, or the deadline. *)
QuietWindowEnds ==
  /\ pc = "quiet"
  /\ converged' = FALSE
  /\ pc' = "reading"
  /\ UNCHANGED <<ownerVars, replica, target, from, replay, delivered, reported,
                 timeouts>>

------------------------------------------------------------------------------
(***************************************************************************)
(* since(from), cut to the limit: the cursors above both `from` and the    *)
(* replica's floor, up to its high-water cursor or the limit.              *)
(***************************************************************************)
(* A variant of First that returns the message the reader has. *)
FirstInclusive == Larger(from, Held.floor + 1)

First == Larger(from, Held.floor) + 1

(* A variant of Last that looks at the limit only. *)
LastUncut(limit) == First - 1 + limit

Last(limit) == Larger(First - 1, Smaller(Held.high, First - 1 + limit))
Page(limit) == [i \in 1..(Last(limit) - First + 1) |-> First - 1 + i]

(* A variant of NextCursor that is the replica's high-water cursor. *)
NextIsHigh(limit) == Held.high

(* messages.last(), or where the reader was if the page is empty. *)
NextCursor(limit) == IF Page(limit) = <<>> THEN from ELSE Last(limit)

(* A variant of ReadPage that checks the limit before it cuts the page. *)
ReadPageExact(limit) ==
  /\ pc = "reading"
  /\ replay' =
       [ converged |-> converged,
         truncated |-> Held.high > First + limit,
         target    |-> target,
         missing   |-> IF target = NoTarget THEN 0 ELSE Larger(target - Held.high, 0) ]
  /\ delivered' = delivered \o Page(limit)
  /\ from' = NextCursor(limit)
  /\ reported' = Larger(reported, Held.floor)
  /\ pc' = "idle"
  /\ replica' = 1 /\ target' = NoTarget /\ converged' = FALSE
  /\ UNCHANGED <<ownerVars, timeouts>>

(* The Replay is built from one read of the replica; the pull's locals go. *)
ReadPage(limit) ==
  /\ pc = "reading"
  /\ replay' =
       [ converged |-> converged,
         truncated |-> Held.high > Last(limit),
         target    |-> target,
         missing   |-> IF target = NoTarget THEN 0 ELSE Larger(target - Held.high, 0) ]
  /\ delivered' = delivered \o Page(limit)
  /\ from' = NextCursor(limit)
  /\ reported' = Larger(reported, Held.floor)
  /\ pc' = "idle"
  /\ replica' = 1 /\ target' = NoTarget /\ converged' = FALSE
  /\ UNCHANGED <<ownerVars, timeouts>>

Owner ==
  \/ Publish
  \/ \E up_to \in 1..MaxCursor : PruneTo(up_to)
  \/ Checkpoint

Reader ==
  \/ Open
  \/ FetchTarget \/ FetchFails
  \/ Converges \/ GivesUp \/ QuietWindowEnds
  \/ \E limit \in Limits : ReadPage(limit)

Next == Owner \/ ReplicaAdvances \/ Reader

Spec == Init /\ [][Next]_vars

(***************************************************************************)
(* The reader keeps pulling and the replica keeps replaying; pulls time    *)
(* out or miss the owner only finitely often (MaxTimeouts).  Nothing is    *)
(* assumed of the owner.                                                   *)
(***************************************************************************)
Fairness ==
  /\ WF_vars(ReplicaAdvances)
  /\ WF_vars(Reader)

FairSpec == Spec /\ Fairness

------------------------------------------------------------------------------
(* Types; only an open pull has a replica past the first state. *)
TypeOK ==
  /\ owner \in Seq(LogState) /\ Len(owner) \in 1..MaxVersions
  /\ snapshot \in 1..Len(owner)
  /\ pc \in {"idle", "opened", "converging", "quiet", "reading"}
  /\ replica \in 1..Len(owner)
  /\ target \in Cursors \cup {NoTarget}
  /\ converged \in BOOLEAN
  /\ from \in Cursors
  /\ replay \in Replay
  /\ delivered \in Seq(1..MaxCursor)
  /\ reported \in Cursors
  /\ timeouts \in 0..MaxTimeouts

Returned == {delivered[i] : i \in DOMAIN delivered}

(***************************************************************************)
(* Paging loses nothing and repeats nothing, although every page comes     *)
(* from another replica, which may be behind the one before: the messages  *)
(* returned are in cursor order, and every message up to the reader's      *)
(* position was returned or lies below a floor it was shown.               *)
(***************************************************************************)
PagesComplete ==
  /\ \A i \in 1..(Len(delivered) - 1) : delivered[i] < delivered[i + 1]
  /\ \A c \in 1..from : c \in Returned \/ c <= reported
  /\ Returned \subseteq 1..from

(***************************************************************************)
(* A Replay that says converged() and not truncated() ends the reading:    *)
(* the reader has every message up to the owner's high-water cursor of     *)
(* that pull, but for those below a floor it was shown.  A Replay that     *)
(* says converged() is missing() nothing.                                  *)
(***************************************************************************)
ConvergedIsComplete == replay.converged =>
  /\ replay.target # NoTarget
  /\ replay.missing = 0
  /\ ~replay.truncated =>
       \A c \in 1..replay.target : c \in Returned \/ c <= reported

(***************************************************************************)
(* A reader that keeps pulling gets every message that is published, or is *)
(* shown a floor above it, however the owner prunes and checkpoints.       *)
(***************************************************************************)
EveryMessageArrives == \A c \in 1..MaxCursor :
  (Present.high >= c) ~> (c \in Returned \/ c <= reported)
==============================================================================
