---------------------------- MODULE TopicPublish ----------------------------
(***************************************************************************)
(* Publishing to an owned topic (append_and_fanout and prune_to in         *)
(* src/src/lib.rs).  A Topic handle can be cloned, and the ingest worker   *)
(* publishes too, so several tasks are in append_and_fanout at once.  Each *)
(* reads the next cursor, awaits the durable append, and then broadcasts   *)
(* its own copy of the message on the live stream, whose lock it takes     *)
(* only then; prune_to commits in between.                                 *)
(*                                                                         *)
(* ce-coord's propose is external: it appends the op to the one log of the *)
(* writer and applies it, or returns an error.                             *)
(***************************************************************************)
EXTENDS TopicLog

CONSTANTS
  Publishers,   \* the tasks that publish
  MaxMessages   \* bound: publishes started

ASSUME MaxMessagesAssumption == MaxMessages \in Nat

VARIABLES
  log,       \* the owner's copy of the durable log
  task,      \* per publisher, where it is and its locals `msg` and `cursor`
  live,      \* what was broadcast on the live stream, in order
  returned,  \* history: the messages whose publish returned Ok, as returned
  history,   \* history: every body ever appended, in order
  started,   \* publishes so far; the next one's body
  after      \* history: per publish, those that had returned when it began

vars == <<log, task, live, returned, history, started, after>>

Body == 1..MaxMessages
MessageType == [cursor : 0..(MaxMessages + 1), body : Body]
IdleTask == [pc |-> "idle", msg |-> [cursor |-> 0, body |-> 0]]

Init ==
  /\ log = EmptyLog
  /\ task = [p \in Publishers |-> IdleTask]
  /\ live = <<>>
  /\ returned = {}
  /\ history = <<>>
  /\ started = 0
  /\ after = [b \in Body |-> {}]

(* The cursor is read before the append is awaited. *)
Stamp(p) ==
  /\ task[p].pc = "idle"
  /\ started < MaxMessages
  /\ started' = started + 1
  /\ task' = [task EXCEPT ![p] =
                [pc  |-> "stamped",
                 msg |-> [cursor |-> NextCursor(log), body |-> started + 1]]]
  /\ after' = [after EXCEPT ![started'] = {m.body : m \in returned}]
  /\ UNCHANGED <<log, live, returned, history>>

DurableAppend(p) ==
  /\ task[p].pc = "stamped"
  /\ log' = AppendMessage(log, task[p].msg)
  /\ history' = Append(history, task[p].msg.body)
  /\ task' = [task EXCEPT ![p].pc = "stored"]
  /\ UNCHANGED <<live, returned, started, after>>

(* `propose` fails: the publish returns the error and broadcasts nothing. *)
AppendFails(p) ==
  /\ task[p].pc = "stamped"
  /\ task' = [task EXCEPT ![p] = IdleTask]
  /\ UNCHANGED <<log, live, returned, history, started, after>>

(* A variant of FanOut that broadcasts before the append is awaited. *)
FanOutEarly(p) ==
  /\ task[p].pc \in {"stamped", "stored"}
  /\ live' = Append(live, task[p].msg)
  /\ returned' = returned \cup {task[p].msg}
  /\ task' = [task EXCEPT ![p] = IdleTask]
  /\ UNCHANGED <<log, history, started, after>>

(* A variant of FanOut that returns before it has taken the live lock. *)
FanOutReturnsFirst(p) ==
  /\ task[p].pc = "stored"
  /\ returned' = returned \cup {task[p].msg}
  /\ IF task[p].msg \in returned
     THEN /\ live' = Append(live, task[p].msg)
          /\ task' = [task EXCEPT ![p] = IdleTask]
     ELSE UNCHANGED <<live, task>>
  /\ UNCHANGED <<log, history, started, after>>

(* The message as stamped is broadcast, and its cursor returned. *)
FanOut(p) ==
  /\ task[p].pc = "stored"
  /\ live' = Append(live, task[p].msg)
  /\ returned' = returned \cup {task[p].msg}
  /\ task' = [task EXCEPT ![p] = IdleTask]
  /\ UNCHANGED <<log, history, started, after>>

(* A failed broadcast is logged; the publish still returns its cursor. *)
FanOutFails(p) ==
  /\ task[p].pc = "stored"
  /\ returned' = returned \cup {task[p].msg}
  /\ task' = [task EXCEPT ![p] = IdleTask]
  /\ UNCHANGED <<log, live, history, started, after>>

PruneTo(up_to) ==
  /\ log' = DropUpTo(log, up_to)
  /\ UNCHANGED <<task, live, returned, history, started, after>>

Next ==
  \/ \E p \in Publishers :
       Stamp(p) \/ DurableAppend(p) \/ AppendFails(p) \/ FanOut(p) \/ FanOutFails(p)
  \/ \E up_to \in 0..(MaxMessages + 1) : PruneTo(up_to)

Spec == Init /\ [][Next]_vars

------------------------------------------------------------------------------
TypeOK ==
  /\ log.messages \in Seq(MessageType) /\ log.floor \in 0..MaxMessages
  /\ \A p \in Publishers :
       task[p] = IdleTask \/ task[p] \in [pc : {"stamped", "stored"}, msg : MessageType]
  /\ live \in Seq(MessageType) /\ returned \subseteq MessageType
  /\ history \in Seq(Body)
  /\ started \in 0..MaxMessages
  /\ after \in [Body -> SUBSET Body]

(***************************************************************************)
(* Cursors are absolute: message number c of the topic carries cursor c    *)
(* for good, whatever cursor its publisher stamped and however appends and *)
(* prunes interleave; what is retained is the tail of the history.         *)
(***************************************************************************)
RetainedIsTail ==
  /\ HighCursor(log) = Len(history)
  /\ \A i \in DOMAIN log.messages :
       log.messages[i] =
         [cursor |-> log.floor + i, body |-> history[log.floor + i]]

(***************************************************************************)
(* get() by index finds the message of that number, and exactly while it   *)
(* is retained: what handle_lease resolves a leased cursor to.             *)
(***************************************************************************)
GetFindsStored == \A c \in 0..(MaxMessages + 1) :
  MessageAt(log, c) =
    IF c \in (log.floor + 1)..Len(history)
    THEN [cursor |-> c, body |-> history[c]] ELSE NoMessage

(***************************************************************************)
(* since(from) replays exactly the retained messages after `from`, in the  *)
(* order they were appended; nothing twice, nothing skipped.               *)
(***************************************************************************)
SinceIsStrictTail == \A from \in 0..(MaxMessages + 1) :
  LET tail  == Since(log, from)
      first == IF from > log.floor THEN from ELSE log.floor
  IN [i \in DOMAIN tail |-> tail[i].body] = SubSeq(history, first + 1, Len(history))

(* Where the message of a publish ended up in the history. *)
PositionsOf(body) == {i \in DOMAIN history : history[i] = body}

(***************************************************************************)
(* A publish that returned Ok, or was broadcast, is in the durable log     *)
(* exactly once, and not before the cursor its publisher was given: "the   *)
(* message is already durable" when the live fan-out happens.              *)
(***************************************************************************)
AnnouncedIsDurable ==
  \A m \in returned \cup {live[i] : i \in DOMAIN live} :
    /\ Cardinality(PositionsOf(m.body)) = 1
    /\ \A i \in PositionsOf(m.body) : m.cursor <= i

(***************************************************************************)
(* The live stream carries each message at most once, and in the order of  *)
(* their publishes as far as they have one: a message is not broadcast     *)
(* after another whose publish began when its own had returned (messages   *)
(* "keep their relative publish order").  Publishes that overlap may be    *)
(* broadcast either way round: the live lock is taken after the append.    *)
(***************************************************************************)
LiveInPublishOrder == \A i, j \in DOMAIN live : i < j =>
  live[j].body \notin after[live[i].body] \cup {live[i].body}

------------------------------------------------------------------------------
(* What the repository says of publishing and two publishers do not do *)

(***************************************************************************)
(* publish "Returns the assigned Cursor" (Topic::publish): the position    *)
(* the message has in the log.                                             *)
(***************************************************************************)
ReturnedCursorIsStored ==
  \A m \in returned : PositionsOf(m.body) = {m.cursor}
==============================================================================
