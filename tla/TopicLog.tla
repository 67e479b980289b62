------------------------------ MODULE TopicLog ------------------------------
(***************************************************************************)
(* The durable log of one topic (src/src/log.rs): the retained messages    *)
(* and the number of messages retention has dropped from the front.  The   *)
(* operators are the log's two ops and its reads; no variables.  What a    *)
(* message says is its `body`.                                             *)
(***************************************************************************)
EXTENDS Integers, Sequences, FiniteSets

CONSTANT NoMessage   \* get() finds nothing

EmptyLog == [messages |-> <<>>, floor |-> 0]

HighCursor(log) == log.floor + Len(log.messages)

NextCursor(log) == HighCursor(log) + 1

(* retain and filter: the messages after cursor c, in the order they had. *)
Above(messages, c) ==
  LET kept   == {i \in DOMAIN messages : messages[i].cursor > c}
      Nth(k) == CHOOSE i \in kept : Cardinality({j \in kept : j <= i}) = k
  IN [k \in 1..Cardinality(kept) |-> messages[Nth(k)]]

(* A variant of AppendMessage that trusts the cursor in the op. *)
AppendTrusting(log, m) == [log EXCEPT !.messages = Append(@, m)]

(* LogOp::Append: the cursor in the op is overwritten. *)
AppendMessage(log, m) ==
  [log EXCEPT !.messages = Append(@, [m EXCEPT !.cursor = NextCursor(log)])]

(* A variant of DropUpTo that takes up_to for the number dropped. *)
DropMovesFloorToTarget(log, up_to) ==
  [messages |-> Above(log.messages, up_to), floor |-> up_to]

(* LogOp::PruneTo: the floor rises by the number of messages dropped. *)
DropUpTo(log, up_to) ==
  LET kept == Above(log.messages, up_to)
  IN [messages |-> kept,
      floor    |-> log.floor + (Len(log.messages) - Len(kept))]

(* A variant of Since that repeats the message the caller has. *)
SinceInclusive(log, from) == Above(log.messages, from - 1)

(* Everything strictly after `from`. *)
Since(log, from) == Above(log.messages, from)

(* A variant of MessageAt that forgets the floor. *)
MessageAtIndex(log, cursor) ==
  IF cursor <= log.floor \/ cursor > HighCursor(log) THEN NoMessage
  ELSE IF cursor \in DOMAIN log.messages THEN log.messages[cursor]
  ELSE NoMessage

(* get(): an index, not a search. *)
MessageAt(log, cursor) ==
  IF cursor <= log.floor \/ cursor > HighCursor(log) THEN NoMessage
  ELSE log.messages[cursor - log.floor]
==============================================================================
