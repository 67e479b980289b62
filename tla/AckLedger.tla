------------------------------ MODULE AckLedger ------------------------------
(***************************************************************************)
(* What the subscriptions of a topic promise their consumers, without      *)
(* floors, deadlines, attempts or plans: a message handed out is neither   *)
(* settled nor held by anyone at that moment, and a settled message stays  *)
(* settled for as long as its subscription exists.  A message is settled   *)
(* only by an acknowledgement of that message, by being set aside when     *)
(* messages are handed out, or because the topic has retired it.           *)
(***************************************************************************)
EXTENDS Integers

CONSTANTS Names, MaxCursor

VARIABLES
  open,     \* the subscriptions that exist
  settled,  \* per subscription, the messages no consumer will be handed again
  held,     \* per subscription, the unsettled messages some consumer holds
  retired   \* every message up to this one is gone from the topic

ledgerVars == <<open, settled, held, retired>>

LedgerCursor == 1..MaxCursor

LedgerInit ==
  /\ open = {}
  /\ settled = [n \in Names |-> {}]
  /\ held = [n \in Names |-> {}]
  /\ retired = 0

Open(n) ==
  /\ n \notin open
  /\ open' = open \cup {n}
  /\ UNCHANGED <<settled, held, retired>>

Close(n) ==
  /\ n \in open
  /\ open' = open \ {n}
  /\ settled' = [settled EXCEPT ![n] = {}]
  /\ held' = [held EXCEPT ![n] = {}]
  /\ UNCHANGED retired

Acknowledge(n, c) ==
  /\ n \in open
  /\ settled' = [settled EXCEPT ![n] = @ \cup {c}]
  /\ held' = [held EXCEPT ![n] = @ \ {c}]
  /\ UNCHANGED <<open, retired>>

(***************************************************************************)
(* L is handed out, D is set aside, and the messages up to f, all retired, *)
(* are written off.  K is the part of L whose hold is still running when   *)
(* the hand-out is recorded.                                               *)
(***************************************************************************)
HandOut(n, L, D, f, K) ==
  /\ n \in open
  /\ f <= retired
  /\ L \cap D = {}
  /\ K \subseteq L
  /\ (L \cup D) \cap (settled[n] \cup held[n]) = {}
  /\ settled' = [settled EXCEPT ![n] = @ \cup D \cup (1..f)]
  /\ held' = [held EXCEPT ![n] = (@ \cup K) \ (1..f)]
  /\ UNCHANGED <<open, retired>>

(* A consumer gives a message back. *)
Release(n, c) ==
  /\ n \in open
  /\ held' = [held EXCEPT ![n] = @ \ {c}]
  /\ UNCHANGED <<open, settled, retired>>

(* Time takes any number of holds away. *)
Lapse ==
  /\ held' \in [Names -> SUBSET LedgerCursor]
  /\ \A n \in Names : held'[n] \subseteq held[n]
  /\ UNCHANGED <<open, settled, retired>>

Retire(u) ==
  /\ u > retired
  /\ retired' = u
  /\ UNCHANGED <<open, settled, held>>

LedgerNext ==
  \/ \E n \in Names : Open(n) \/ Close(n)
  \/ \E n \in Names, c \in LedgerCursor : Acknowledge(n, c) \/ Release(n, c)
  \/ \E n \in Names, L, D \in SUBSET LedgerCursor, f \in 0..MaxCursor :
       \E K \in SUBSET L : HandOut(n, L, D, f, K)
  \/ Lapse
  \/ \E u \in LedgerCursor : Retire(u)

LedgerSpec == LedgerInit /\ [][LedgerNext]_ledgerVars
==============================================================================
