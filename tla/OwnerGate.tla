----------------------------- MODULE OwnerGate ------------------------------
(***************************************************************************)
(* Who may publish to a topic and who may use its subscriptions: the       *)
(* capability links of src/src/caps.rs, the owner's gate (authorize,       *)
(* fetch_revoked, require_publish_cap and accept_root in src/src/lib.rs)   *)
(* and the sizes a request must have to get there (src/src/protocol.rs,    *)
(* src/src/message.rs).                                                    *)
(*                                                                         *)
(* The ingest worker and the control worker pass each request through the  *)
(* same gate: read the flag, ask the node for the revoked set, which is an *)
(* await, take the accepted roots, verify the link.  The owner opens and   *)
(* closes the gate and accepts roots, and links are minted and revoked, at *)
(* any moment in between.  Neither worker writes anything the gate of the  *)
(* other reads, so one request is followed at a time.                      *)
(*                                                                         *)
(* ce-cap's chain check and the node's revoked set are external.  A link   *)
(* is one capability; what a chain of several may delegate is not modelled.*)
(***************************************************************************)
EXTENDS Integers, FiniteSets, SequencesExt

CONSTANTS
  Self,              \* the owner's node id
  Roots,             \* other roots it may accept
  Nodes,             \* the nodes that send requests
  Topic,             \* the topic's name, as a sequence
  Scopes,            \* the topic scopes links are minted for
  Lifetimes,         \* `grant --expires-in`; 0 for ever
  Sizes,             \* payload sizes, in bytes
  EnvelopeBytes,     \* what the JSON of an IngestRequest adds to its payload
  MaxPayloadBytes,   \* MAX_PAYLOAD_BYTES
  MaxIngestHexBytes, \* MAX_INGEST_HEX_BYTES
  NoGrant,           \* a request without a link
  MaxTime,           \* bound: the clock, in seconds
  MaxLinks           \* bound: links minted

ASSUME LifetimesAssumption == Lifetimes \subseteq Nat
ASSUME BoundsAssumption == MaxTime \in Nat /\ MaxLinks \in Nat

VARIABLES
  clock,     \* unix seconds
  minted,    \* the links there are
  revoked,   \* the revoked set on chain: issuer and nonce
  accepted,  \* accepted_roots
  required,  \* require_cap
  work,      \* the request in a worker: where it is and what the worker holds
  last,      \* history: the last request that was performed
  refused    \* history: the sizes of the payloads refused as too large

shared == <<clock, minted, revoked, accepted, required>>
vars == <<clock, minted, revoked, accepted, required, work, last, refused>>

Workers == {"ingest", "control"}
Ability(w) == IF w = "ingest" THEN "pubsub:publish" ELSE "pubsub:subscribe"

Time == 0..MaxTime
Link ==
  [ issuer    : Roots \cup {Self},
    audience  : Nodes,
    ability   : {Ability(w) : w \in Workers},
    scope     : Scopes,
    not_after : Nat,
    nonce     : Time ]

Id(link) == <<link.issuer, link.nonce>>
Ids == (Roots \cup {Self}) \X Time

(***************************************************************************)
(* A worker's locals.  `open` and `dead` are history: whether the gate was *)
(* open at some moment since the request was taken up, and whether its     *)
(* link was revoked or expired when it was.                                *)
(***************************************************************************)
Resting ==
  [ pc |-> "idle", worker |-> "none", from |-> Self, grant |-> NoGrant, bytes |-> 0,
    now |-> 0, fetched |-> {}, authenticated |-> FALSE, open |-> FALSE, dead |-> FALSE ]

Init ==
  /\ clock = 0
  /\ minted = {}
  /\ revoked = {}
  /\ accepted = {}
  /\ required = FALSE
  /\ work = Resting
  /\ last = Resting
  /\ refused = {}

------------------------------------------------------------------------------
(* Around the workers *)

(* `grant`: the nonce is the second; anyone mints links rooted at himself. *)
Mint(issuer, audience, ability, scope, lifetime) ==
  /\ Cardinality(minted) < MaxLinks
  /\ minted' = minted \cup
       {[ issuer    |-> issuer,
          audience  |-> audience,
          ability   |-> ability,
          scope     |-> scope,
          not_after |-> IF lifetime = 0 THEN 0 ELSE clock + lifetime,
          nonce     |-> clock ]}
  /\ UNCHANGED <<clock, revoked, accepted, required, work, last, refused>>

(* An issuer revokes a nonce on chain, and all its links that carry it. *)
Revoke(link) ==
  /\ revoked' = revoked \cup {Id(link)}
  /\ UNCHANGED <<clock, minted, accepted, required, work, last, refused>>

AcceptRoot(root) ==
  /\ accepted' = accepted \cup {root}
  /\ UNCHANGED <<clock, minted, revoked, required, work, last, refused>>

RequirePublishCap(require) ==
  /\ required' = require
  /\ work' = IF work.pc = "idle" THEN work ELSE [work EXCEPT !.open = @ \/ ~require]
  /\ UNCHANGED <<clock, minted, revoked, accepted, last, refused>>

Tick ==
  /\ clock < MaxTime
  /\ clock' = clock + 1
  /\ UNCHANGED <<minted, revoked, accepted, required, work, last, refused>>

------------------------------------------------------------------------------
(* A request *)

ValidPayload(bytes) == bytes <= MaxPayloadBytes

(***************************************************************************)
(* The payload is hex in the JSON of the request, and the request arrives  *)
(* as the hex of that JSON; the two bounds of decode_hex and decode.       *)
(***************************************************************************)
BodyBytes(bytes) == 2 * bytes + EnvelopeBytes

Decodes(bytes) ==
  /\ 2 * BodyBytes(bytes) <= MaxIngestHexBytes
  /\ BodyBytes(bytes) <= MaxIngestHexBytes

Expired(link, at) == link.not_after # 0 /\ at > link.not_after

(* publish_to checks the payload; the worker reads the clock and decodes. *)
Take(w, from, grant, bytes) ==
  /\ work.pc = "idle"
  /\ ValidPayload(bytes)
  /\ Decodes(bytes)
  /\ work' = [Resting EXCEPT
                !.pc = "taken", !.worker = w, !.from = from, !.grant = grant,
                !.bytes = bytes, !.now = clock, !.open = ~required,
                !.dead = grant # NoGrant /\ (Id(grant) \in revoked \/ Expired(grant, clock))]
  /\ last' = Resting
  /\ UNCHANGED <<shared, refused>>

RefuseTooLarge(bytes) ==
  /\ work.pc = "idle"
  /\ ValidPayload(bytes)
  /\ ~Decodes(bytes)
  /\ refused' = refused \cup {bytes}
  /\ UNCHANGED <<shared, work, last>>

(* Rejected, whatever the reason: the worker goes on to the next request. *)
Reject ==
  /\ work' = Resting
  /\ UNCHANGED <<shared, last, refused>>

GoTo(pc) == work' = [work EXCEPT !.pc = pc] /\ UNCHANGED <<shared, last, refused>>

(* A variant of Gate that asks for nothing when no link is presented. *)
GateIfPresented ==
  /\ work.pc = "taken"
  /\ GoTo(IF required /\ work.grant # NoGrant THEN "asking" ELSE "cleared")

(* require_cap is read once. *)
Gate ==
  /\ work.pc = "taken"
  /\ \/ ~required /\ GoTo("cleared")
     \/ required /\ work.grant = NoGrant /\ Reject
     \/ required /\ work.grant # NoGrant /\ GoTo("asking")

(* fetch_revoked *)
FetchRevoked ==
  /\ work.pc = "asking"
  /\ work' = [work EXCEPT !.pc = "verifying", !.fetched = revoked]
  /\ UNCHANGED <<shared, last, refused>>

(* A variant of FetchFails that goes on with an empty set. *)
FetchFailsOpen ==
  /\ work.pc = "asking"
  /\ GoTo("verifying")

(* The node cannot be asked: "fail-closed". *)
FetchFails ==
  /\ work.pc = "asking"
  /\ Reject

(***************************************************************************)
(* verify_link: ce-cap's check of the one link, at the time the request    *)
(* was taken up, and topic_allows.                                         *)
(***************************************************************************)
Verifies(link) ==
  /\ link.issuer \in accepted \cup {Self}
  /\ link.audience = work.from
  /\ link.ability = Ability(work.worker)
  /\ ~Expired(link, work.now)
  /\ Id(link) \notin work.fetched
  /\ IsPrefix(link.scope, Topic)

Verify ==
  /\ work.pc = "verifying"
  /\ IF Verifies(work.grant)
     THEN /\ work' = [work EXCEPT !.pc = "cleared", !.authenticated = TRUE]
          /\ UNCHANGED <<shared, last, refused>>
     ELSE Reject

(* A variant of Perform that does not end the request. *)
PerformTwice ==
  /\ work.pc = "cleared"
  /\ last' = work
  /\ UNCHANGED <<shared, work, refused>>

(* The message is appended, or the op of the control request proposed. *)
Perform ==
  /\ work.pc = "cleared"
  /\ last' = work
  /\ work' = Resting
  /\ UNCHANGED <<shared, refused>>

(* Invalid after all, or the propose fails. *)
PerformFails == work.pc = "cleared" /\ Reject

Next ==
  \/ \E issuer \in Roots \cup {Self}, audience \in Nodes, w \in Workers,
        scope \in Scopes, lifetime \in Lifetimes :
       Mint(issuer, audience, Ability(w), scope, lifetime)
  \/ \E link \in minted : Revoke(link)
  \/ \E root \in Roots : AcceptRoot(root)
  \/ \E require \in BOOLEAN : RequirePublishCap(require)
  \/ Tick
  \/ \E w \in Workers, from \in Nodes, grant \in minted \cup {NoGrant}, bytes \in Sizes :
       Take(w, from, grant, bytes)
  \/ \E bytes \in Sizes : RefuseTooLarge(bytes)
  \/ Gate
  \/ FetchRevoked \/ FetchFails
  \/ Verify
  \/ Perform \/ PerformFails

Spec == Init /\ [][Next]_vars

------------------------------------------------------------------------------
(* Types; only a request that passed the gate was performed. *)
TypeOK ==
  /\ clock \in Time
  /\ minted \subseteq Link /\ Cardinality(minted) <= MaxLinks
  /\ revoked \subseteq Ids
  /\ accepted \subseteq Roots
  /\ required \in BOOLEAN
  /\ work.pc \in {"idle", "taken", "asking", "verifying", "cleared"}
  /\ last = Resting \/ (last.pc = "cleared" /\ work.pc = "idle")
  /\ work.authenticated => work.pc = "cleared"
  /\ work.fetched \subseteq revoked
  /\ refused \subseteq Sizes

(***************************************************************************)
(* What passes the gate without a verified link passed it while it stood   *)
(* open: a request taken up after require_publish_cap(true), with no       *)
(* require_publish_cap(false) since, is performed only with a link.        *)
(***************************************************************************)
GateIsHonoured ==
  last.pc = "cleared" /\ ~last.authenticated => last.open

(***************************************************************************)
(* publisher_is_authenticated(), and a subscription op behind the gate,    *)
(* mean this: the requester held a link made out to him, for this ability  *)
(* and a prefix of this topic, by the owner or a root it accepts, that was *)
(* neither revoked nor expired when the worker took the request up.  A     *)
(* node that cannot be asked for the revoked set does not soften that.     *)
(***************************************************************************)
AuthenticatedWasGranted == last.authenticated =>
  /\ last.grant \in minted
  /\ last.grant.audience = last.from
  /\ last.grant.ability = Ability(last.worker)
  /\ last.grant.issuer \in accepted \cup {Self}
  /\ IsPrefix(last.grant.scope, Topic)
  /\ ~last.dead

------------------------------------------------------------------------------
(* What the repository says of payloads and the ingest path does not do *)

(***************************************************************************)
(* "Maximum size ... of a single message payload accepted by Topic::publish*)
(* and the remote ingest path" (MAX_PAYLOAD_BYTES): no payload within it   *)
(* is refused as too large.                                                *)
(***************************************************************************)
FullPayloadAccepted == \A bytes \in refused : bytes > MaxPayloadBytes
==============================================================================
