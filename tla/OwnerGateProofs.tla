--------------------------- MODULE OwnerGateProofs ---------------------------
(***************************************************************************)
(* Proofs about OwnerGate, for every value of its constants: who passes    *)
(* the gate, whatever is minted, revoked, accepted or required between two *)
(* steps of a request; and that the state keeps its types.                 *)
(***************************************************************************)
EXTENDS OwnerGate, FiniteSetTheorems, TLAPS

(* The record a worker keeps; its link is one that was minted. *)
Holding ==
  [ pc            : {"idle", "taken", "asking", "verifying", "cleared"},
    worker        : Workers \cup {"none"},
    from          : Nodes \cup {Self},
    grant         : minted \cup {NoGrant},
    bytes         : Sizes \cup {0},
    now           : Nat,
    fetched       : SUBSET revoked,
    authenticated : BOOLEAN,
    open          : BOOLEAN,
    dead          : BOOLEAN ]

(* What authorize() has verified of the request w. *)
Granted(w) ==
  /\ w.grant \in minted
  /\ w.grant.audience = w.from
  /\ w.grant.ability = Ability(w.worker)
  /\ w.grant.issuer \in accepted \cup {Self}
  /\ IsPrefix(w.grant.scope, Topic)
  /\ ~w.dead

(* Whose link a request had taken up dead still fails the check to come. *)
WillFail ==
  /\ work.pc \in {"taken", "asking"} /\ work.dead =>
       Id(work.grant) \in revoked \/ Expired(work.grant, work.now)
  /\ work.pc = "verifying" /\ work.dead =>
       Id(work.grant) \in work.fetched \/ Expired(work.grant, work.now)

(***************************************************************************)
(* The inductive invariant.  A revoked set fetched after the request was   *)
(* taken up holds whatever was revoked when it was; and a gate that stands *)
(* open has stood open since some moment of the request's life.            *)
(***************************************************************************)
GateInv ==
  /\ clock \in Nat
  /\ work \in Holding
  /\ WillFail
  /\ work.pc # "idle" /\ ~required => work.open
  /\ work.pc \in {"asking", "verifying"} => work.grant # NoGrant
  /\ work.pc = "cleared" /\ ~work.authenticated => work.open
  /\ work.authenticated => Granted(work)
  /\ GateIsHonoured
  /\ AuthenticatedWasGranted

------------------------------------------------------------------------------
(* No request has been taken up. *)
LEMMA InitGate == Init => GateInv
<1> SUFFICES ASSUME Init
             PROVE  GateInv
  OBVIOUS
<1>1. Resting \in Holding
  BY DEF Resting, Holding
<1> QED
  BY <1>1 DEF Init, GateInv, WillFail, GateIsHonoured, AuthenticatedWasGranted, Resting

(* Between two requests a worker holds nothing. *)
LEMMA RestingHoldsNothing ==
  /\ Resting \in Holding'
  /\ Resting.pc = "idle"
  /\ ~Resting.authenticated
BY DEF Resting, Holding

(* Minting, revoking, accepting and the clock take nothing from a request. *)
LEMMA AroundGate ==
  ASSUME GateInv, clock' \in Nat, minted \subseteq minted', revoked \subseteq revoked',
         accepted \subseteq accepted', UNCHANGED <<required, work, last>>
  PROVE  GateInv'
<1>1. work \in Holding'
  BY DEF GateInv, Holding
<1>2. WillFail'
  BY DEF GateInv, WillFail
<1>3. work.authenticated => Granted(work)'
  BY DEF GateInv, Granted
<1>4. GateIsHonoured' /\ AuthenticatedWasGranted'
  BY DEF GateInv, GateIsHonoured, AuthenticatedWasGranted
<1> QED
  BY <1>1, <1>2, <1>3, <1>4 DEF GateInv

(* The owner turns the requirement on or off. *)
LEMMA RequireGate ==
  ASSUME GateInv, NEW require \in BOOLEAN, RequirePublishCap(require)
  PROVE  GateInv'
<1>1. /\ required' = require
      /\ UNCHANGED <<clock, minted, revoked, accepted, last>>
      /\ work' = IF work.pc = "idle" THEN work ELSE [work EXCEPT !.open = @ \/ ~require]
  BY DEF RequirePublishCap
<1>2. work \in Holding
  BY DEF GateInv
<1>3. /\ work' \in Holding
      /\ work'.pc = work.pc /\ work'.grant = work.grant /\ work'.from = work.from
      /\ work'.worker = work.worker /\ work'.now = work.now
      /\ work'.fetched = work.fetched /\ work'.dead = work.dead
      /\ work'.authenticated = work.authenticated
      /\ work.open => work'.open
      /\ work.pc # "idle" /\ ~require => work'.open
  BY <1>1, <1>2 DEF Holding
<1>4. work' \in Holding' /\ WillFail'
  BY <1>1, <1>3 DEF GateInv, Holding, WillFail
<1>5. work'.authenticated => Granted(work)'
  BY <1>1, <1>3 DEF GateInv, Granted
<1>6. GateIsHonoured' /\ AuthenticatedWasGranted'
  BY <1>1 DEF GateInv, GateIsHonoured, AuthenticatedWasGranted
<1> QED
  BY <1>1, <1>3, <1>4, <1>5, <1>6 DEF GateInv

(* What was performed stays performed while nothing else changes. *)
LEMMA SharedSame ==
  ASSUME GateInv, UNCHANGED shared
  PROVE  /\ clock' \in Nat
         /\ Holding' = Holding
         /\ UNCHANGED <<clock, minted, revoked, accepted, required>>
         /\ last' = last => GateIsHonoured' /\ AuthenticatedWasGranted'
         /\ last' = Resting => GateIsHonoured' /\ AuthenticatedWasGranted'
<1>1. UNCHANGED <<clock, minted, revoked, accepted, required>>
  BY DEF shared
<1>2. ~Resting.authenticated /\ Resting.pc = "idle"
  BY DEF Resting
<1> QED
  BY <1>1, <1>2 DEF GateInv, Holding, GateIsHonoured, AuthenticatedWasGranted

(* A request that ends without effect. *)
LEMMA RejectGate ==
  ASSUME GateInv, Reject
  PROVE  GateInv'
<1>1. work' = Resting /\ UNCHANGED shared /\ last' = last
  BY DEF Reject
<1>2. work' \in Holding' /\ work'.pc = "idle" /\ ~work'.authenticated
  BY <1>1, RestingHoldsNothing
<1> QED
  BY <1>1, <1>2, SharedSame DEF GateInv, WillFail

(* A request is taken up: what is wrong with its link now will be found. *)
LEMMA TakeGate ==
  ASSUME GateInv, NEW w \in Workers, NEW from \in Nodes,
         NEW grant \in minted \cup {NoGrant}, NEW bytes \in Sizes,
         Take(w, from, grant, bytes)
  PROVE  GateInv'
<1> DEFINE doomed == grant # NoGrant /\ (Id(grant) \in revoked \/ Expired(grant, clock))
<1>1. /\ UNCHANGED shared
      /\ last' = Resting
      /\ work' = [ pc |-> "taken", worker |-> w, from |-> from, grant |-> grant,
                   bytes |-> bytes, now |-> clock, fetched |-> {},
                   authenticated |-> FALSE, open |-> ~required, dead |-> doomed ]
  BY DEF Take, Resting
<1>2. doomed \in BOOLEAN /\ (~required) \in BOOLEAN
  OBVIOUS
<1>3. doomed => Id(grant) \in revoked \/ Expired(grant, clock)
  OBVIOUS
<1> HIDE DEF doomed
<1>4. work' \in Holding
  BY <1>1, <1>2 DEF Holding, GateInv
<1>5. WillFail'
  BY <1>1, <1>3 DEF WillFail, shared
<1>6. /\ work'.pc = "taken" /\ ~work'.authenticated
      /\ ~required' => work'.open
  BY <1>1 DEF shared
<1> QED
  BY <1>1, <1>4, <1>5, <1>6, SharedSame DEF GateInv

(* The gate lets a request through while it stands open, or asks. *)
LEMMA PassGate ==
  ASSUME GateInv, Gate
  PROVE  GateInv'
<1>1. work.pc = "taken" /\ work \in Holding
  BY DEF Gate, GateInv
<1>2. CASE Reject
  BY <1>2, RejectGate
<1>3. ASSUME NEW pc \in {"cleared", "asking"}, GoTo(pc),
             pc = "cleared" => ~required,
             pc = "asking" => work.grant # NoGrant
      PROVE  GateInv'
  <2>1. work' = [work EXCEPT !.pc = pc] /\ UNCHANGED shared /\ last' = last
    BY <1>3 DEF GoTo
  <2>2. /\ work' \in Holding
        /\ work'.pc = pc /\ work'.grant = work.grant /\ work'.now = work.now
        /\ work'.fetched = work.fetched /\ work'.dead = work.dead
        /\ work'.authenticated = work.authenticated /\ work'.open = work.open
        /\ work'.from = work.from /\ work'.worker = work.worker
    BY <1>1, <1>3, <2>1 DEF Holding
  <2>3. work.authenticated => Granted(work)'
    BY <2>1, <2>2 DEF GateInv, Granted, shared
  <2>4. WillFail'
    BY <1>1, <1>3, <2>1, <2>2 DEF GateInv, WillFail, shared
  <2> QED
    BY <1>1, <1>3, <2>1, <2>2, <2>3, <2>4, SharedSame DEF GateInv
<1> QED
  BY <1>2, <1>3 DEF Gate

(* What was revoked when the request was taken up is in the set fetched. *)
LEMMA FetchGate ==
  ASSUME GateInv, FetchRevoked
  PROVE  GateInv'
<1>1. /\ work.pc = "asking"
      /\ work \in Holding
      /\ work' = [work EXCEPT !.pc = "verifying", !.fetched = revoked]
      /\ UNCHANGED shared
      /\ last' = last
  BY DEF FetchRevoked, GateInv
<1>2. /\ work' \in Holding
      /\ work'.pc = "verifying" /\ work'.grant = work.grant /\ work'.now = work.now
      /\ work'.fetched = revoked /\ work'.dead = work.dead
      /\ work'.authenticated = work.authenticated /\ work'.open = work.open
      /\ work'.from = work.from /\ work'.worker = work.worker
  BY <1>1 DEF Holding
<1>3. work.authenticated => Granted(work)'
  BY <1>1, <1>2 DEF GateInv, Granted, shared
<1>4. WillFail'
  BY <1>1, <1>2 DEF GateInv, WillFail, shared
<1> QED
  BY <1>1, <1>2, <1>3, <1>4, SharedSame DEF GateInv

(* verify_link has seen everything a granted request must have. *)
LEMMA VerifyGate ==
  ASSUME GateInv, Verify
  PROVE  GateInv'
<1>1. work.pc = "verifying" /\ work \in Holding /\ work.grant # NoGrant
  BY DEF Verify, GateInv
<1>2. CASE Reject
  BY <1>2, RejectGate
<1>3. CASE Verifies(work.grant) /\ UNCHANGED <<shared, last>>
           /\ work' = [work EXCEPT !.pc = "cleared", !.authenticated = TRUE]
  <2>1. /\ work' \in Holding
        /\ work'.pc = "cleared" /\ work'.grant = work.grant
        /\ work'.from = work.from /\ work'.worker = work.worker
        /\ work'.dead = work.dead /\ work'.open = work.open
        /\ work'.authenticated = TRUE
    BY <1>1, <1>3 DEF Holding
  <2>2. ~work.dead
    BY <1>1, <1>3 DEF Verifies, GateInv, WillFail
  <2>3. work.grant \in minted
    BY <1>1 DEF Holding
  <2>4. Granted(work)'
    BY <1>3, <2>1, <2>2, <2>3 DEF Verifies, Granted, shared
  <2>5. WillFail' /\ UNCHANGED shared /\ last' = last
    BY <1>3, <2>1 DEF WillFail
  <2>6. work.open \in BOOLEAN /\ (~required => work.open)
    BY <1>1 DEF GateInv, Holding
  <2> QED
    BY <1>3, <2>1, <2>4, <2>5, <2>6, SharedSame DEF GateInv
<1> QED
  BY <1>2, <1>3 DEF Verify

(* Only what the gate has cleared is performed. *)
LEMMA PerformGate ==
  ASSUME GateInv, Perform
  PROVE  GateInv'
<1>1. /\ work.pc = "cleared"
      /\ last' = work
      /\ work' = Resting
      /\ UNCHANGED shared
  BY DEF Perform
<1>2. /\ UNCHANGED <<clock, minted, revoked, accepted, required>>
      /\ work' \in Holding'
      /\ work'.pc = "idle"
      /\ ~work'.authenticated
  BY <1>1, RestingHoldsNothing DEF shared
<1>3. GateIsHonoured'
  BY <1>1 DEF GateInv, GateIsHonoured
<1>4. AuthenticatedWasGranted'
  BY <1>1, <1>2 DEF GateInv, Granted, AuthenticatedWasGranted
<1>5. WillFail'
  BY <1>2 DEF WillFail
<1> QED
  BY <1>2, <1>3, <1>4, <1>5 DEF GateInv

(* Every step keeps the invariant. *)
LEMMA NextGate == GateInv /\ [Next]_vars => GateInv'
<1> SUFFICES ASSUME GateInv, [Next]_vars
             PROVE  GateInv'
  OBVIOUS
<1>1. CASE UNCHANGED vars
  BY <1>1, AroundGate DEF vars, GateInv
<1>2. ASSUME \/ \E issuer \in Roots \cup {Self}, audience \in Nodes, w \in Workers,
                   scope \in Scopes, lifetime \in Lifetimes :
                  Mint(issuer, audience, Ability(w), scope, lifetime)
             \/ \E link \in minted : Revoke(link)
             \/ \E root \in Roots : AcceptRoot(root)
             \/ Tick
             \/ \E bytes \in Sizes : RefuseTooLarge(bytes)
      PROVE  GateInv'
  <2>1. /\ clock' \in {clock, clock + 1}
        /\ minted \subseteq minted' /\ revoked \subseteq revoked'
        /\ accepted \subseteq accepted'
        /\ UNCHANGED <<required, work, last>>
    BY <1>2 DEF Mint, Revoke, AcceptRoot, Tick, RefuseTooLarge, shared
  <2>2. clock' \in Nat
    BY <2>1 DEF GateInv
  <2> QED
    BY <2>1, <2>2, AroundGate
<1>3. ASSUME NEW require \in BOOLEAN, RequirePublishCap(require)
      PROVE  GateInv'
  BY <1>3, RequireGate
<1>4. CASE FetchFails \/ PerformFails
  BY <1>4, RejectGate DEF FetchFails, PerformFails
<1> QED
  BY <1>1, <1>2, <1>3, <1>4, TakeGate, PassGate, FetchGate, VerifyGate, PerformGate
  DEF Next

------------------------------------------------------------------------------
(***************************************************************************)
(* Types, and where a worker stands between two requests: what was         *)
(* performed is remembered only until the next request is taken up, and a  *)
(* request is authenticated only when it has been cleared.                 *)
(***************************************************************************)
GateTypes == GateInv /\ TypeOK /\ IsFiniteSet(minted)

(* Nothing minted, nothing in hand. *)
LEMMA InitTypes == Init => GateTypes
<1> SUFFICES ASSUME Init  PROVE TypeOK /\ IsFiniteSet(minted)
  BY InitGate DEF GateTypes
<1>1. Cardinality({}) = 0 /\ IsFiniteSet({})
  BY FS_EmptySet
<1>2. /\ work = Resting /\ last = Resting /\ work.pc = "idle"
      /\ ~work.authenticated /\ work.fetched = {}
  BY DEF Init, Resting
<1>3. clock \in Time /\ Cardinality(minted) <= MaxLinks
  BY <1>1, BoundsAssumption DEF Init, Time
<1> QED
  BY <1>1, <1>2, <1>3 DEF Init, TypeOK

(* A link is minted under the bound, with the second as its nonce. *)
LEMMA MintTypes ==
  ASSUME GateTypes, NEW issuer \in Roots \cup {Self}, NEW audience \in Nodes,
         NEW w \in Workers, NEW scope \in Scopes, NEW lifetime \in Lifetimes,
         Mint(issuer, audience, Ability(w), scope, lifetime)
  PROVE  TypeOK' /\ IsFiniteSet(minted')
<1> DEFINE link == [ issuer    |-> issuer,
                     audience  |-> audience,
                     ability   |-> Ability(w),
                     scope     |-> scope,
                     not_after |-> IF lifetime = 0 THEN 0 ELSE clock + lifetime,
                     nonce     |-> clock ]
<1>1. /\ Cardinality(minted) < MaxLinks /\ minted' = minted \cup {link}
      /\ UNCHANGED <<clock, revoked, accepted, required, work, last, refused>>
  BY DEF Mint
<1>2. clock \in Time /\ clock \in Nat /\ clock + lifetime \in Nat
  BY LifetimesAssumption DEF GateTypes, TypeOK, GateInv
<1>3. link \in Link
  BY <1>2 DEF Link
<1> HIDE DEF link
<1>4. IsFiniteSet(minted') /\ Cardinality(minted') <= MaxLinks
  <2>1. IsFiniteSet(minted) /\ Cardinality(minted) \in Nat /\ MaxLinks \in Nat
    BY FS_CardinalityType, BoundsAssumption DEF GateTypes
  <2>2. /\ IsFiniteSet(minted \cup {link})
        /\ Cardinality(minted \cup {link}) =
             IF link \in minted THEN Cardinality(minted) ELSE Cardinality(minted) + 1
    BY <2>1, FS_AddElement
  <2> QED
    BY <1>1, <2>1, <2>2
<1> QED
  BY <1>1, <1>3, <1>4 DEF GateTypes, TypeOK

(* The worker's own steps. *)
LEMMA WorkerTypes ==
  ASSUME GateTypes, GateInv', UNCHANGED shared, UNCHANGED refused,
         \/ last' = Resting
         \/ last' = last /\ (work.pc # "idle" \/ work'.pc = "idle")
         \/ last' = work /\ work.pc = "cleared" /\ work'.pc = "idle",
         work'.authenticated => work'.pc = "cleared"
  PROVE  TypeOK' /\ IsFiniteSet(minted')
<1>1. UNCHANGED <<clock, minted, revoked, accepted, required, refused>>
  BY DEF shared
<1>2. /\ work'.pc \in {"idle", "taken", "asking", "verifying", "cleared"}
      /\ work'.fetched \subseteq revoked'
  BY DEF GateInv, Holding
<1>3. last' = Resting \/ (last'.pc = "cleared" /\ work'.pc = "idle")
  BY DEF GateTypes, TypeOK
<1> QED
  BY <1>1, <1>2, <1>3 DEF GateTypes, TypeOK

(* Every step keeps the types. *)
LEMMA NextTypes == GateTypes /\ [Next]_vars => GateTypes'
<1> SUFFICES ASSUME GateTypes, [Next]_vars  PROVE TypeOK' /\ IsFiniteSet(minted')
  BY NextGate DEF GateTypes
<1>1. GateInv' /\ GateInv /\ ~Resting.authenticated /\ Resting.pc = "idle"
  BY NextGate, RestingHoldsNothing DEF GateTypes
<1>2. CASE UNCHANGED vars
  BY <1>2 DEF vars, GateTypes, TypeOK
<1>3. ASSUME NEW issuer \in Roots \cup {Self}, NEW audience \in Nodes, NEW w \in Workers,
             NEW scope \in Scopes, NEW lifetime \in Lifetimes,
             Mint(issuer, audience, Ability(w), scope, lifetime)
      PROVE  TypeOK' /\ IsFiniteSet(minted')
  BY <1>3, MintTypes
<1>4. ASSUME NEW link \in minted, Revoke(link)
      PROVE  TypeOK' /\ IsFiniteSet(minted')
  <2>1. link \in Link
    BY DEF GateTypes, TypeOK
  <2>2. Id(link) \in Ids
    BY <2>1 DEF Link, Id, Ids
  <2> QED
    BY <1>4, <2>2 DEF Revoke, GateTypes, TypeOK
<1>5. ASSUME NEW root \in Roots, AcceptRoot(root)
      PROVE  TypeOK' /\ IsFiniteSet(minted')
  BY <1>5 DEF AcceptRoot, GateTypes, TypeOK
<1>6. ASSUME NEW require \in BOOLEAN, RequirePublishCap(require)
      PROVE  TypeOK' /\ IsFiniteSet(minted')
  <2>1. /\ UNCHANGED <<clock, minted, revoked, accepted, last, refused>> /\ required' = require
        /\ work' = IF work.pc = "idle" THEN work ELSE [work EXCEPT !.open = @ \/ ~require]
    BY <1>6 DEF RequirePublishCap
  <2>2. /\ work'.pc = work.pc /\ work'.authenticated = work.authenticated
        /\ work'.fetched = work.fetched
    BY <1>1, <2>1 DEF GateInv, Holding
  <2> QED
    BY <2>1, <2>2 DEF GateTypes, TypeOK
<1>7. CASE Tick
  <2>1. clock' \in Time
    BY <1>7, BoundsAssumption DEF Tick, GateTypes, TypeOK, Time
  <2> QED
    BY <1>7, <2>1 DEF Tick, GateTypes, TypeOK
<1>8. ASSUME NEW bytes \in Sizes, RefuseTooLarge(bytes)
      PROVE  TypeOK' /\ IsFiniteSet(minted')
  BY <1>8 DEF RefuseTooLarge, shared, GateTypes, TypeOK
<1>9. ASSUME NEW w \in Workers, NEW from \in Nodes, NEW grant \in minted \cup {NoGrant},
             NEW bytes \in Sizes, Take(w, from, grant, bytes)
      PROVE  TypeOK' /\ IsFiniteSet(minted')
  <2>1. ~work'.authenticated
    BY <1>9 DEF Take, Resting
  <2> QED
    BY <1>1, <1>9, <2>1, WorkerTypes DEF Take
<1>10. ASSUME Reject  PROVE TypeOK' /\ IsFiniteSet(minted')
  BY <1>1, <1>10, WorkerTypes DEF Reject
<1>11. ASSUME NEW pc \in {"cleared", "asking"}, work.pc = "taken", GoTo(pc)
       PROVE  TypeOK' /\ IsFiniteSet(minted')
  <2>1. ~work.authenticated /\ work'.authenticated = work.authenticated
    BY <1>1, <1>11 DEF GoTo, GateTypes, TypeOK, GateInv, Holding
  <2> QED
    BY <1>1, <1>11, <2>1, WorkerTypes DEF GoTo
<1>12. CASE FetchRevoked
  <2>1. ~work.authenticated /\ work'.authenticated = work.authenticated
    BY <1>1, <1>12 DEF FetchRevoked, GateTypes, TypeOK, GateInv, Holding
  <2> QED
    BY <1>1, <1>12, <2>1, WorkerTypes DEF FetchRevoked
<1>13. CASE Verify
  <2>1. ASSUME ~Reject
        PROVE  /\ work.pc = "verifying" /\ work'.pc = "cleared"
               /\ UNCHANGED <<shared, last, refused>>
    BY <1>1, <1>13, <2>1 DEF Verify, GateInv, Holding
  <2> QED
    BY <1>1, <1>10, <2>1, WorkerTypes
<1>14. CASE Perform
  BY <1>1, <1>14, WorkerTypes DEF Perform
<1> QED
  BY <1>2, <1>3, <1>4, <1>5, <1>6, <1>7, <1>8, <1>9, <1>10, <1>11, <1>12, <1>13, <1>14
  DEF Next, Gate, FetchFails, PerformFails

------------------------------------------------------------------------------
(* Theorems *)

(***************************************************************************)
(* A request performed without a verified link found require_cap unset at  *)
(* some moment since it was taken up.                                      *)
(***************************************************************************)
THEOREM GateHolds == Spec => []GateIsHonoured
<1>1. GateInv => GateIsHonoured
  BY DEF GateInv
<1> QED
  BY <1>1, InitGate, NextGate, PTL DEF Spec

(***************************************************************************)
(* A request performed as authenticated held a link of an accepted root    *)
(* for this requester, ability and topic, neither expired nor revoked when *)
(* it was taken up.                                                        *)
(***************************************************************************)
THEOREM OnlyGrantedPasses == Spec => []AuthenticatedWasGranted
<1>1. GateInv => AuthenticatedWasGranted
  BY DEF GateInv
<1> QED
  BY <1>1, InitGate, NextGate, PTL DEF Spec
(***************************************************************************)
(* Types and bounds of the gate's state; only a request that has been      *)
(* cleared counts as authenticated, and none is performed while the worker *)
(* is still at it.                                                         *)
(***************************************************************************)
THEOREM GateTypeCorrectness == Spec => []TypeOK
<1>1. GateTypes => TypeOK
  BY DEF GateTypes
<1> QED
  BY <1>1, InitTypes, NextTypes, PTL DEF Spec
==============================================================================
