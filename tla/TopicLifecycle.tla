--------------------------- MODULE TopicLifecycle ---------------------------
(***************************************************************************)
(* The life of a topic's owner in one process (src/src/lib.rs): handles of *)
(* type Topic, which are clones of one Arc<TopicInner>; the two workers    *)
(* spawned by create_topic, each of which owns a clone as well; and the    *)
(* shutdown flag they poll.                                                *)
(*                                                                         *)
(* Drop::drop runs before the field `inner` is released: reading the count *)
(* and lowering it are two steps, and drops on two threads interleave.     *)
(***************************************************************************)
EXTENDS Naturals, FiniteSets

CONSTANTS
    Handles     \* the slots for handles in the application

Workers == {"ingest", "control"}

VARIABLES
    handle,     \* per slot: "none", "held", or "dropping" (drop() has run)
    worker,     \* per worker: "unspawned", "top", "polling", "dropping", "stopped"
    shutdown    \* TopicInner::shutdown

vars == <<handle, worker, shutdown>>

(* The Arcs that are alive, those of the workers included. *)
StrongCount ==
    Cardinality({h \in Handles : handle[h] # "none"})
        + Cardinality({w \in Workers : worker[w] \notin {"unspawned", "stopped"}})

(* The body of Drop::drop: the flag is set by the one handle that is left. *)
Signal == shutdown' = (shutdown \/ StrongCount = 1)

(* create_topic has built its handle and has spawned no worker yet. *)
Init ==
    /\ \E h \in Handles :
         handle = [g \in Handles |-> IF g = h THEN "held" ELSE "none"]
    /\ worker = [w \in Workers |-> "unspawned"]
    /\ shutdown = FALSE

-----------------------------------------------------------------------------
(* serve_ingest, then serve_control: each clones the handle into its task. *)
Serve(w) ==
    /\ worker[w] = "unspawned"
    /\ w = "control" => worker["ingest"] # "unspawned"
    /\ worker' = [worker EXCEPT ![w] = "top"]
    /\ UNCHANGED <<handle, shutdown>>

Created == \A w \in Workers : worker[w] # "unspawned"

CloneHandle(h) ==
    /\ Created
    /\ handle[h] = "none"
    /\ \E g \in Handles : handle[g] = "held"
    /\ handle' = [handle EXCEPT ![h] = "held"]
    /\ UNCHANGED <<worker, shutdown>>

DropHandle(h) ==
    /\ Created
    /\ handle[h] = "held"
    /\ Signal
    /\ handle' = [handle EXCEPT ![h] = "dropping"]
    /\ UNCHANGED worker

ReleaseHandle(h) ==
    /\ handle[h] = "dropping"
    /\ handle' = [handle EXCEPT ![h] = "none"]
    /\ UNCHANGED <<worker, shutdown>>

-----------------------------------------------------------------------------
(* The top of a worker's loop: it polls the inbox, or returns, and the     *)
(* return drops its own clone like any other handle.                       *)
PollInbox(w) ==
    /\ worker[w] = "top"
    /\ ~shutdown
    /\ worker' = [worker EXCEPT ![w] = "polling"]
    /\ UNCHANGED <<handle, shutdown>>

Sleep(w) ==
    /\ worker[w] = "polling"
    /\ worker' = [worker EXCEPT ![w] = "top"]
    /\ UNCHANGED <<handle, shutdown>>

Return(w) ==
    /\ worker[w] = "top"
    /\ shutdown
    /\ Signal
    /\ worker' = [worker EXCEPT ![w] = "dropping"]
    /\ UNCHANGED handle

Stop(w) ==
    /\ worker[w] = "dropping"
    /\ worker' = [worker EXCEPT ![w] = "stopped"]
    /\ UNCHANGED <<handle, shutdown>>

WorkerStep(w) == Serve(w) \/ PollInbox(w) \/ Sleep(w) \/ Return(w) \/ Stop(w)

Next ==
    \/ \E h \in Handles : CloneHandle(h) \/ DropHandle(h) \/ ReleaseHandle(h)
    \/ \E w \in Workers : WorkerStep(w)

(* The runtime keeps running both workers, and a drop that began ends. *)
FairSpec ==
    /\ Init /\ [][Next]_vars
    /\ \A w \in Workers : WF_vars(WorkerStep(w))
    /\ \A h \in Handles : WF_vars(ReleaseHandle(h))

-----------------------------------------------------------------------------
(* Once the application has dropped every handle, both workers stop: "The  *)
(* background ingest/control workers run until the last Topic handle (and  *)
(* every clone) is dropped". The count that drop() compares with one also  *)
(* counts the clones the workers own, so the flag is never set.            *)
WorkersStop ==
    (Created /\ \A h \in Handles : handle[h] = "none")
        ~> (\A w \in Workers : worker[w] = "stopped")
=============================================================================
