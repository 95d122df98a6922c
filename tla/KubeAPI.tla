------------------------------- MODULE KubeAPI -------------------------------
(***************************************************************************)
(* The Kubernetes API server as the NETCON programs use it, with the       *)
(* ProblemEnvironments it stores.                                          *)
(*                                                                         *)
(* The server itself is not part of this repository.  What the code relies *)
(* on, and what is modelled, is:                                           *)
(*   - every program reads from its own informer cache, which is some      *)
(*     earlier state of the server and only ever moves forward;            *)
(*   - Update and Status().Update are refused when the resourceVersion of  *)
(*     the submitted object is no longer the stored one; Delete is not;    *)
(*   - an update that changes nothing keeps the resourceVersion;           *)
(*   - deleting an object that has finalizers only marks it;               *)
(*   - a change that reaches a program's cache puts the object's key into  *)
(*     the work queue of the controllers of that program.                  *)
(*                                                                         *)
(* Only equality of a cached resourceVersion with the stored one is ever   *)
(* tested, so "fresh", the set of the <<process, environment>> pairs for   *)
(* which it holds, stands for the numbers.                                 *)
(***************************************************************************)
EXTENDS Naturals, FiniteSets, EnvironmentObject

CONSTANTS
    Envs,         \* names of ProblemEnvironments; generateName uses one once
    Clients,      \* which of the gateway and the kubectl plugin take part
    Events        \* which optional events of the surroundings may happen

ASSUME EnvsFinite == IsFiniteSet(Envs)
ASSUME ProblemIsNoEnv == "problem" \notin Envs
ASSUME ClientsAssumption == Clients \subseteq {"gateway", "kubectl"}
ASSUME ProgramsAreNoWorkers ==
    "manager" \notin Workers /\ "gateway" \notin Workers /\ "kubectl" \notin Workers

VARIABLES
    pe,           \* the stored ProblemEnvironments
    cache,        \* what each process has last seen of them
    fresh,        \* the pairs <<process, environment>> whose cached version is the stored one
    queue         \* keys waiting in work queues, as <<process, key>>

apiVars == <<pe, cache, fresh, queue>>

Controllers == {"manager"} \cup Workers
Processes == Controllers \cup Clients
Keys == Envs \cup {"problem"}

-----------------------------------------------------------------------------
(***************************************************************************)
(* Writes.                                                                 *)
(***************************************************************************)

\* The stored objects become "new"; an object that changed has a new
\* resourceVersion, so no cached copy of it is current any more.
Store(new) ==
    /\ pe' = new
    /\ fresh' = {f \in fresh : new[f[2]] = pe[f[2]]}

\* The webhook of ProblemEnvironment, as far as the fields of the model go.
ValidateUpdate(old, new) == old.worker # NoWorker => new.worker = old.worker

\* Update stores the metadata and the spec of a submitted object ...
SpecOf(old, new) ==
    Settle([old EXCEPT !.finalizers = new.finalizers, !.worker = new.worker])

\* ... and Status().Update its status.
StatusOf(old, new) ==
    [old EXCEPT !.scheduled = new.scheduled, !.deployed = new.deployed,
                !.ready = new.ready, !.assigned = new.assigned,
                !.containers = new.containers, !.password = new.password]

\* Mutant of Accepted: the last write wins.
AcceptedAnyway(p, e) == Exists(pe[e])

\* Whether the version that p submits of e is accepted.
Accepted(p, e) == <<p, e>> \in fresh /\ Exists(pe[e])

\* A reconciler of p returns: without a requeue its key leaves the queue.
Done(p, e) == queue' = queue \ {<<p, e>>}
Requeue == UNCHANGED queue

\* r.update(ctx, obj, Result{}): a refused update is an error, and the key is
\* queued again.
Update(p, e, new) ==
    IF Accepted(p, e) /\ ValidateUpdate(pe[e], new)
    THEN Store([pe EXCEPT ![e] = SpecOf(pe[e], new)]) /\ Done(p, e)
    ELSE UNCHANGED <<pe, fresh>> /\ Requeue

\* r.updateStatus(ctx, obj, res), where again says whether res asks for a requeue.
UpdateStatus(p, e, new, again) ==
    IF Accepted(p, e)
    THEN /\ Store([pe EXCEPT ![e] = StatusOf(pe[e], new)])
         /\ IF again THEN Requeue ELSE Done(p, e)
    ELSE UNCHANGED <<pe, fresh>> /\ Requeue

-----------------------------------------------------------------------------
(***************************************************************************)
(* Caches, restarts and garbage collection.                                *)
(***************************************************************************)

APIInit ==
    /\ pe = [e \in Envs |-> Blank("unborn")]
    /\ cache = [p \in Processes |-> pe]
    /\ fresh = (Processes \ {"kubectl"}) \X Envs
    /\ queue = {}

\* Keys that p's controllers get when everything p has not seen yet reaches it:
\* the ProblemReconciler owns ProblemEnvironments, so their events are its own too.
EventKeys(p) ==
    LET changed == {e \in Envs : <<p, e>> \notin fresh}
    IN  IF p \notin Controllers THEN {}
        ELSE IF p = "manager" THEN {p} \X (changed \cup {"problem"}) ELSE {p} \X changed

\* The watch of p catches up with the server.
Observe(p) ==
    /\ p # "kubectl"
    /\ \E e \in Envs : <<p, e>> \notin fresh
    /\ cache' = [cache EXCEPT ![p] = pe]
    /\ fresh' = fresh \cup ({p} \X Envs)
    /\ queue' = queue \cup EventKeys(p)
    /\ UNCHANGED pe

\* What a restart leaves of p's state: a new cache, and every object listed.
Restarted(p) ==
    /\ cache' = [cache EXCEPT ![p] = pe]
    /\ fresh' = fresh \cup ({p} \X Envs)
    /\ queue' = {q \in queue : q[1] # p} \cup
         IF p \in Controllers
         THEN {p} \X ({e \in Envs : Exists(pe[e])} \cup IF p = "manager" THEN {"problem"} ELSE {})
         ELSE {}

Restart(p) ==
    /\ "restart" \in Events
    /\ p # "kubectl"
    /\ Restarted(p)
    /\ UNCHANGED pe

\* The garbage collector ends a foreground deletion.
FinishForegroundDeletion(e) ==
    /\ pe[e].life = "terminating"
    /\ "foreground" \in pe[e].finalizers
    /\ LET left == pe[e].finalizers \ {"foreground"}
       IN  Store([pe EXCEPT ![e] = Settle([pe[e] EXCEPT !.finalizers = left])])
    /\ UNCHANGED <<cache, queue>>

APITypeOK ==
    /\ pe \in [Envs -> ProblemEnvironment]
    /\ cache \in [Processes -> [Envs -> ProblemEnvironment]]
    /\ fresh \subseteq Processes \X Envs
    /\ queue \subseteq Controllers \X Keys
=============================================================================
