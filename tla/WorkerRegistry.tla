--------------------------- MODULE WorkerRegistry ---------------------------
(***************************************************************************)
(* The Worker objects: what nclet, the worker controller and the operator  *)
(* write into them, and what the scheduler reads of them.                  *)
(*                                                                         *)
(* Every writer reads one Worker and writes it back with its               *)
(* resourceVersion, so a write either works on the stored Worker or is     *)
(* refused and has no effect: one step each.  The scheduler reads a cached *)
(* list, which may be old.  Time and leases are abstracted to the verdict  *)
(* of the health check, which may change at any moment.                    *)
(***************************************************************************)
EXTENDS Integers, KubeAPI

CONSTANTS
    Matching,          \* the Workers that the workerSelectors of the Problem match
    MemoryLevels,      \* memory usage, in percent, that a Worker may report
    MemoryThreshold    \* SchedulerParameters.MemoryThreshold

\* A Worker whose nclet has not reported yet has "" there, which does not parse.
Unreported == -1

MAX_USED_PERCENT == 100

ASSUME MatchingAssumption == Matching \subseteq Workers
ASSUME MemoryAssumption ==
    MemoryLevels \subseteq 0..MAX_USED_PERCENT /\ MemoryThreshold \in 0..MAX_USED_PERCENT

VARIABLES
    worker,            \* the stored Workers
    workerCache        \* the Workers as the controller-manager has last seen them

workerVars == <<worker, workerCache>>

Worker ==
    [exists   : BOOLEAN,
     ready    : BOOLEAN,
     disabled : BOOLEAN,
     memory   : MemoryLevels \cup {Unreported}]

NoSuchWorker == [exists |-> FALSE, ready |-> FALSE, disabled |-> FALSE, memory |-> Unreported]

\* The system starts with healthy Workers that have reported.
WorkerInit ==
    /\ \E m \in [Workers -> MemoryLevels] :
           worker = [w \in Workers |->
                        [exists |-> TRUE, ready |-> TRUE, disabled |-> FALSE, memory |-> m[w]]]
    /\ workerCache = worker

-----------------------------------------------------------------------------

ChangeWorker(w, new) ==
    /\ worker' = [worker EXCEPT ![w] = new]
    /\ UNCHANGED workerCache

\* nclet starts: CreateOrUpdate of the Worker sets its labels only.
RegisterWorker(w) ==
    /\ "workers" \in Events
    /\ ~worker[w].exists
    /\ ChangeWorker(w, [NoSuchWorker EXCEPT !.exists = TRUE])

\* The status ticker of nclet: a Worker that is missing is not created again.
ReportStatus(w) ==
    /\ "workers" \in Events
    /\ worker[w].exists
    /\ \E m \in MemoryLevels : ChangeWorker(w, [worker[w] EXCEPT !.memory = m])

\* The worker controller finds the lease of w alive or expired, and writes the
\* Ready condition when that is a transition.
MonitorWorkerHealth(w) ==
    /\ "workers" \in Events
    /\ worker[w].exists
    /\ ChangeWorker(w, [worker[w] EXCEPT !.ready = ~@])

\* kubectl netcon worker enable, and disable.
SetDisableSchedule(w) ==
    /\ "workers" \in Events
    /\ worker[w].exists
    /\ ChangeWorker(w, [worker[w] EXCEPT !.disabled = ~@])

\* An operator removes the Worker object.
DeleteWorker(w) ==
    /\ "workers" \in Events
    /\ worker[w].exists
    /\ ChangeWorker(w, NoSuchWorker)

\* The watch of the controller-manager on Workers catches up.
ObserveWorkers ==
    /\ workerCache # worker
    /\ workerCache' = worker
    /\ UNCHANGED worker

WorkerStep(w) ==
    \/ RegisterWorker(w)
    \/ ReportStatus(w)
    \/ MonitorWorkerHealth(w)
    \/ SetDisableSchedule(w)
    \/ DeleteWorker(w)

-----------------------------------------------------------------------------
(***************************************************************************)
(* electWorker: a Worker is a candidate when it is Ready, not disabled,    *)
(* matched by the selectors and not above the memory threshold.  Every     *)
(* candidate has a positive Boltzmann weight, so each may be drawn.        *)
(***************************************************************************)
MemoryUsed(m) == IF m = Unreported THEN MAX_USED_PERCENT ELSE m

Candidates(ws) ==
    {w \in Workers : /\ ws[w].exists /\ ws[w].ready
                     /\ ~ws[w].disabled
                     /\ w \in Matching
                     /\ MemoryUsed(ws[w].memory) <= MemoryThreshold}

\* The names that electWorker may return.
ElectWorker(ws) == IF Candidates(ws) = {} THEN {NoWorker} ELSE Candidates(ws)

WorkerTypeOK ==
    /\ worker \in [Workers -> Worker]
    /\ workerCache \in [Workers -> Worker]
=============================================================================
