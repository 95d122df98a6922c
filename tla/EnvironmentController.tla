------------------------ MODULE EnvironmentController ------------------------
(***************************************************************************)
(* The ProblemEnvironmentReconciler of the controller-manager: it chooses  *)
(* a Worker for an environment, confirms the choice, and derives the Ready *)
(* condition from the container statuses that nclet reports.               *)
(*                                                                         *)
(* Reconcile reads one environment from the cache and makes at most one    *)
(* write, with the resourceVersion it read.  It is one action per branch:  *)
(* a delay between the read and the write is a cache that lags behind.     *)
(***************************************************************************)
EXTENDS WorkerRegistry

\* The reconciler of the controller-manager takes e from its queue.
Reconciles(e) == <<"manager", e>> \in queue

\* What it reads.
Seen(e) == cache["manager"][e]

\* Mutant of NotScheduledYet: the Scheduled condition is not looked at.
NotBeingDeleted(e) == Reconciles(e) /\ Seen(e).life = "live"

NotScheduledYet(e) ==
    Reconciles(e) /\ Seen(e).life = "live" /\ ~IsTrue(Seen(e).scheduled)

\* Not found, or being deleted: nothing to do.
ManagerIgnore(e) ==
    /\ Reconciles(e)
    /\ Seen(e).life # "live"
    /\ Done("manager", e)
    /\ UNCHANGED <<pe, cache, fresh>>

\* Mutant of Schedule: no requeue when the election fails.
ScheduleOnce(e) ==
    /\ NotScheduledYet(e)
    /\ Seen(e).worker = NoWorker
    /\ \/ /\ "listFails" \in Events
          /\ UpdateStatus("manager", e, [Seen(e) EXCEPT !.scheduled = "WorkersUnlisted"], FALSE)
       \/ \E w \in ElectWorker(workerCache) :
             IF w # NoWorker
             THEN Update("manager", e, [Seen(e) EXCEPT !.worker = w])
             ELSE UpdateStatus("manager", e,
                               [Seen(e) EXCEPT !.scheduled = "ScheduleFailed"], FALSE)
    /\ UNCHANGED cache

\* schedule: elect a Worker and write its name, or report the failure and try
\* again after 3 seconds.
Schedule(e) ==
    /\ NotScheduledYet(e)
    /\ Seen(e).worker = NoWorker
    /\ \/ /\ "listFails" \in Events
          /\ UpdateStatus("manager", e, [Seen(e) EXCEPT !.scheduled = "WorkersUnlisted"], TRUE)
       \/ \E w \in ElectWorker(workerCache) :
             IF w # NoWorker
             THEN Update("manager", e, [Seen(e) EXCEPT !.worker = w])
             ELSE UpdateStatus("manager", e,
                               [Seen(e) EXCEPT !.scheduled = "ScheduleFailed"], TRUE)
    /\ UNCHANGED cache

\* Mutant of Confirmed: the password is not stored.
ConfirmedWithoutPassword(o, password) ==
    [o EXCEPT !.scheduled = "Scheduled", !.deployed = "NotDeployed", !.ready = "NotReady",
              !.assigned = "NotAssigned"]

\* What confirmSchedule makes of the status, in one update.
Confirmed(o, password) ==
    [o EXCEPT !.scheduled = "Scheduled", !.deployed = "NotDeployed", !.ready = "NotReady",
              !.assigned = "NotAssigned", !.password = password]

\* Mutant of ConfirmSchedule: no requeue when the Worker is missing.
ConfirmScheduleOnce(e) ==
    /\ NotScheduledYet(e)
    /\ Seen(e).worker # NoWorker
    /\ IF workerCache[Seen(e).worker].exists
       THEN \E password \in Passwords :
                UpdateStatus("manager", e, Confirmed(Seen(e), password), FALSE)
       ELSE UpdateStatus("manager", e, [Seen(e) EXCEPT !.scheduled = "WorkersMissing"], FALSE)
    /\ UNCHANGED cache

\* confirmSchedule: the Worker must exist, or it is looked for again in 3 seconds.
ConfirmSchedule(e) ==
    /\ NotScheduledYet(e)
    /\ Seen(e).worker # NoWorker
    /\ IF workerCache[Seen(e).worker].exists
       THEN \E password \in Passwords :
                UpdateStatus("manager", e, Confirmed(Seen(e), password), FALSE)
       ELSE UpdateStatus("manager", e, [Seen(e) EXCEPT !.scheduled = "WorkersMissing"], TRUE)
    /\ UNCHANGED cache

\* checkStatus: markNotReadyInit always writes, markNotReady and markReady only
\* when the condition is not that already.
CheckStatus(e) ==
    /\ Reconciles(e)
    /\ Seen(e).life = "live"
    /\ IsTrue(Seen(e).scheduled)
    /\ LET mark(reason) == UpdateStatus("manager", e, [Seen(e) EXCEPT !.ready = reason], FALSE)
           skip == Done("manager", e) /\ UNCHANGED <<pe, fresh>>
           status == ConditionStatus(Seen(e).ready)
       IN  CASE Seen(e).containers = "nil"      -> mark("NotChecked")
             [] Seen(e).containers = "notReady" ->
                    IF status = "False" THEN skip ELSE mark("NotReady")
             [] Seen(e).containers = "ready"    ->
                    IF status = "True" THEN skip ELSE mark("Ready")
    /\ UNCHANGED cache

EnvironmentControllerStep(e) ==
    ManagerIgnore(e) \/ Schedule(e) \/ ConfirmSchedule(e) \/ CheckStatus(e)
=============================================================================
