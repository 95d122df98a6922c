------------------------------ MODULE Lifecycle ------------------------------
(***************************************************************************)
(* What the programs promise about one environment: its life as if there   *)
(* were a single copy of it, and every program changed that copy in one    *)
(* step.  There are no caches, versions, queues or refused writes here.    *)
(* Each action names the one program that may take it, and when.           *)
(***************************************************************************)
EXTENDS Naturals, EnvironmentObject

VARIABLES
    obj,         \* the environment
    holders,     \* how many were told how to log in to it since it was last unassigned
    issued       \* the password they were told

lifeVars == <<obj, holders, issued>>

LifeInit ==
    /\ obj = Blank("unborn")
    /\ holders = 0
    /\ issued = NoPassword

Unscheduled == obj.life = "live" /\ ~IsTrue(obj.scheduled)
Served == obj.life = "live" /\ IsTrue(obj.scheduled)

-----------------------------------------------------------------------------
\* The ProblemReconciler.
Create ==
    /\ obj.life = "unborn"
    /\ obj' = Blank("live")
    /\ UNCHANGED <<holders, issued>>

\* The ProblemReconciler, the garbage collector, the gateway, an administrator.
Delete ==
    /\ Exists(obj)
    /\ \E foreground \in BOOLEAN : obj' = AfterDelete(obj, foreground)
    /\ UNCHANGED <<holders, issued>>

\* The manager chooses a Worker, once.
Bind ==
    /\ Unscheduled
    /\ obj.worker = NoWorker
    /\ \E w \in Workers : obj' = [obj EXCEPT !.worker = w]
    /\ UNCHANGED <<holders, issued>>

\* The manager reports that it cannot schedule.
FailToSchedule ==
    /\ Unscheduled
    /\ \E reason \in {"WorkersUnlisted", "ScheduleFailed", "WorkersMissing"} :
           obj' = [obj EXCEPT !.scheduled = reason]
    /\ UNCHANGED <<holders, issued>>

\* The manager confirms the choice, and makes the password.
Confirm ==
    /\ Unscheduled
    /\ obj.worker # NoWorker
    /\ \E password \in Passwords :
           obj' = [obj EXCEPT !.scheduled = "Scheduled", !.deployed = "NotDeployed",
                              !.ready = "NotReady", !.assigned = "NotAssigned",
                              !.password = password]
    /\ UNCHANGED <<holders, issued>>

\* The manager sums up the containers.
Judge ==
    /\ Served
    /\ \/ obj.containers = "ready" /\ obj' = [obj EXCEPT !.ready = "Ready"]
       \/ obj.containers = "notReady" /\ obj' = [obj EXCEPT !.ready = "NotReady"]
       \/ obj.containers = "nil" /\ obj' = [obj EXCEPT !.ready = "NotChecked"]
    /\ UNCHANGED <<holders, issued>>

\* nclet takes the environment over.
TakeOver ==
    /\ Served
    /\ obj' = [obj EXCEPT !.finalizers = obj.finalizers \cup {"nclet"}]
    /\ UNCHANGED <<holders, issued>>

\* nclet has deployed it, once, and reports its containers from then on.
Report ==
    /\ Served
    /\ HasFinalizer(obj)
    /\ \/ /\ ~IsTrue(obj.deployed)
          /\ \/ \E c \in ContainerStatuses :
                    obj' = [obj EXCEPT !.deployed = "Deployed", !.containers = c]
             \/ obj' = [obj EXCEPT !.deployed = "DeployFailed"]
       \/ /\ IsTrue(obj.deployed)
          /\ \E c \in ContainerStatuses : obj' = [obj EXCEPT !.containers = c]
    /\ UNCHANGED <<holders, issued>>

\* nclet cannot destroy it.
FailToDestroy ==
    /\ obj.life = "terminating"
    /\ HasFinalizer(obj)
    /\ obj' = [obj EXCEPT !.ready = "DestroyFailed"]
    /\ UNCHANGED <<holders, issued>>

\* nclet, or the garbage collector, is done with it.
Finish ==
    /\ obj.life = "terminating"
    /\ \E f \in obj.finalizers :
           obj' = Settle([obj EXCEPT !.finalizers = obj.finalizers \ {f}])
    /\ UNCHANGED <<holders, issued>>

\* The gateway or an administrator assigns it, and tells its password; the gateway
\* may fail to tell.
Assign ==
    /\ Exists(obj)
    /\ IsTrue(obj.ready)
    /\ ConditionStatus(obj.assigned) = "False"
    /\ \E reason \in {"Assigned", "AdminAssigned"} :
           /\ obj' = [obj EXCEPT !.assigned = reason]
           /\ \/ holders' = holders + 1 /\ issued' = obj.password
              \/ reason = "Assigned" /\ UNCHANGED <<holders, issued>>

\* An administrator takes it back.
Unassign ==
    /\ Exists(obj)
    /\ IsTrue(obj.assigned)
    /\ obj' = [obj EXCEPT !.assigned = "AdminUnassigned"]
    /\ holders' = 0
    /\ UNCHANGED issued

LifeNext ==
    \/ Create \/ Delete \/ Bind \/ FailToSchedule \/ Confirm \/ Judge
    \/ TakeOver \/ Report \/ FailToDestroy \/ Finish \/ Assign \/ Unassign

LifeSpec == LifeInit /\ [][LifeNext]_lifeVars
=============================================================================
