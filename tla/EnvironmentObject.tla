-------------------------- MODULE EnvironmentObject --------------------------
(***************************************************************************)
(* A ProblemEnvironment: its metadata, spec and status as far as programs  *)
(* decide on them, and what the API server makes of a deletion.            *)
(***************************************************************************)
CONSTANTS
    Workers,      \* names of Workers, each the host of one nclet
    Passwords,    \* what crypto.GeneratePassword may return
    NoWorker,     \* .spec.workerName is ""
    NoPassword    \* .status.password is ""

ASSUME NoWorkerAssumption == NoWorker \notin Workers
ASSUME NoPasswordAssumption == NoPassword \notin Passwords

(***************************************************************************)
(* A condition is named by its reason, told apart by message or status     *)
(* where two share a reason; its status follows from the name.             *)
(***************************************************************************)
ScheduledConditions ==
    {"Unknown", "WorkersUnlisted", "ScheduleFailed", "WorkersMissing", "Scheduled"}
DeployedConditions == {"Unknown", "NotDeployed", "Deployed", "DeployFailed"}
ReadyConditions == {"Unknown", "NotReady", "NotChecked", "DestroyFailed", "Ready"}
AssignedConditions ==
    {"Unknown", "NotAssigned", "Assigned", "AdminAssigned", "AdminUnassigned"}

\* DeployFailed is a reason of Deployed = True: nclet reports it with that status.
ReasonsOfTrue ==
    {"Scheduled", "Deployed", "DeployFailed", "Ready", "Assigned", "AdminAssigned"}

ConditionStatus(c) ==
    IF c = "Unknown" THEN "Unknown" ELSE IF c \in ReasonsOfTrue THEN "True" ELSE "False"

IsTrue(c) == ConditionStatus(c) = "True"

\* Containers of the status: absent, or all of them ready, or some not.
ContainerStatuses == {"nil", "notReady", "ready"}

\* The finalizer of nclet, and the one that a foreground deletion adds.
Finalizers == {"nclet", "foreground"}

ProblemEnvironment ==
    [life       : {"unborn", "live", "terminating", "gone"},
     finalizers : SUBSET Finalizers,
     worker     : Workers \cup {NoWorker},
     scheduled  : ScheduledConditions,
     deployed   : DeployedConditions,
     ready      : ReadyConditions,
     assigned   : AssignedConditions,
     containers : ContainerStatuses,
     password   : Passwords \cup {NoPassword}]

Blank(life) ==
    [life |-> life, finalizers |-> {}, worker |-> NoWorker,
     scheduled |-> "Unknown", deployed |-> "Unknown", ready |-> "Unknown",
     assigned |-> "Unknown", containers |-> "nil", password |-> NoPassword]

Exists(o) == o.life \in {"live", "terminating"}

HasFinalizer(o) == "nclet" \in o.finalizers

\* An object without finalizers left goes away once its deletion was asked for.
Settle(o) == IF o.life = "terminating" /\ o.finalizers = {} THEN Blank("gone") ELSE o

\* An object after a Delete; foreground is the propagation policy.
AfterDelete(o, foreground) ==
    LET marked == IF foreground THEN o.finalizers \cup {"foreground"} ELSE o.finalizers
    IN  IF Exists(o)
        THEN Settle([o EXCEPT !.life = "terminating", !.finalizers = marked])
        ELSE o
=============================================================================
