-------------------------------- MODULE Netcon --------------------------------
(***************************************************************************)
(* The system: controller-manager, gateway, one nclet per Worker and the   *)
(* kubectl plugin, working on the environments of one Problem through the  *)
(* API server.                                                             *)
(***************************************************************************)
EXTENDS EnvironmentController, ProblemController, KubectlNetcon, Nclet

vars == <<apiVars, workerVars, problemVars, gatewayVars, lab>>

Init ==
    /\ APIInit
    /\ WorkerInit
    /\ ProblemInit
    /\ GatewayInit
    /\ NcletInit

-----------------------------------------------------------------------------
(***************************************************************************)
(* The steps of each component, which leave the variables of the others    *)
(* alone.                                                                  *)
(***************************************************************************)
Watch(p) == Observe(p) /\ UNCHANGED <<workerVars, problemVars, gatewayVars, lab>>

\* The controller-manager lists Problems and Workers again too.
RestartProgram(p) ==
    /\ Restart(p)
    /\ IF p = "manager"
       THEN /\ problemCache' = View(problem)
            /\ problemFresh' = TRUE
            /\ workerCache' = worker
            /\ UNCHANGED <<problem, worker>>
       ELSE UNCHANGED <<problemVars, workerVars>>
    /\ UNCHANGED <<gatewayVars, lab>>

CollectGarbage(e) ==
    /\ FinishForegroundDeletion(e) \/ CollectChild(e)
    /\ UNCHANGED <<workerVars, problemVars, gatewayVars, lab>>

ManagerReconciles(e) ==
    /\ EnvironmentControllerStep(e)
    /\ UNCHANGED <<workerVars, problemVars, gatewayVars, lab>>

ManagerReconcilesProblem == ReconcileProblem /\ UNCHANGED <<workerVars, gatewayVars, lab>>

WatchProblem == ObserveProblem /\ UNCHANGED <<workerVars, gatewayVars, lab>>

ChangeProblem ==
    /\ ScaleProblem \/ DeleteProblem \/ CollectProblem
    /\ UNCHANGED <<workerVars, gatewayVars, lab>>

WatchWorkers == ObserveWorkers /\ UNCHANGED <<apiVars, problemVars, gatewayVars, lab>>

ChangeWorkers ==
    /\ \E w \in Workers : WorkerStep(w)
    /\ UNCHANGED <<apiVars, problemVars, gatewayVars, lab>>

Users(e) ==
    /\ GatewayStep(e) \/ KubectlStep(e)
    /\ UNCHANGED <<workerVars, problemVars, lab>>

NcletReconciles(w, e) ==
    /\ NcletStep(w, e)
    /\ UNCHANGED <<workerVars, problemVars, gatewayVars>>

CrashNclet(w, e) ==
    /\ CrashWhileDeploying(w, e)
    /\ UNCHANGED <<workerVars, problemVars, gatewayVars>>

Containers(w, e) ==
    /\ ContainersComeUp(w, e) \/ ContainerFails(w, e)
    /\ UNCHANGED <<workerVars, problemVars, gatewayVars>>

Next ==
    \/ \E p \in Processes : Watch(p) \/ RestartProgram(p)
    \/ \E e \in Envs : CollectGarbage(e) \/ ManagerReconciles(e) \/ Users(e)
    \/ ManagerReconcilesProblem \/ WatchProblem \/ ChangeProblem
    \/ WatchWorkers \/ ChangeWorkers
    \/ \E w \in Workers, e \in Envs :
           NcletReconciles(w, e) \/ CrashNclet(w, e) \/ Containers(w, e)

Spec == Init /\ [][Next]_vars

\* Watches deliver, work queues are served and the garbage collector works.  Users,
\* operators, containers and failures owe nothing.
Fairness ==
    /\ \A p \in Processes : WF_vars(Watch(p))
    /\ \A e \in Envs : WF_vars(CollectGarbage(e)) /\ WF_vars(ManagerReconciles(e))
    /\ WF_vars(ManagerReconcilesProblem)
    /\ WF_vars(WatchProblem)
    /\ WF_vars(WatchWorkers)
    /\ \A w \in Workers, e \in Envs : WF_vars(NcletReconciles(w, e))

FairSpec == Spec /\ Fairness

-----------------------------------------------------------------------------
(***************************************************************************)
(* Safety.                                                                 *)
(***************************************************************************)

\* Every variable has its type.
TypeOK ==
    /\ APITypeOK
    /\ WorkerTypeOK
    /\ ProblemTypeOK
    /\ GatewayTypeOK
    /\ NcletTypeOK

\* An environment is in the hands of at most one holder, and as long as it exists
\* the credentials that the holder was given open it: it is still assigned, and its
\* password has not been replaced (AcquireProblemEnvironment and kubectl assign
\* against every other writer of the status, confirmSchedule above all).
OneHolder ==
    \A e \in Envs :
        /\ holders[e] <= 1
        /\ holders[e] = 1 /\ Exists(pe[e]) =>
               IsTrue(pe[e].assigned) /\ pe[e].password = issued[e] /\ issued[e] # NoPassword

\* Containers run only on the Worker that the environment is bound to, and only
\* while the environment exists and holds nclet's finalizer: no environment runs
\* on two Workers, and none is left running when its object is gone (nclet's
\* AddFinalizer, deploy and cleanup against deletions at any time).
LabIsOwned ==
    \A w \in Workers, e \in Envs :
        lab[w][e].containers # "down" =>
            Exists(pe[e]) /\ pe[e].worker = w /\ HasFinalizer(pe[e])

\* The conditions of an environment build on each other, whatever writer set them
\* last: ready or assigned only once deployed, deployed only once scheduled with a
\* Worker and a password, and deployed on a live object only under the finalizer.
ConditionsOrdered ==
    \A e \in Envs :
        LET o == pe[e] IN
        /\ IsTrue(o.ready) \/ IsTrue(o.assigned) \/ o.containers # "nil" => IsTrue(o.deployed)
        /\ IsTrue(o.deployed) => IsTrue(o.scheduled)
        /\ IsTrue(o.deployed) /\ o.life = "live" => HasFinalizer(o)
        /\ IsTrue(o.scheduled) => o.worker # NoWorker /\ o.password # NoPassword

\* Once scheduled, an environment stays scheduled on its Worker with its password
\* until it is gone: neither a manager that works on an old copy nor a Worker that
\* goes away makes schedule or confirmSchedule run for it again.
SchedulingIsFinal ==
    [][\A e \in Envs :
          IsTrue(pe[e].scheduled) /\ Exists(pe'[e]) =>
              /\ IsTrue(pe'[e].scheduled)
              /\ pe'[e].worker = pe[e].worker
              /\ pe'[e].password = pe[e].password]_vars

\* Once its deletion was asked for, an environment only goes: nothing brings it back,
\* and no program that still sees it live adds its finalizer to it (AddFinalizer and
\* the status updates of all programs against Delete, which has no precondition).
DeletionIsFinal ==
    [][\A e \in Envs :
          pe[e].life \in {"terminating", "gone"} =>
              /\ pe'[e].life \in {pe[e].life, "gone"}
              /\ pe'[e].finalizers \subseteq pe[e].finalizers \cup {"foreground"}]_vars

\* ProblemReconciler scales towards what the spec asks for, and never past it, whenever
\* it has seen everything; and whatever the others do it takes no environment away that
\* it sees to be assigned.
ScalesTowardsDesired == [][ScalingStep]_vars

\* An environment leaves traces on one Worker only, files or containers, even when
\* clab fails so that its lab outlives it: .spec.workerName is written once, and an
\* nclet with an old copy never takes an environment for its own that is another's.
RunsOnOneWorker ==
    \A v, w \in Workers, e \in Envs :
        lab[v][e] # NoLab /\ lab[w][e] # NoLab => v = w

\* Authentication reads a copy that may be old, and yet an nclet never accepts a
\* password other than the one that the environment has and its holder was told
\* (handlePasswordAuthentication against confirmSchedule and the hand-outs).
LoginsAreGenuine ==
    \A w \in Workers, e \in Envs, password \in Passwords \cup {NoPassword} :
        LoginAccepted(w, e, password) =>
            /\ password # NoPassword
            /\ Exists(pe[e]) => password = pe[e].password
            /\ holders[e] # 0 => password = issued[e]

\* A controller of p will get to e: it has the key in its queue, or will get it with
\* the next event.
Pending(p, e) == <<p, e>> \in queue \/ <<p, e>> \notin fresh

\* Ready says what checkStatus makes of the containers.
ReadyFollows(o) ==
    \/ o.containers = "nil" /\ o.ready = "NotChecked"
    \/ o.containers = "notReady" /\ ConditionStatus(o.ready) = "False"
    \/ o.containers = "ready" /\ IsTrue(o.ready)

\* The controller-manager forgets no environment: one that it will not come back to
\* is scheduled, and its Ready condition is up to date (the results that schedule,
\* confirmSchedule and checkStatus return, against refused and empty updates).
ManagerForgetsNothing ==
    \A e \in Envs :
        pe[e].life = "live" /\ ~Pending("manager", e) =>
            IsTrue(pe[e].scheduled) /\ ReadyFollows(pe[e])

\* Nor does nclet: it comes back to every environment of its Worker as long as that is
\* live, and to one that is being deleted until it has given up its finalizer, or
\* Destroy has failed and the status shows it.
NcletForgetsNothing ==
    \A w \in Workers, e \in Envs :
        IsTrue(pe[e].scheduled) /\ pe[e].worker = w /\ ~Pending(w, e) =>
            /\ pe[e].life = "terminating"
            /\ HasFinalizer(pe[e]) => pe[e].ready = "DestroyFailed"

-----------------------------------------------------------------------------
(***************************************************************************)
(* Refinement.                                                             *)
(***************************************************************************)
Life(e) == INSTANCE Lifecycle
           WITH obj <- pe[e], holders <- holders[e], issued <- issued[e]

\* Every environment lives the life of Lifecycle: whatever a program does on an old
\* copy of an environment either has no effect on it or is what the program would
\* have done on the stored one (resourceVersions, finalizers and the checks of every
\* handler, against all interleavings of the programs).  This is LifeSpec of every
\* environment, with the boxes joined.
ImplementsLifecycle ==
    /\ \A e \in Envs : Life(e)!LifeInit
    /\ [][\A e \in Envs : [Life(e)!LifeNext]_(Life(e)!lifeVars)]_vars

-----------------------------------------------------------------------------
(***************************************************************************)
(* The inductive invariant behind the safety properties.                   *)
(***************************************************************************)

\* A cached copy with the stored resourceVersion is the stored object.
CacheCoherent == \A f \in fresh : cache[f[1]][f[2]] = pe[f[2]]

\* Whether an environment is assigned is known only once it is scheduled.
AssignedAfterScheduled ==
    \A e \in Envs : pe[e].assigned # "Unknown" => IsTrue(pe[e].scheduled)

\* Nothing has happened to an environment that was not created yet.
UnbornUntouched ==
    \A e \in Envs : pe[e].life = "unborn" => pe[e] = Blank("unborn") /\ holders[e] = 0

\* What nclet sees live, on its Worker and with its finalizer keeps the finalizer:
\* only this nclet takes it away, and only after it has seen the deletion.
FinalizerHolds ==
    \A w \in Workers, e \in Envs :
        LET o == SeenBy(w, e) IN
        o.life = "live" /\ o.worker = w /\ HasFinalizer(o) =>
            Exists(pe[e]) /\ pe[e].worker = w /\ HasFinalizer(pe[e])

\* Containers have their topology file, so that Check finds them.
LabIsPlaced ==
    \A w \in Workers, e \in Envs : lab[w][e].containers # "down" => lab[w][e].directory = "placed"

HandOutInv ==
    /\ TypeOK /\ CacheCoherent
    /\ ConditionsOrdered /\ AssignedAfterScheduled /\ UnbornUntouched
    /\ OneHolder

LabInv ==
    TypeOK /\ CacheCoherent /\ FinalizerHolds /\ LabIsPlaced /\ LabIsOwned

\* Of an environment that does not exist, or no longer, nothing is stored.
AbsentIsBlank == \A e \in Envs : ~Exists(pe[e]) => pe[e] = Blank(pe[e].life)

\* A copy, however old, shows an earlier state of the environment: once scheduled it
\* has the password of the stored one and of its holder.
CopiesAreEarlier ==
    \A p \in Processes, e \in Envs :
        LET o == cache[p][e] IN
        /\ pe[e].life = "unborn" => o = Blank("unborn")
        /\ IsTrue(o.ready) \/ IsTrue(o.assigned) => IsTrue(o.scheduled)
        /\ IsTrue(o.scheduled) =>
               /\ o.password # NoPassword
               /\ Exists(pe[e]) => IsTrue(pe[e].scheduled) /\ o.password = pe[e].password
               /\ holders[e] # 0 => o.password = issued[e]

\* The Workers to which something leads that is known of e: a copy names the Worker,
\* or it has a lab of e.
Traces(e) ==
    {w \in Workers : lab[w][e] # NoLab \/ \E p \in Processes : cache[p][e].worker = w}

\* All traces of an environment lead to one Worker, while it exists to its own.
TracesAgree ==
    \A e \in Envs :
        /\ \A v, w \in Traces(e) : v = w
        /\ Exists(pe[e]) => Traces(e) \subseteq {pe[e].worker}
        /\ pe[e].life = "unborn" => Traces(e) = {}

\* What is known of an environment elsewhere never contradicts what is stored of it.
CopyInv == AbsentIsBlank /\ CopiesAreEarlier /\ TracesAgree

-----------------------------------------------------------------------------
(***************************************************************************)
(* What comments and tests of the repository say, and the code does not    *)
(* keep.                                                                   *)
(***************************************************************************)

\* ProblemReconciler never deletes an environment that is assigned (the test of
\* the scale-down of a Problem).
AssignedSurvivesScaling ==
    [][ManagerReconcilesProblem =>
          \A e \in Envs : pe[e].life = "live" /\ IsTrue(pe[e].assigned) => pe'[e].life = "live"]_vars

\* An environment that is being deleted is not given to anyone (the comment in
\* ProblemReconciler, and AcquireProblemEnvironment).
HandsOutOnlyLive == [][\A e \in Envs : holders'[e] > holders[e] => pe[e].life = "live"]_vars

\* Deployed becomes True when the environment is deployed on its Worker (the comment
\* on the condition, and deploy of nclet).
DeployedMeansRunning ==
    [][\A e \in Envs :
          ~IsTrue(pe[e].deployed) /\ IsTrue(pe'[e].deployed) =>
              lab'[pe[e].worker][e].containers # "down"]_vars

-----------------------------------------------------------------------------
(***************************************************************************)
(* Liveness, under FairSpec.  "A leads to B or not A" is written as "B or  *)
(* not A, time and again", which says the same.                            *)
(***************************************************************************)

\* An environment that exists becomes ready or is deleted, if its containers come up
\* for good: no key is dropped from a queue, and no update lost, on the way through
\* schedule, confirmSchedule, AddFinalizer, deploy, check and checkStatus.
EventuallyReady ==
    <>[](\A w \in Workers, e \in Envs : lab[w][e].containers # "starting") =>
        \A e \in Envs : []<>(IsTrue(pe[e].ready) \/ pe[e].life # "live")

\* An environment whose containers stay down ends up not ready: what nclet's check
\* reports reaches checkStatus.
ReadyIsRevoked ==
    \A w \in Workers, e \in Envs :
        <>[](pe[e].life = "live" /\ lab[w][e].containers = "starting") =>
            <>[](~IsTrue(pe[e].ready))

\* An environment gets its Worker and its password once there is a Worker to take
\* and none goes away any more: neither a failed election nor a Worker that was
\* removed between schedule and confirmSchedule leaves it behind.
EventuallyScheduled ==
    <>[](Candidates(worker) # {} /\ \A w \in Workers : worker[w].exists) =>
        \A e \in Envs : []<>(IsTrue(pe[e].scheduled) \/ pe[e].life # "live")

\* An environment whose deletion was asked for goes away: nclet gives up its
\* finalizer, whatever state of its deployment the deletion met.  (It never comes back,
\* by DeletionIsFinal, so that not to be terminating time and again is to be gone.)
EventuallyGone ==
    \A e \in Envs : []<>(pe[e].life # "terminating")
=============================================================================
