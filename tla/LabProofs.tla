------------------------------- MODULE LabProofs -------------------------------
(***************************************************************************)
(* Containers run only for environments that exist, on their Worker and    *)
(* under nclet's finalizer.                                                *)
(*                                                                         *)
(* The argument: the finalizer of an environment is given up by the nclet  *)
(* of its Worker alone, and only when that nclet has read the deletion.    *)
(* So what this nclet has read live, with the finalizer, still has it when *)
(* containers are started, whatever others have done meanwhile.            *)
(***************************************************************************)
EXTENDS LifecycleProofs

\* e is bound to w and holds nclet's finalizer.
Owned(w, o) == Exists(o) /\ o.worker = w /\ HasFinalizer(o)

\* The environment keeps its Worker and the finalizer, if it has both.
Keeps(o, n) == \A w \in Workers : Owned(w, o) => Owned(w, n)

\* LabInv in these terms.
LEMMA LabInvOwned ==
    LabInv <=>
        /\ TypeOK /\ CacheCoherent /\ LabIsPlaced
        /\ \A w \in Workers, e \in Envs :
               /\ SeenBy(w, e).life = "live" /\ SeenBy(w, e).worker = w /\ HasFinalizer(SeenBy(w, e))
                      => Owned(w, pe[e])
               /\ lab[w][e].containers # "down" => Owned(w, pe[e])
  BY DEF LabInv, FinalizerHolds, LabIsOwned, Owned

-----------------------------------------------------------------------------
(***************************************************************************)
(* Who keeps the finalizer: everyone but nclet's cleanup.                  *)
(***************************************************************************)

\* A status update keeps metadata and spec.
LEMMA StatusKeeps ==
    ASSUME NEW o \in ProblemEnvironment, NEW new
    PROVE  Keeps(o, StatusOf(o, new))
  BY DEF Keeps, Owned, StatusOf, ProblemEnvironment, Exists, HasFinalizer

\* A deletion only marks an object that has a finalizer.
LEMMA DeleteKeeps ==
    ASSUME NEW o \in ProblemEnvironment, NEW foreground \in BOOLEAN
    PROVE  Keeps(o, AfterDelete(o, foreground))
  <1> SUFFICES ASSUME NEW w \in Workers, Owned(w, o) PROVE Owned(w, AfterDelete(o, foreground))
    BY DEF Keeps
  <1> DEFINE fins == IF foreground THEN o.finalizers \cup {"foreground"} ELSE o.finalizers
             n == [o EXCEPT !.life = "terminating", !.finalizers = fins]
  <1>1. "nclet" \in fins
    BY DEF Owned, HasFinalizer
  <1>2. n.life = "terminating" /\ n.finalizers = fins /\ n.worker = o.worker
    BY DEF ProblemEnvironment
  <1>3. Settle(n) = n
    BY <1>1, <1>2 DEF Settle
  <1>4. AfterDelete(o, foreground) = n
    BY <1>3 DEF AfterDelete, Owned
  <1> HIDE DEF n, fins
  <1>5. QED
    BY <1>1, <1>2, <1>4 DEF Owned, Exists, HasFinalizer

\* A step that stores at most one environment keeps all if it keeps that one.
LEMMA OneKept ==
    ASSUME APITypeOK, NEW e \in Envs, NEW n, Keeps(pe[e], n), pe' = pe \/ pe' = [pe EXCEPT ![e] = n]
    PROVE  \A f \in Envs : Keeps(pe[f], pe'[f])
  <1>1. ASSUME NEW o PROVE Keeps(o, o)
    BY DEF Keeps
  <1>2. \A f \in Envs : pe'[f] = pe[f] \/ (f = e /\ pe'[f] = n)
    BY DEF APITypeOK
  <1>3. QED
    BY <1>1, <1>2

\* So does every status update.
LEMMA StatusUpdateKeeps ==
    ASSUME APITypeOK, NEW e \in Envs, NEW new,
           pe' = pe \/ pe' = [pe EXCEPT ![e] = StatusOf(pe[e], new)]
    PROVE  \A f \in Envs : Keeps(pe[f], pe'[f])
  <1>1. Keeps(pe[e], StatusOf(pe[e], new))
    BY StatusKeeps DEF APITypeOK
  <1>2. QED
    BY <1>1, OneKept

\* The garbage collector takes away its own finalizer only.
LEMMA GarbageKeeps ==
    ASSUME TypeOK, NEW e \in Envs, CollectGarbage(e)
    PROVE  \A f \in Envs : Keeps(pe[f], pe'[f])
  <1>1. APITypeOK /\ pe[e] \in ProblemEnvironment
    BY DEF TypeOK, APITypeOK
  <1>2. CASE CollectChild(e)
    <2>1. PICK foreground \in BOOLEAN : pe' = [pe EXCEPT ![e] = AfterDelete(pe[e], foreground)]
      BY <1>2 DEF CollectChild, Store
    <2>2. QED
      BY <1>1, <2>1, DeleteKeeps, OneKept
  <1>3. CASE FinishForegroundDeletion(e)
    <2> DEFINE n == [pe[e] EXCEPT !.finalizers = pe[e].finalizers \ {"foreground"}]
    <2>1. n.life = pe[e].life /\ n.worker = pe[e].worker /\ n.finalizers = pe[e].finalizers \ {"foreground"}
      BY <1>1 DEF ProblemEnvironment
    <2>2. pe' = [pe EXCEPT ![e] = Settle(n)]
      BY <1>3 DEF FinishForegroundDeletion, Store
    <2> HIDE DEF n
    <2>3. Keeps(pe[e], Settle(n))
      BY <2>1 DEF Keeps, Owned, Settle, Exists, HasFinalizer
    <2>4. QED
      BY <1>1, <2>2, <2>3, OneKept
  <1>4. QED
    BY <1>2, <1>3 DEF CollectGarbage

\* The manager writes the status, or binds an environment that has no Worker.
LEMMA ManagerKeeps ==
    ASSUME TypeOK, CacheCoherent, NEW e \in Envs, ManagerReconciles(e)
    PROVE  \A f \in Envs : Keeps(pe[f], pe'[f])
  <1>1. APITypeOK /\ pe[e] \in ProblemEnvironment
    BY DEF TypeOK, APITypeOK
  <1>2. Seen(e).containers \in {"nil", "notReady", "ready"}
    BY <1>1, CachedType, ProcessNames DEF Seen, ProblemEnvironment, ContainerStatuses
  <1>3. CASE Schedule(e) /\ \E w \in Workers : Update("manager", e, [Seen(e) EXCEPT !.worker = w])
    <2>1. PICK w \in Workers : Update("manager", e, [Seen(e) EXCEPT !.worker = w])
      BY <1>3
    <2> DEFINE n == SpecOf(pe[e], [Seen(e) EXCEPT !.worker = w])
    <2>2. pe' = pe \/ (Seen(e) = pe[e] /\ pe' = [pe EXCEPT ![e] = n])
      BY <2>1, AcceptedIsCurrent DEF Update, Store, Seen
    <2>3. Seen(e).worker = NoWorker
      BY <1>3 DEF Schedule
    <2> HIDE DEF n
    <2>4. Seen(e) = pe[e] => Keeps(pe[e], n)
      BY <2>3, NoWorkerAssumption DEF Keeps, Owned
    <2>5. ASSUME NEW o PROVE Keeps(o, o)
      BY DEF Keeps
    <2>6. QED
      BY <1>1, <2>2, <2>4, <2>5, OneKept
  <1>4. CASE pe' = pe \/ \E new : pe' = [pe EXCEPT ![e] = StatusOf(pe[e], new)]
    BY <1>1, <1>4, StatusUpdateKeeps
  <1>5. \A w \in ElectWorker(workerCache) : w # NoWorker => w \in Workers
    BY DEF ElectWorker, Candidates
  <1>6. ASSUME Schedule(e), ~\E w \in Workers : Update("manager", e, [Seen(e) EXCEPT !.worker = w])
        PROVE  pe' = pe \/ \E new : pe' = [pe EXCEPT ![e] = StatusOf(pe[e], new)]
    BY <1>5, <1>6 DEF Schedule, UpdateStatus, Store
  <1>7. ASSUME ConfirmSchedule(e)
        PROVE  pe' = pe \/ \E new : pe' = [pe EXCEPT ![e] = StatusOf(pe[e], new)]
    BY <1>7 DEF ConfirmSchedule, UpdateStatus, Store
  <1>8. ASSUME CheckStatus(e)
        PROVE  pe' = pe \/ \E new : pe' = [pe EXCEPT ![e] = StatusOf(pe[e], new)]
    BY <1>2, <1>8 DEF CheckStatus, UpdateStatus, Store
  <1>9. QED
    BY <1>3, <1>4, <1>6, <1>7, <1>8 DEF ManagerReconciles, EnvironmentControllerStep, ManagerIgnore

\* The ProblemReconciler deletes, and creates what was not there.
LEMMA ReconcileProblemKeeps ==
    ASSUME TypeOK, ManagerReconcilesProblem
    PROVE  \A f \in Envs : Keeps(pe[f], pe'[f])
  <1>1. APITypeOK /\ \A f \in Envs : pe[f] \in ProblemEnvironment
    BY DEF TypeOK, APITypeOK
  <1>2. ASSUME NEW o PROVE Keeps(o, o)
    BY DEF Keeps
  <1>3. CASE pe' = pe
    BY <1>2, <1>3
  <1>4. CASE CreateEnvironment
    <2>1. PICK e \in Envs : pe[e].life = "unborn" /\ pe' = [pe EXCEPT ![e] = Blank("live")]
      BY <1>4 DEF CreateEnvironment, Store
    <2>2. Keeps(pe[e], Blank("live"))
      BY <2>1 DEF Keeps, Owned, Exists
    <2>3. QED
      BY <1>1, <2>1, <2>2, OneKept
  <1>5. ASSUME NEW surplus, DeleteSurplus(surplus)
        PROVE  \A f \in Envs : Keeps(pe[f], pe'[f])
    <2>1. PICK S : pe' = [e \in Envs |-> IF e \in S THEN AfterDelete(pe[e], FALSE) ELSE pe[e]]
      BY <1>5 DEF DeleteSurplus, Store
    <2>2. \A f \in Envs : pe'[f] = pe[f] \/ pe'[f] = AfterDelete(pe[f], FALSE)
      BY <2>1
    <2>3. \A f \in Envs : Keeps(pe[f], AfterDelete(pe[f], FALSE))
      BY <1>1, DeleteKeeps
    <2>4. QED
      BY <1>2, <2>2, <2>3
  <1>6. CreateEnvironment \/ (\E surplus : DeleteSurplus(surplus)) \/ pe' = pe
    BY DEF ManagerReconcilesProblem, ReconcileProblem
  <1>7. QED
    BY <1>3, <1>4, <1>5, <1>6

\* Users write the status, or delete.
LEMMA UsersKeep ==
    ASSUME TypeOK, NEW e \in Envs, Users(e)
    PROVE  \A f \in Envs : Keeps(pe[f], pe'[f])
  <1>1. APITypeOK /\ pe[e] \in ProblemEnvironment
    BY DEF TypeOK, APITypeOK
  <1>2. CASE \E foreground \in BOOLEAN : pe' = [pe EXCEPT ![e] = AfterDelete(pe[e], foreground)]
    BY <1>1, <1>2, DeleteKeeps, OneKept
  <1>3. CASE pe' = pe \/ \E new : pe' = [pe EXCEPT ![e] = StatusOf(pe[e], new)]
    BY <1>1, <1>3, StatusUpdateKeeps
  <1>4. ASSUME GatewayStep(e)
        PROVE  \/ \E foreground \in BOOLEAN : pe' = [pe EXCEPT ![e] = AfterDelete(pe[e], foreground)]
               \/ pe' = pe \/ \E new : pe' = [pe EXCEPT ![e] = StatusOf(pe[e], new)]
    BY <1>4 DEF GatewayStep, AcquireProblemEnvironment, ReleaseProblemEnvironment, Store
  <1>5. ASSUME KubectlStep(e)
        PROVE  \/ \E foreground \in BOOLEAN : pe' = [pe EXCEPT ![e] = AfterDelete(pe[e], foreground)]
               \/ pe' = pe \/ \E new : pe' = [pe EXCEPT ![e] = StatusOf(pe[e], new)]
    BY <1>5 DEF KubectlStep, KubectlGet, KubectlAssign, KubectlUnassign, KubectlDelete, KubectlEnd,
                WithAssigned, Store
  <1>6. QED
    BY <1>2, <1>3, <1>4, <1>5 DEF Users

-----------------------------------------------------------------------------
(***************************************************************************)
(* The labs.                                                               *)
(***************************************************************************)
Placed(l) == l.containers # "down" => l.directory = "placed"

\* The Init status says that there is no directory.
LEMMA InitMeansNoLab ==
    ASSUME NEW l \in Lab, NEW c \in Check(l), c.status = "Init"
    PROVE  l.directory = "none"
  <1>1. l.directory \in {"none", "empty", "placed"} /\ l.containers \in {"down", "starting", "healthy"}
    BY DEF Lab
  <1>2. QED
    BY <1>1 DEF Check, Result

\* Deploy places the topology file before it starts containers.
LEMMA DeployPlaces ==
    ASSUME NEW l \in Lab, l.directory = "none", Placed(l), NEW n \in DeploySteps(l) \cup Deploy(l)
    PROVE  Placed(n)
  BY DEF Placed, DeploySteps, Deploy, Lab

\* Where clab inspect works, Destroy starts nothing, leaves no containers without
\* their file, and leaves none at all if it returns no error.
LEMMA DestroyCleans ==
    ASSUME "inspectFails" \notin Faults, NEW l \in Lab, Placed(l), NEW d \in Destroy(l)
    PROVE  /\ Placed(d.lab)
           /\ d.ok => d.lab.containers = "down"
           /\ d.lab.containers # "down" => l.containers # "down"
  <1>1. l.directory \in {"none", "empty", "placed"} /\ l.containers \in {"down", "starting", "healthy"}
    BY DEF Lab
  <1>2. \A c \in Check(l) : c.status # "Deployed" => l.containers = "down"
    BY <1>1 DEF Check, Result, Placed
  <1>3. QED
    BY <1>1, <1>2 DEF Destroy, Placed

\* What a step does to labs and environments, if it is not the end of a cleanup:
\* environments keep their Worker and finalizer, nclets see what they saw or what is
\* stored, and containers run where they ran or where nclet may start them.
Orderly ==
    /\ \A e \in Envs : Keeps(pe[e], pe'[e])
    /\ \A w \in Workers, e \in Envs :
           /\ SeenBy(w, e)' = SeenBy(w, e) \/ SeenBy(w, e)' = pe'[e]
           /\ Placed(lab'[w][e])
           /\ \/ lab'[w][e].containers = "down"
              \/ lab[w][e].containers # "down"
              \/ Owned(w, pe[e])

\* Orderly steps keep the invariant.
LEMMA OrderlyKeeps ==
    ASSUME LabInv, TypeOK', CacheCoherent', Orderly
    PROVE  LabInv'
  <1>1. ASSUME NEW w \in Workers, NEW e \in Envs
        PROVE  /\ Owned(w, pe[e]) => Owned(w, pe'[e])
               /\ SeenBy(w, e)'.life = "live" /\ SeenBy(w, e)'.worker = w /\ HasFinalizer(SeenBy(w, e)')
                      => Owned(w, pe'[e])
               /\ lab'[w][e].containers # "down" => Owned(w, pe'[e])
    <2>1. Owned(w, pe[e]) => Owned(w, pe'[e])
      BY DEF Orderly, Keeps
    <2>2. SeenBy(w, e)' = SeenBy(w, e) \/ SeenBy(w, e)' = pe'[e]
      BY DEF Orderly
    <2>3. CASE SeenBy(w, e)' = SeenBy(w, e)
      BY <2>1, <2>3, LabInvOwned DEF Orderly
    <2>4. CASE SeenBy(w, e)' = pe'[e]
      <3>1. lab'[w][e].containers # "down" => Owned(w, pe'[e])
        BY <2>1, LabInvOwned DEF Orderly
      <3>2. QED
        BY <2>1, <2>4, <3>1 DEF Owned, Exists
    <2>5. QED
      BY <2>2, <2>3, <2>4
  <1>2. LabIsPlaced'
    BY DEF LabIsPlaced, Orderly, Placed
  <1>3. FinalizerHolds' /\ LabIsOwned'
    BY <1>1 DEF FinalizerHolds, LabIsOwned, Owned, HasFinalizer, Exists
  <1>4. QED
    BY <1>2, <1>3 DEF LabInv

\* A step of others than nclet leaves labs alone.
LEMMA OthersOrderly ==
    ASSUME LabInv, \A e \in Envs : Keeps(pe[e], pe'[e]), UNCHANGED lab,
           \A w \in Workers, e \in Envs : cache'[w][e] = cache[w][e] \/ cache'[w][e] = pe'[e]
    PROVE  Orderly
  BY DEF Orderly, LabInv, LabIsPlaced, Placed, SeenBy

\* A step that sets one lab is orderly if it treats that lab well.
LEMMA OneLabOrderly ==
    ASSUME LabInv, NEW w \in Workers, NEW e \in Envs, NEW l,
           \A f \in Envs : Keeps(pe[f], pe'[f]),
           \A v \in Workers, f \in Envs : cache'[v][f] = cache[v][f] \/ cache'[v][f] = pe'[f],
           SetLab(w, e, l), Placed(l),
           l.containers = "down" \/ lab[w][e].containers # "down" \/ Owned(w, pe[e])
    PROVE  Orderly
  <1>1. lab \in [Workers -> [Envs -> Lab]]
    BY DEF LabInv, TypeOK, NcletTypeOK
  <1>2. \A v \in Workers, f \in Envs : lab'[v][f] = IF v = w /\ f = e THEN l ELSE lab[v][f]
    BY <1>1 DEF SetLab
  <1>3. \A v \in Workers, f \in Envs : Placed(lab[v][f])
    BY DEF LabInv, LabIsPlaced, Placed
  <1>4. ASSUME NEW v \in Workers, NEW f \in Envs
        PROVE  /\ SeenBy(v, f)' = SeenBy(v, f) \/ SeenBy(v, f)' = pe'[f]
               /\ Placed(lab'[v][f])
               /\ \/ lab'[v][f].containers = "down"
                  \/ lab[v][f].containers # "down"
                  \/ Owned(v, pe[f])
    <2>1. CASE v = w /\ f = e
      BY <1>2, <2>1 DEF SeenBy
    <2>2. CASE ~(v = w /\ f = e)
      <3>1. lab'[v][f] = lab[v][f]
        BY <1>2, <2>2
      <3>2. QED
        BY <1>3, <3>1 DEF SeenBy
    <2>3. QED
      BY <2>1, <2>2
  <1>5. QED
    BY <1>4 DEF Orderly

\* What nclet has read live, its own and with the finalizer, is owned.
LEMMA ServedIsOwned ==
    ASSUME LabInv, NEW w \in Workers, NEW e \in Envs, Serves(w, e), HasFinalizer(SeenBy(w, e))
    PROVE  Owned(w, pe[e])
  BY LabInvOwned DEF Serves, Mine

\* The types of what nclet works on.
LEMMA NcletParts ==
    ASSUME LabInv, NEW w \in Workers, NEW e \in Envs
    PROVE  /\ APITypeOK
           /\ pe[e] \in ProblemEnvironment
           /\ lab[w][e] \in Lab
           /\ Placed(lab[w][e])
  BY DEF LabInv, TypeOK, APITypeOK, NcletTypeOK, LabIsPlaced, Placed

\* nclet adds its finalizer to what has none.
LEMMA AddFinalizerOrderly ==
    ASSUME LabInv, NEW w \in Workers, NEW e \in Envs, AddFinalizer(w, e)
    PROVE  Orderly
  <1> DEFINE new == [SeenBy(w, e) EXCEPT !.finalizers = SeenBy(w, e).finalizers \cup {"nclet"}]
             n == SpecOf(pe[e], new)
  <1>1. APITypeOK /\ CacheCoherent /\ w \in Processes
    BY DEF LabInv, TypeOK, Processes, Controllers
  <1>2. pe' = pe \/ (SeenBy(w, e) = pe[e] /\ pe' = [pe EXCEPT ![e] = n])
    BY <1>1, AcceptedIsCurrent DEF AddFinalizer, Update, Store, SeenBy
  <1>3. SeenBy(w, e).life = "live" /\ ~HasFinalizer(SeenBy(w, e))
    BY DEF AddFinalizer, Serves
  <1> HIDE DEF n
  <1>4. SeenBy(w, e) = pe[e] => Keeps(pe[e], n)
    BY <1>3 DEF Keeps, Owned
  <1>5. \A f \in Envs : Keeps(pe[f], pe'[f])
    <2>1. ASSUME NEW o PROVE Keeps(o, o)
      BY DEF Keeps
    <2>2. QED
      BY <1>1, <1>2, <1>4, <2>1, OneKept
  <1>6. UNCHANGED <<cache, lab>>
    BY DEF AddFinalizer
  <1>7. QED
    BY <1>5, <1>6, OthersOrderly

\* Reports are status updates.
LEMMA ReportKeeps ==
    ASSUME APITypeOK, NEW w, NEW e \in Envs, NEW o, NEW reported,
           UpdateContainerStatus(w, e, o, reported)
    PROVE  \A f \in Envs : Keeps(pe[f], pe'[f])
  <1>1. pe' = pe \/ \E new : pe' = [pe EXCEPT ![e] = StatusOf(pe[e], new)]
    BY DEF UpdateContainerStatus, UpdateStatus, Store
  <1>2. QED
    BY <1>1, StatusUpdateKeeps

\* Containers are started for what nclet serves.
LEMMA DeployOrderly ==
    ASSUME LabInv, NEW w \in Workers, NEW e \in Envs, DeployEnvironment(w, e)
    PROVE  Orderly
  <1>1. APITypeOK /\ lab[w][e] \in Lab /\ Placed(lab[w][e])
    BY NcletParts
  <1>2. Owned(w, pe[e])
    BY ServedIsOwned DEF DeployEnvironment
  <1>3. UNCHANGED cache
    BY DEF DeployEnvironment
  <1>4. PICK check \in Check(lab[w][e]) :
          IF check.status = "Init"
          THEN \E l \in Deploy(lab[w][e]) :
                  /\ SetLab(w, e, l)
                  /\ \E c \in Check(l) :
                        UpdateContainerStatus(
                            w, e, [SeenBy(w, e) EXCEPT !.deployed = "Deployed"], c.containers)
          ELSE /\ UpdateStatus(w, e, [SeenBy(w, e) EXCEPT !.deployed = "DeployFailed"], FALSE)
               /\ UNCHANGED lab
    BY DEF DeployEnvironment
  <1>5. CASE check.status = "Init"
    <2>1. PICK l \in Deploy(lab[w][e]) :
                  /\ SetLab(w, e, l)
                  /\ \E c \in Check(l) :
                        UpdateContainerStatus(
                            w, e, [SeenBy(w, e) EXCEPT !.deployed = "Deployed"], c.containers)
      BY <1>4, <1>5
    <2>2. Placed(l)
      BY <1>1, <1>5, InitMeansNoLab, DeployPlaces
    <2>3. \A f \in Envs : Keeps(pe[f], pe'[f])
      BY <1>1, <2>1, ReportKeeps
    <2>4. QED
      BY <1>2, <1>3, <2>1, <2>2, <2>3, OneLabOrderly
  <1>6. CASE check.status # "Init"
    <2>1. pe' = pe \/ \E new : pe' = [pe EXCEPT ![e] = StatusOf(pe[e], new)]
      BY <1>4, <1>6 DEF UpdateStatus, Store
    <2>2. \A f \in Envs : Keeps(pe[f], pe'[f])
      BY <1>1, <2>1, StatusUpdateKeeps
    <2>3. UNCHANGED lab
      BY <1>4, <1>6
    <2>4. QED
      BY <1>3, <2>2, <2>3, OthersOrderly
  <1>7. QED
    BY <1>5, <1>6

\* A cache of an nclet that is refreshed shows what is stored.
LEMMA RefreshMoves ==
    ASSUME APITypeOK, NEW p \in Processes, cache' = [cache EXCEPT ![p] = pe], UNCHANGED pe
    PROVE  \A v \in Workers, f \in Envs : cache'[v][f] = cache[v][f] \/ cache'[v][f] = pe'[f]
  <1>1. \A v \in Workers : v \in Processes
    BY DEF Processes, Controllers
  <1>2. \A v \in Workers : cache'[v] = cache[v] \/ cache'[v] = pe
    BY <1>1 DEF APITypeOK
  <1>3. QED
    BY <1>2

\* An nclet that is killed while it deploys was about to serve the environment.
LEMMA CrashOrderly ==
    ASSUME LabInv, NEW w \in Workers, NEW e \in Envs, CrashWhileDeploying(w, e)
    PROVE  Orderly
  <1>1. APITypeOK /\ lab[w][e] \in Lab /\ Placed(lab[w][e]) /\ w \in Processes
    BY NcletParts DEF Processes, Controllers
  <1>2. Owned(w, pe[e])
    BY ServedIsOwned DEF CrashWhileDeploying
  <1>3. PICK l \in DeploySteps(lab[w][e]) : SetLab(w, e, l)
    BY DEF CrashWhileDeploying
  <1>4. Placed(l)
    BY <1>1, DeployPlaces DEF CrashWhileDeploying
  <1>5. UNCHANGED pe /\ cache' = [cache EXCEPT ![w] = pe]
    BY DEF CrashWhileDeploying, Restarted
  <1>6. \A f \in Envs : Keeps(pe[f], pe'[f])
    BY <1>5 DEF Keeps
  <1>7. \A v \in Workers, f \in Envs : cache'[v][f] = cache[v][f] \/ cache'[v][f] = pe'[f]
    BY <1>1, <1>5, RefreshMoves
  <1>8. QED
    BY <1>2, <1>3, <1>4, <1>6, <1>7, OneLabOrderly

\* check reports and leaves labs alone.
LEMMA CheckOrderly ==
    ASSUME LabInv, NEW w \in Workers, NEW e \in Envs, CheckEnvironment(w, e)
    PROVE  Orderly
  <1>1. APITypeOK
    BY NcletParts
  <1>2. PICK c \in Check(lab[w][e]) : UpdateContainerStatus(w, e, SeenBy(w, e), c.containers)
    BY DEF CheckEnvironment
  <1>3. \A f \in Envs : Keeps(pe[f], pe'[f])
    BY <1>1, <1>2, ReportKeeps
  <1>4. UNCHANGED <<cache, lab>>
    BY DEF CheckEnvironment
  <1>5. QED
    BY <1>3, <1>4, OthersOrderly

\* Containers that come up or fail run all the same.
LEMMA ContainersOrderly ==
    ASSUME LabInv, NEW w \in Workers, NEW e \in Envs, Containers(w, e)
    PROVE  Orderly
  <1>1. lab[w][e] \in Lab /\ Placed(lab[w][e])
    BY NcletParts
  <1>2. lab[w][e].containers # "down"
    BY DEF Containers, ContainersComeUp, ContainerFails
  <1>3. PICK c : SetLab(w, e, [lab[w][e] EXCEPT !.containers = c])
    BY DEF Containers, ContainersComeUp, ContainerFails
  <1>4. UNCHANGED <<pe, cache>>
    BY DEF Containers, ContainersComeUp, ContainerFails, apiVars
  <1>5. Placed([lab[w][e] EXCEPT !.containers = c])
    BY <1>1, <1>2 DEF Placed, Lab
  <1>6. \A f \in Envs : Keeps(pe[f], pe'[f])
    BY <1>4 DEF Keeps
  <1>7. QED
    BY <1>2, <1>3, <1>4, <1>5, <1>6, OneLabOrderly

\* A cleanup that fails, or whose last write is refused, is orderly.  One that gives
\* up the finalizer is not, but it has left no containers, and the nclet has read the
\* deletion, so it will start none.
LEMMA CleanupKeeps ==
    ASSUME "inspectFails" \notin Faults, LabInv, TypeOK', CacheCoherent',
           NEW w \in Workers, NEW e \in Envs, Cleanup(w, e)
    PROVE  LabInv'
  <1>1. APITypeOK /\ lab[w][e] \in Lab /\ Placed(lab[w][e]) /\ pe[e] \in ProblemEnvironment
    BY NcletParts
  <1>2. PICK d \in Destroy(lab[w][e]) : SetLab(w, e, d.lab) /\ AfterDestroy(w, e, d.ok)
    BY DEF Cleanup
  <1>3. UNCHANGED cache
    BY DEF Cleanup
  <1>4. /\ Placed(d.lab)
        /\ d.ok => d.lab.containers = "down"
        /\ d.lab.containers # "down" => lab[w][e].containers # "down"
    BY <1>1, DestroyCleans
  <1>5. CASE pe' = pe \/ \E new : pe' = [pe EXCEPT ![e] = StatusOf(pe[e], new)]
    <2>1. \A f \in Envs : Keeps(pe[f], pe'[f])
      BY <1>1, <1>5, StatusUpdateKeeps
    <2>2. Orderly
      BY <1>2, <1>3, <1>4, <2>1, OneLabOrderly
    <2>3. QED
      BY <2>2, OrderlyKeeps
  <1>6. CASE d.ok /\ Accepted(w, e) /\ \E n : pe' = [pe EXCEPT ![e] = n]
    <2>1. SeenBy(w, e) = pe[e]
      <3>1. CacheCoherent /\ w \in Processes
        BY DEF LabInv, Processes, Controllers
      <3>2. QED
        BY <1>6, <3>1, AcceptedIsCurrent DEF SeenBy
    <2>2. SeenBy(w, e).life = "terminating" /\ pe[e].worker = w
      BY <2>1 DEF Cleanup, MustCleanUp, Mine
    <2>3. \A f \in Envs : f # e => pe'[f] = pe[f]
      BY <1>1, <1>6 DEF APITypeOK
    <2>4. \A v \in Workers : v # w => ~Owned(v, pe[e])
      BY <2>2 DEF Owned
    <2>5. lab \in [Workers -> [Envs -> Lab]]
      BY DEF LabInv, TypeOK, NcletTypeOK
    <2>6. \A v \in Workers, f \in Envs : lab'[v][f] = IF v = w /\ f = e THEN d.lab ELSE lab[v][f]
      BY <1>2, <2>5 DEF SetLab
    <2>7. \A v \in Workers, f \in Envs : Placed(lab[v][f])
      BY DEF LabInv, LabIsPlaced, Placed
    <2>8. ASSUME NEW v \in Workers, NEW f \in Envs
          PROVE  /\ Placed(lab'[v][f])
                 /\ SeenBy(v, f)'.life = "live" /\ SeenBy(v, f)'.worker = v /\ HasFinalizer(SeenBy(v, f)')
                        => Owned(v, pe'[f])
                 /\ lab'[v][f].containers # "down" => Owned(v, pe'[f])
      <3>1. SeenBy(v, f)' = SeenBy(v, f)
        BY <1>3 DEF SeenBy
      <3>2. CASE f # e
        <4>1. lab'[v][f] = lab[v][f] /\ pe'[f] = pe[f]
          BY <2>3, <2>6, <3>2
        <4>2. QED
          BY <2>7, <3>1, <4>1, LabInvOwned
      <3>3. CASE f = e /\ v # w
        <4>1. lab'[v][f] = lab[v][f] /\ ~Owned(v, pe[f])
          BY <2>4, <2>6, <3>3
        <4>2. QED
          BY <2>7, <3>1, <4>1, LabInvOwned
      <3>4. CASE f = e /\ v = w
        <4>1. lab'[v][f] = d.lab
          BY <2>6, <3>4
        <4>2. QED
          BY <1>4, <1>6, <2>2, <3>1, <3>4, <4>1
      <3>5. QED
        BY <3>2, <3>3, <3>4
    <2>9. LabIsPlaced'
      BY <2>8 DEF LabIsPlaced, Placed
    <2>10. FinalizerHolds' /\ LabIsOwned'
      BY <2>8 DEF FinalizerHolds, LabIsOwned, Owned, HasFinalizer, Exists
    <2>11. QED
      BY <2>9, <2>10 DEF LabInv
  <1>7. CASE d.ok
    BY <1>2, <1>5, <1>6, <1>7 DEF AfterDestroy, GiveUpFinalizer, Update, Store
  <1>8. CASE ~d.ok
    <2>1. pe' = pe \/ \E new : pe' = [pe EXCEPT ![e] = StatusOf(pe[e], new)]
      BY <1>2, <1>8 DEF AfterDestroy, UpdateStatus, Store
    <2>2. QED
      BY <1>5, <2>1
  <1>9. QED
    BY <1>7, <1>8

\* The kubectl plugin changes no cache of an nclet.
LEMMA KubectlCaches ==
    ASSUME APITypeOK, NEW e \in Envs, KubectlStep(e)
    PROVE  \A v \in Workers : cache'[v] = cache[v]
  <1>1. \A v \in Workers : v \in Processes /\ v # "kubectl"
    BY ProgramsAreNoWorkers DEF Processes, Controllers
  <1>2. cache' = cache \/ \E n : cache' = [cache EXCEPT !["kubectl"][e] = n]
    BY DEF KubectlStep, KubectlGet, KubectlAssign, KubectlUnassign, KubectlDelete, KubectlEnd
  <1>3. QED
    BY <1>1, <1>2 DEF APITypeOK

\* Every step of a program other than nclet is orderly.
LEMMA ProgramsOrderly ==
    ASSUME LabInv,
           \/ \E p \in Processes : Watch(p) \/ RestartProgram(p)
           \/ \E e \in Envs : CollectGarbage(e) \/ ManagerReconciles(e) \/ Users(e)
           \/ ManagerReconcilesProblem \/ WatchProblem \/ ChangeProblem
           \/ WatchWorkers \/ ChangeWorkers
    PROVE  Orderly
  <1>0. TypeOK /\ APITypeOK /\ CacheCoherent
    BY DEF LabInv, TypeOK
  <1>k. ASSUME UNCHANGED pe PROVE \A f \in Envs : Keeps(pe[f], pe'[f])
    BY <1>k DEF Keeps
  <1>1. ASSUME NEW p \in Processes, Watch(p) \/ RestartProgram(p) PROVE Orderly
    <2>1. cache' = [cache EXCEPT ![p] = pe] /\ UNCHANGED pe /\ UNCHANGED lab
      BY <1>1 DEF Watch, RestartProgram, Observe, Restart, Restarted
    <2>2. QED
      BY <1>0, <1>k, <2>1, RefreshMoves, OthersOrderly
  <1>2. ASSUME NEW e \in Envs, CollectGarbage(e) PROVE Orderly
    <2>1. UNCHANGED <<cache, lab>>
      BY <1>2 DEF CollectGarbage, FinishForegroundDeletion, CollectChild
    <2>2. QED
      BY <1>0, <1>2, <2>1, GarbageKeeps, OthersOrderly
  <1>3. ASSUME NEW e \in Envs, ManagerReconciles(e) PROVE Orderly
    <2>1. UNCHANGED <<cache, lab>>
      BY <1>3 DEF ManagerReconciles, EnvironmentControllerStep, ManagerIgnore, Schedule,
                  ConfirmSchedule, CheckStatus
    <2>2. QED
      BY <1>0, <1>3, <2>1, ManagerKeeps, OthersOrderly
  <1>4. ASSUME NEW e \in Envs, Users(e) PROVE Orderly
    <2>1. UNCHANGED lab
      BY <1>4 DEF Users
    <2>2. \A v \in Workers : cache'[v] = cache[v]
      BY <1>0, <1>4, KubectlCaches
         DEF Users, GatewayStep, AcquireProblemEnvironment, ReleaseProblemEnvironment
    <2>3. QED
      BY <1>0, <1>4, <2>1, <2>2, UsersKeep, OthersOrderly
  <1>5. ASSUME ManagerReconcilesProblem PROVE Orderly
    <2>1. UNCHANGED <<cache, lab>>
      BY <1>5 DEF ManagerReconcilesProblem, ReconcileProblem, CreateEnvironment, DeleteSurplus,
                  UpdateProblemStatus
    <2>2. QED
      BY <1>0, <1>5, <2>1, ReconcileProblemKeeps, OthersOrderly
  <1>6. ASSUME WatchProblem \/ ChangeProblem \/ WatchWorkers \/ ChangeWorkers PROVE Orderly
    <2>1. UNCHANGED <<pe, cache, lab>>
      BY <1>6 DEF WatchProblem, ChangeProblem, WatchWorkers, ChangeWorkers, ObserveProblem,
                  ScaleProblem, DeleteProblem, CollectProblem, apiVars
    <2>2. QED
      BY <1>k, <2>1, OthersOrderly
  <1>7. QED
    BY <1>1, <1>2, <1>3, <1>4, <1>5, <1>6

-----------------------------------------------------------------------------
(***************************************************************************)
(* The theorems.                                                           *)
(***************************************************************************)

\* Where clab inspect works, the labs stay owned: what nclet has read live with its
\* finalizer still has it, and labs have their files.
THEOREM LabInvariant == "inspectFails" \notin Faults => (Spec => []LabInv)
  <1> SUFFICES ASSUME "inspectFails" \notin Faults PROVE Spec => []LabInv
    OBVIOUS
  <1>1. Init => LabInv
    <2> SUFFICES ASSUME Init PROVE LabInv
      OBVIOUS
    <2>1. TypeOK /\ CacheCoherent
      BY InitTypes, InitCoherent
    <2>2. \A w \in Workers, e \in Envs : lab[w][e] = NoLab /\ w \in Processes
      BY DEF Init, NcletInit, Processes, Controllers
    <2>3. \A w \in Workers, e \in Envs : SeenBy(w, e) = Blank("unborn")
      BY <2>2 DEF Init, APIInit, SeenBy
    <2>4. QED
      BY <2>1, <2>2, <2>3, LabInvOwned DEF NoLab, Blank, LabIsPlaced
  <1>2. LabInv /\ [Next]_vars => LabInv'
    <2> SUFFICES ASSUME LabInv, [Next]_vars PROVE LabInv'
      OBVIOUS
    <2>1. TypeOK' /\ CacheCoherent'
      BY NextTypes, NextCoherent DEF LabInv
    <2>2. CASE UNCHANGED vars
      <3>1. UNCHANGED <<pe, cache, lab>>
        BY <2>2 DEF vars, apiVars
      <3>2. Orderly
        BY <3>1, OthersOrderly DEF Keeps
      <3>3. QED
        BY <2>1, <3>2, OrderlyKeeps
    <2>3. ASSUME NEW w \in Workers, NEW e \in Envs, NcletReconciles(w, e) PROVE LabInv'
      <3>1. CASE Cleanup(w, e)
        BY <2>1, <3>1, CleanupKeeps
      <3>2. CASE NcletIgnore(w, e)
        <4>1. Orderly
          BY <3>2, OthersOrderly DEF NcletIgnore, Keeps
        <4>2. QED
          BY <2>1, <4>1, OrderlyKeeps
      <3>3. CASE AddFinalizer(w, e) \/ DeployEnvironment(w, e) \/ CheckEnvironment(w, e)
        BY <2>1, <3>3, AddFinalizerOrderly, DeployOrderly, CheckOrderly, OrderlyKeeps
      <3>4. QED
        BY <2>3, <3>1, <3>2, <3>3 DEF NcletReconciles, NcletStep
    <2>4. ASSUME NEW w \in Workers, NEW e \in Envs, CrashNclet(w, e) \/ Containers(w, e)
          PROVE  LabInv'
      BY <2>1, <2>4, CrashOrderly, ContainersOrderly, OrderlyKeeps DEF CrashNclet
    <2>5. CASE \/ \E p \in Processes : Watch(p) \/ RestartProgram(p)
               \/ \E e \in Envs : CollectGarbage(e) \/ ManagerReconciles(e) \/ Users(e)
               \/ ManagerReconcilesProblem \/ WatchProblem \/ ChangeProblem
               \/ WatchWorkers \/ ChangeWorkers
      BY <2>1, <2>5, ProgramsOrderly, OrderlyKeeps
    <2>6. QED
      BY <2>2, <2>3, <2>4, <2>5 DEF Next
  <1>3. QED
    BY <1>1, <1>2, PTL DEF Spec

\* No environment runs on a Worker that it is not bound to, and none is left running
\* when its object is gone: for any number of environments and Workers, as long as
\* clab inspect works.
THEOREM LabAlwaysOwned == "inspectFails" \notin Faults => (Spec => []LabIsOwned)
  <1>1. LabInv => LabIsOwned
    BY DEF LabInv
  <1>2. QED
    BY <1>1, LabInvariant, PTL

=============================================================================
