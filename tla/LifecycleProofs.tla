---------------------------- MODULE LifecycleProofs ----------------------------
(***************************************************************************)
(* Netcon implements Lifecycle, and what follows from that: an environment *)
(* has one holder at a time, its conditions build on each other, and its   *)
(* scheduling is final.                                                    *)
(***************************************************************************)
EXTENDS NetconProofs

-----------------------------------------------------------------------------
(***************************************************************************)
(* Cached copies that count as current are current.                        *)
(***************************************************************************)

\* A write outdates the cached copies of what it changes, and no others.
LEMMA StoreCoherent ==
    ASSUME CacheCoherent, NEW new, Store(new), UNCHANGED cache
    PROVE  CacheCoherent'
  BY DEF CacheCoherent, Store

\* A cache that is brought up to date is coherent.
LEMMA ObserveCoherent ==
    ASSUME APITypeOK, CacheCoherent, NEW p \in Processes,
           cache' = [cache EXCEPT ![p] = pe], fresh' = fresh \cup ({p} \X Envs), UNCHANGED pe
    PROVE  CacheCoherent'
  <1> SUFFICES ASSUME NEW f \in fresh'
               PROVE  cache'[f[1]][f[2]] = pe'[f[2]]
    BY DEF CacheCoherent
  <1>1. f \in Processes \X Envs
    BY DEF APITypeOK
  <1>2. CASE f[1] = p
    BY <1>1, <1>2 DEF APITypeOK
  <1>3. CASE f[1] # p
    BY <1>1, <1>3 DEF APITypeOK, CacheCoherent
  <1>4. QED
    BY <1>2, <1>3

\* A command of the plugin that reads an environment, and one that ends, keep the
\* caches coherent: its copy is current, and then no longer there.
LEMMA KubectlCoherent ==
    ASSUME APITypeOK, CacheCoherent, NEW e \in Envs, KubectlStep(e)
    PROVE  CacheCoherent'
  <1>1. "kubectl" \in Processes
    BY ProcessNames DEF KubectlStep
  <1>2. CASE KubectlGet(e)
    <2> SUFFICES ASSUME NEW f \in fresh'
                 PROVE  cache'[f[1]][f[2]] = pe'[f[2]]
      BY DEF CacheCoherent
    <2>1. CASE f = <<"kubectl", e>>
      BY <1>1, <1>2, <2>1 DEF KubectlGet, APITypeOK
    <2>2. CASE f # <<"kubectl", e>>
      <3>1. f \in fresh /\ f \in Processes \X Envs
        BY <1>2, <2>2 DEF KubectlGet, APITypeOK
      <3>2. cache'[f[1]][f[2]] = cache[f[1]][f[2]]
        BY <1>1, <1>2, <2>2, <3>1 DEF KubectlGet, APITypeOK
      <3>3. QED
        BY <1>2, <3>1, <3>2 DEF KubectlGet, CacheCoherent
    <2>3. QED
      BY <2>1, <2>2
  <1>3. ASSUME NEW new, KubectlEnd(e, new)
        PROVE  CacheCoherent'
    <2> SUFFICES ASSUME NEW f \in fresh'
                 PROVE  cache'[f[1]][f[2]] = pe'[f[2]]
      BY DEF CacheCoherent
    <2>1. f \in fresh /\ f \in Processes \X Envs /\ f # <<"kubectl", e>> /\ pe'[f[2]] = pe[f[2]]
      BY <1>3 DEF KubectlEnd, APITypeOK
    <2>2. cache'[f[1]][f[2]] = cache[f[1]][f[2]]
      BY <1>1, <1>3, <2>1 DEF KubectlEnd, APITypeOK
    <2>3. QED
      BY <2>1, <2>2 DEF CacheCoherent
  <1>4. CASE KubectlDelete(e)
    BY <1>4, StoreCoherent DEF KubectlDelete
  <1>5. QED
    BY <1>2, <1>3, <1>4 DEF KubectlStep, KubectlAssign, KubectlUnassign

\* Initially nobody has seen anything.
LEMMA InitCoherent == Init => CacheCoherent
  BY DEF Init, APIInit, CacheCoherent

\* No step of the system makes a cached copy count as current that is not.
LEMMA NextCoherent == TypeOK /\ CacheCoherent /\ [Next]_vars => CacheCoherent'
  <1> SUFFICES ASSUME TypeOK, CacheCoherent, [Next]_vars PROVE CacheCoherent'
    OBVIOUS
  <1>t. APITypeOK
    BY DEF TypeOK
  <1>0. ASSUME UNCHANGED <<pe, cache, fresh>> PROVE CacheCoherent'
    BY <1>0 DEF CacheCoherent
  <1>1. ASSUME NEW p \in Processes, Watch(p) \/ RestartProgram(p) PROVE CacheCoherent'
    BY <1>t, <1>1, ObserveCoherent DEF Watch, RestartProgram, Observe, Restart, Restarted
  <1>2. ASSUME NEW e \in Envs, CollectGarbage(e) PROVE CacheCoherent'
    BY <1>2, StoreCoherent DEF CollectGarbage, FinishForegroundDeletion, CollectChild
  <1>3. ASSUME NEW e \in Envs, ManagerReconciles(e) PROVE CacheCoherent'
    BY <1>t, <1>3, ManagerStores, StoreCoherent DEF ManagerReconciles
  <1>4. ASSUME NEW e \in Envs, Users(e) PROVE CacheCoherent'
    <2>1. CASE KubectlStep(e)
      BY <1>t, <2>1, KubectlCoherent
    <2>2. CASE GatewayStep(e)
      BY <2>2, StoreCoherent, StoreNothing
         DEF GatewayStep, AcquireProblemEnvironment, ReleaseProblemEnvironment
    <2>3. QED
      BY <1>4, <2>1, <2>2 DEF Users
  <1>5. CASE ManagerReconcilesProblem
    BY <1>5, ReconcileProblemStores, StoreCoherent DEF ManagerReconcilesProblem
  <1>6. CASE WatchProblem \/ ChangeProblem \/ WatchWorkers \/ ChangeWorkers
    BY <1>0, <1>6 DEF WatchProblem, ChangeProblem, WatchWorkers, ChangeWorkers, ObserveProblem,
                      ScaleProblem, DeleteProblem, CollectProblem, apiVars
  <1>7. ASSUME NEW w \in Workers, NEW e \in Envs, NcletReconciles(w, e) PROVE CacheCoherent'
    BY <1>7, NcletStores, StoreCoherent DEF NcletReconciles
  <1>8. ASSUME NEW w \in Workers, NEW e \in Envs, CrashNclet(w, e) PROVE CacheCoherent'
    BY <1>t, <1>8, ObserveCoherent, ProcessNames DEF CrashNclet, CrashWhileDeploying, Restarted
  <1>9. ASSUME NEW w \in Workers, NEW e \in Envs, Containers(w, e) PROVE CacheCoherent'
    BY <1>0, <1>9 DEF Containers, ContainersComeUp, ContainerFails, apiVars
  <1>10. CASE UNCHANGED vars
    BY <1>0, <1>10 DEF vars, apiVars
  <1>11. QED
    BY <1>1, <1>2, <1>3, <1>4, <1>5, <1>6, <1>7, <1>8, <1>9, <1>10 DEF Next

-----------------------------------------------------------------------------
(***************************************************************************)
(* Every step is a step of each environment's life.                        *)
(***************************************************************************)
LifeStep(e) == [Life(e)!LifeNext]_(Life(e)!lifeVars)

\* An environment that a step leaves alone stutters.
LEMMA Stutter ==
    ASSUME NEW e, pe'[e] = pe[e], holders'[e] = holders[e], issued'[e] = issued[e]
    PROVE  LifeStep(e)
  BY DEF LifeStep, Life!lifeVars

\* A step that stores one environment, and leaves the holders alone, is a step of
\* the lives of all environments if it is one of that environment's.
LEMMA OneLife ==
    ASSUME TypeOK, NEW e \in Envs, NEW o, pe' = [pe EXCEPT ![e] = o], UNCHANGED gatewayVars,
           pe'[e] = o => LifeStep(e)
    PROVE  \A f \in Envs : LifeStep(f)
  <1>1. pe'[e] = o /\ \A f \in Envs \ {e} : pe'[f] = pe[f]
    BY DEF TypeOK, APITypeOK
  <1>2. QED
    BY <1>1, Stutter DEF gatewayVars

\* What a program submits under the stored version, it has derived from the stored object.
LEMMA AcceptedIsCurrent ==
    ASSUME CacheCoherent, NEW p, NEW e, Accepted(p, e)
    PROVE  cache[p][e] = pe[e] /\ Exists(pe[e])
  BY DEF CacheCoherent, Accepted

\* An update is refused, or acts on the stored object.
LEMMA UpdateEffect ==
    ASSUME CacheCoherent, NEW p, NEW e, NEW new, Update(p, e, new)
    PROVE  \/ pe' = pe
           \/ /\ cache[p][e] = pe[e] /\ Exists(pe[e])
              /\ pe' = [pe EXCEPT ![e] = SpecOf(pe[e], new)]
  BY AcceptedIsCurrent DEF Update, Store

\* A status update is refused, or acts on the stored object.
LEMMA UpdateStatusEffect ==
    ASSUME CacheCoherent, NEW p, NEW e, NEW new, NEW again, UpdateStatus(p, e, new, again)
    PROVE  \/ pe' = pe
           \/ /\ cache[p][e] = pe[e] /\ Exists(pe[e])
              /\ pe' = [pe EXCEPT ![e] = StatusOf(pe[e], new)]
  BY AcceptedIsCurrent DEF UpdateStatus, Store

\* A step that changes no environment and no holder.
LEMMA NoLife ==
    ASSUME pe' = pe, UNCHANGED gatewayVars
    PROVE  \A f \in Envs : LifeStep(f)
  BY Stutter DEF gatewayVars

\* The environment reconciler of the manager: Bind, FailToSchedule, Confirm, Judge.
LEMMA ManagerLives ==
    ASSUME TypeOK, CacheCoherent, NEW e \in Envs, ManagerReconciles(e)
    PROVE  \A f \in Envs : LifeStep(f)
  <1> DEFINE o == pe[e]
  <1>1. o \in ProblemEnvironment
    BY DEF TypeOK, APITypeOK
  <1>2. UNCHANGED gatewayVars /\ EnvironmentControllerStep(e)
    BY DEF ManagerReconciles
  <1>3. CASE ManagerIgnore(e)
    BY <1>2, <1>3, NoLife DEF ManagerIgnore
  <1>4. ASSUME NotScheduledYet(e),
               NEW reason \in {"WorkersUnlisted", "ScheduleFailed", "WorkersMissing"}, NEW again,
               UpdateStatus("manager", e, [Seen(e) EXCEPT !.scheduled = reason], again)
        PROVE  \A f \in Envs : LifeStep(f)
    <2>0. pe' = pe \/ (Seen(e) = o /\ pe' = [pe EXCEPT ![e] = StatusOf(o, [Seen(e) EXCEPT !.scheduled = reason])])
      BY <1>4, UpdateStatusEffect DEF Seen
    <2>1. CASE pe' = pe
      BY <1>2, <2>1, NoLife
    <2>2. CASE Seen(e) = o /\ pe' = [pe EXCEPT ![e] = StatusOf(o, [Seen(e) EXCEPT !.scheduled = reason])]
      <3>1. pe' = [pe EXCEPT ![e] = [o EXCEPT !.scheduled = reason]]
        BY <1>1, <2>2, WriteScheduled
      <3>2. pe'[e] = [o EXCEPT !.scheduled = reason] => Life(e)!FailToSchedule
        BY <1>2, <1>4, <2>2 DEF Life!FailToSchedule, Life!Unscheduled, NotScheduledYet, Life!IsTrue,
             Life!ConditionStatus, Life!ReasonsOfTrue, IsTrue, ConditionStatus, ReasonsOfTrue, gatewayVars
      <3>3. QED
        BY <1>2, <3>1, <3>2, OneLife DEF LifeStep, Life!LifeNext
    <2>3. QED
      BY <2>0, <2>1, <2>2
  <1>5. CASE Schedule(e)
    <2>1. ASSUME NEW w \in Workers, Update("manager", e, [Seen(e) EXCEPT !.worker = w])
          PROVE  \A f \in Envs : LifeStep(f)
      <3>0. pe' = pe \/ (Seen(e) = o /\ pe' = [pe EXCEPT ![e] = SpecOf(o, [Seen(e) EXCEPT !.worker = w])])
        BY <2>1, UpdateEffect DEF Seen
      <3>1. CASE pe' = pe
        BY <1>2, <3>1, NoLife
      <3>2. CASE Seen(e) = o /\ pe' = [pe EXCEPT ![e] = SpecOf(o, [Seen(e) EXCEPT !.worker = w])]
        <4>1. o.life = "live"
          BY <1>5, <3>2 DEF Schedule, NotScheduledYet
        <4>2. pe' = [pe EXCEPT ![e] = [o EXCEPT !.worker = w]]
          BY <1>1, <3>2, <4>1, WriteWorker
        <4>3. pe'[e] = [o EXCEPT !.worker = w] => Life(e)!Bind
          BY <1>2, <1>5, <3>2 DEF Schedule, Life!Bind, Life!Unscheduled, NotScheduledYet, Life!IsTrue,
             Life!ConditionStatus, Life!ReasonsOfTrue, IsTrue, ConditionStatus, ReasonsOfTrue, gatewayVars
        <4>4. QED
          BY <1>2, <4>2, <4>3, OneLife DEF LifeStep, Life!LifeNext
      <3>3. QED
        BY <3>0, <3>1, <3>2
    <2>2. \A w \in ElectWorker(workerCache) : w # NoWorker => w \in Workers
      BY DEF ElectWorker, Candidates
    <2>3. QED
      BY <1>4, <1>5, <2>1, <2>2 DEF Schedule
  <1>6. CASE ConfirmSchedule(e)
    <2>1. ASSUME NEW password \in Passwords,
                 UpdateStatus("manager", e, Confirmed(Seen(e), password), FALSE)
          PROVE  \A f \in Envs : LifeStep(f)
      <3>0. pe' = pe \/ (Seen(e) = o /\ pe' = [pe EXCEPT ![e] = StatusOf(o, Confirmed(Seen(e), password))])
        BY <2>1, AcceptedIsCurrent DEF Seen, UpdateStatus, Store
      <3>1. CASE pe' = pe
        BY <1>2, <3>1, NoLife
      <3>2. CASE Seen(e) = o /\ pe' = [pe EXCEPT ![e] = StatusOf(o, Confirmed(Seen(e), password))]
        <4>1. pe' = [pe EXCEPT ![e] = Confirmed(o, password)]
          BY <1>1, <3>2, WriteConfirmed
        <4>2. pe'[e] = Confirmed(o, password) => Life(e)!Confirm
          BY <1>2, <1>6, <3>2 DEF ConfirmSchedule, Confirmed, Life!Confirm, Life!Unscheduled,
             NotScheduledYet, Life!IsTrue, Life!ConditionStatus, Life!ReasonsOfTrue, IsTrue,
             ConditionStatus, ReasonsOfTrue, gatewayVars
        <4>3. QED
          BY <1>2, <4>1, <4>2, OneLife DEF LifeStep, Life!LifeNext
      <3>3. QED
        BY <3>0, <3>1, <3>2
    <2>2. QED
      BY <1>4, <1>6, <2>1 DEF ConfirmSchedule
  <1>7. CASE CheckStatus(e)
    <2>1. Seen(e).containers \in {"nil", "notReady", "ready"}
      BY CachedType, ProcessNames DEF Seen, ProblemEnvironment, ContainerStatuses, TypeOK
    <2>2. ASSUME NEW reason, UpdateStatus("manager", e, [Seen(e) EXCEPT !.ready = reason], FALSE),
                 \/ Seen(e).containers = "nil" /\ reason = "NotChecked"
                 \/ Seen(e).containers = "notReady" /\ reason = "NotReady"
                 \/ Seen(e).containers = "ready" /\ reason = "Ready"
          PROVE  \A f \in Envs : LifeStep(f)
      <3>0. pe' = pe \/ (Seen(e) = o /\ pe' = [pe EXCEPT ![e] = StatusOf(o, [Seen(e) EXCEPT !.ready = reason])])
        BY <2>2, AcceptedIsCurrent DEF Seen, UpdateStatus, Store
      <3>1. CASE pe' = pe
        BY <1>2, <3>1, NoLife
      <3>2. CASE Seen(e) = o /\ pe' = [pe EXCEPT ![e] = StatusOf(o, [Seen(e) EXCEPT !.ready = reason])]
        <4>1. pe' = [pe EXCEPT ![e] = [o EXCEPT !.ready = reason]]
          BY <1>1, <3>2, WriteReady
        <4>2. pe'[e] = [o EXCEPT !.ready = reason] => Life(e)!Judge
          BY <1>2, <1>7, <2>2, <3>2 DEF CheckStatus, Life!Judge, Life!Served, Life!IsTrue,
             Life!ConditionStatus, Life!ReasonsOfTrue, IsTrue, ConditionStatus, ReasonsOfTrue, gatewayVars
        <4>3. QED
          BY <1>2, <4>1, <4>2, OneLife DEF LifeStep, Life!LifeNext
      <3>3. QED
        BY <3>0, <3>1, <3>2
    <2>3. \/ UNCHANGED pe
          \/ \E reason : /\ UpdateStatus("manager", e, [Seen(e) EXCEPT !.ready = reason], FALSE)
                         /\ \/ Seen(e).containers = "nil" /\ reason = "NotChecked"
                            \/ Seen(e).containers = "notReady" /\ reason = "NotReady"
                            \/ Seen(e).containers = "ready" /\ reason = "Ready"
      BY <1>7, <2>1 DEF CheckStatus
    <2>4. QED
      BY <1>2, <2>2, <2>3, NoLife
  <1>8. QED
    BY <1>2, <1>3, <1>5, <1>6, <1>7 DEF EnvironmentControllerStep

\* A deletion, by whomever, is a Delete of the life, or comes too late.
LEMMA DeleteLives ==
    ASSUME NEW e, NEW foreground \in BOOLEAN, pe'[e] = AfterDelete(pe[e], foreground),
           holders'[e] = holders[e], issued'[e] = issued[e]
    PROVE  LifeStep(e)
  <1>1. CASE ~Exists(pe[e])
    BY <1>1, Stutter DEF AfterDelete
  <1>2. CASE Exists(pe[e])
    <2>1. Life(e)!Delete
      BY <1>2 DEF Life!Delete, Life!AfterDelete, Life!Exists, Life!Settle, Life!Blank,
                  AfterDelete, Exists, Settle, Blank
    <2>2. QED
      BY <2>1 DEF LifeStep, Life!LifeNext
  <1>3. QED
    BY <1>1, <1>2

\* The garbage collector: Delete and Finish.
LEMMA GarbageLives ==
    ASSUME TypeOK, NEW e \in Envs, CollectGarbage(e)
    PROVE  \A f \in Envs : LifeStep(f)
  <1>1. UNCHANGED gatewayVars
    BY DEF CollectGarbage
  <1>2. CASE CollectChild(e)
    <2>1. PICK foreground \in BOOLEAN : pe' = [pe EXCEPT ![e] = AfterDelete(pe[e], foreground)]
      BY <1>2 DEF CollectChild, Store
    <2>2. pe'[e] = AfterDelete(pe[e], foreground) => LifeStep(e)
      BY <1>1, DeleteLives DEF gatewayVars
    <2>3. QED
      BY <1>1, <2>1, <2>2, OneLife
  <1>3. CASE FinishForegroundDeletion(e)
    <2> DEFINE o == Settle([pe[e] EXCEPT !.finalizers = pe[e].finalizers \ {"foreground"}])
    <2>1. pe' = [pe EXCEPT ![e] = o]
      BY <1>3 DEF FinishForegroundDeletion, Store
    <2>2. pe'[e] = o => Life(e)!Finish
      BY <1>1, <1>3 DEF FinishForegroundDeletion, Life!Finish, Life!Settle, Life!Blank, Settle, Blank,
                        gatewayVars
    <2> HIDE DEF o
    <2>3. QED
      BY <1>1, <2>1, <2>2, OneLife DEF LifeStep, Life!LifeNext
  <1>4. QED
    BY <1>2, <1>3 DEF CollectGarbage

\* The ProblemReconciler: Create, and Delete of several environments at once.
LEMMA ReconcileProblemLives ==
    ASSUME TypeOK, ManagerReconcilesProblem
    PROVE  \A f \in Envs : LifeStep(f)
  <1>1. UNCHANGED gatewayVars
    BY DEF ManagerReconcilesProblem
  <1>2. CASE pe' = pe
    BY <1>1, <1>2, NoLife
  <1>3. CASE CreateEnvironment
    <2>1. PICK e \in Envs : pe[e].life = "unborn" /\ pe' = [pe EXCEPT ![e] = Blank("live")]
      BY <1>3 DEF CreateEnvironment, Store
    <2>2. pe'[e] = Blank("live") => Life(e)!Create
      BY <1>1, <2>1 DEF Life!Create, Life!Blank, Blank, gatewayVars
    <2>3. QED
      BY <1>1, <2>1, <2>2, OneLife DEF LifeStep, Life!LifeNext
  <1>4. ASSUME NEW surplus, DeleteSurplus(surplus)
        PROVE  \A f \in Envs : LifeStep(f)
    <2>1. PICK S : pe' = [e \in Envs |-> IF e \in S THEN AfterDelete(pe[e], FALSE) ELSE pe[e]]
      BY <1>4 DEF DeleteSurplus, Store
    <2>2. ASSUME NEW f \in Envs PROVE LifeStep(f)
      <3>1. holders'[f] = holders[f] /\ issued'[f] = issued[f]
        BY <1>1 DEF gatewayVars
      <3>2. pe'[f] = pe[f] \/ pe'[f] = AfterDelete(pe[f], FALSE)
        BY <2>1
      <3>3. QED
        BY <3>1, <3>2, Stutter, DeleteLives
    <2>3. QED
      BY <2>2
  <1>5. CreateEnvironment \/ (\E surplus : DeleteSurplus(surplus)) \/ pe' = pe
    BY DEF ManagerReconcilesProblem, ReconcileProblem
  <1>6. QED
    BY <1>2, <1>3, <1>4, <1>5

\* The gateway: Assign and Delete.
LEMMA GatewayLives ==
    ASSUME TypeOK, CacheCoherent, NEW e \in Envs, GatewayStep(e)
    PROVE  \A f \in Envs : LifeStep(f)
  <1> DEFINE o == pe[e]
             new == [o EXCEPT !.assigned = "Assigned"]
  <1>1. o \in ProblemEnvironment
    BY DEF TypeOK, APITypeOK
  <1>2. CASE ReleaseProblemEnvironment(e)
    <2>1. pe' = [pe EXCEPT ![e] = AfterDelete(pe[e], FALSE)] /\ UNCHANGED gatewayVars
      BY <1>2 DEF ReleaseProblemEnvironment, Store
    <2>2. pe'[e] = AfterDelete(pe[e], FALSE) => LifeStep(e)
      BY <2>1, DeleteLives DEF gatewayVars
    <2>3. QED
      BY <2>1, <2>2, OneLife
  <1>3. CASE AcquireProblemEnvironment(e) /\ ~Accepted("gateway", e)
    BY <1>3, NoLife DEF AcquireProblemEnvironment, gatewayVars
  <1>4. CASE AcquireProblemEnvironment(e) /\ Accepted("gateway", e)
    <2>1. cache["gateway"][e] = o
      BY <1>4, AcceptedIsCurrent
    <2>2. Acquirable(o)
      BY <1>4, <2>1 DEF AcquireProblemEnvironment
    <2>3. pe' = [pe EXCEPT ![e] = StatusOf(o, new)] /\ (HandOut(e, o) \/ UNCHANGED gatewayVars)
      BY <1>4, <2>1 DEF AcquireProblemEnvironment, Store
    <2>4. pe' = [pe EXCEPT ![e] = new]
      BY <1>1, <2>3, WriteAssigned
    <2>5. pe'[e] = new /\ \A f \in Envs \ {e} : pe'[f] = pe[f]
      BY <2>4 DEF TypeOK, APITypeOK
    <2>6. /\ \/ holders'[e] = holders[e] + 1 /\ issued'[e] = o.password
             \/ holders'[e] = holders[e] /\ issued'[e] = issued[e]
          /\ \A f \in Envs \ {e} : holders'[f] = holders[f] /\ issued'[f] = issued[f]
      BY <2>3 DEF HandOut, gatewayVars, TypeOK, GatewayTypeOK
    <2>7. Life(e)!Assign
      BY <2>2, <2>5, <2>6 DEF Acquirable, Life!Assign, Life!Exists, Life!IsTrue, Life!ConditionStatus,
           Life!ReasonsOfTrue, Exists, ConditionStatus, ReasonsOfTrue
    <2>8. QED
      BY <2>5, <2>6, <2>7, Stutter DEF LifeStep, Life!LifeNext
  <1>5. QED
    BY <1>2, <1>3, <1>4 DEF GatewayStep

\* The kubectl plugin: Assign, Unassign and Delete.
LEMMA KubectlLives ==
    ASSUME TypeOK, CacheCoherent, NEW e \in Envs, KubectlStep(e)
    PROVE  \A f \in Envs : LifeStep(f)
  <1> DEFINE o == pe[e]
             with(reason) == [o EXCEPT !.assigned = reason]
  <1>1. o \in ProblemEnvironment
    BY DEF TypeOK, APITypeOK
  <1>2. CASE KubectlDelete(e)
    <2>1. pe' = [pe EXCEPT ![e] = AfterDelete(pe[e], TRUE)] /\ UNCHANGED gatewayVars
      BY <1>2 DEF KubectlDelete, Store
    <2>2. pe'[e] = AfterDelete(pe[e], TRUE) => LifeStep(e)
      BY <2>1, DeleteLives DEF gatewayVars
    <2>3. QED
      BY <2>1, <2>2, OneLife
  <1>3. CASE KubectlGet(e)
    BY <1>3, NoLife DEF KubectlGet
  <1>4. CASE (KubectlAssign(e) \/ KubectlUnassign(e)) /\ ~Accepted("kubectl", e)
    BY <1>4, NoLife DEF KubectlAssign, KubectlUnassign, KubectlEnd
  <1>5. ASSUME NEW reason, Accepted("kubectl", e), pe' = WithAssigned(e, reason)
        PROVE  /\ cache["kubectl"][e] = o /\ Exists(o)
               /\ pe'[e] = with(reason)
               /\ \A f \in Envs \ {e} : pe'[f] = pe[f]
    <2>1. cache["kubectl"][e] = o /\ Exists(o)
      BY <1>5, AcceptedIsCurrent
    <2>2. StatusOf(o, [cache["kubectl"][e] EXCEPT !.assigned = reason]) = with(reason)
      BY <1>1, <2>1, WriteAssigned
    <2>3. pe' = [pe EXCEPT ![e] = with(reason)]
      BY <1>5, <2>2 DEF WithAssigned
    <2>4. QED
      BY <2>1, <2>3 DEF TypeOK, APITypeOK
  <1>6. CASE KubectlAssign(e) /\ Accepted("kubectl", e)
    <2>1. /\ pe' = WithAssigned(e, "AdminAssigned")
          /\ HandOut(e, cache["kubectl"][e])
          /\ MayAssign(cache["kubectl"][e])
      BY <1>6 DEF KubectlAssign, KubectlEnd
    <2>2. /\ cache["kubectl"][e] = o /\ Exists(o)
          /\ pe'[e] = with("AdminAssigned")
          /\ \A f \in Envs \ {e} : pe'[f] = pe[f]
      BY <1>5, <1>6, <2>1
    <2>3. /\ holders'[e] = holders[e] + 1 /\ issued'[e] = o.password
          /\ \A f \in Envs \ {e} : holders'[f] = holders[f] /\ issued'[f] = issued[f]
      BY <2>1, <2>2 DEF HandOut, TypeOK, GatewayTypeOK
    <2>4. Life(e)!Assign
      BY <2>1, <2>2, <2>3 DEF MayAssign, Life!Assign, Life!Exists, Life!IsTrue, Life!ConditionStatus,
           Life!ReasonsOfTrue, Exists, ConditionStatus, ReasonsOfTrue
    <2>5. QED
      BY <2>2, <2>3, <2>4, Stutter DEF LifeStep, Life!LifeNext
  <1>7. CASE KubectlUnassign(e) /\ Accepted("kubectl", e)
    <2>1. /\ pe' = WithAssigned(e, "AdminUnassigned")
          /\ holders' = [holders EXCEPT ![e] = 0] /\ UNCHANGED issued
          /\ MayUnassign(cache["kubectl"][e])
      BY <1>7 DEF KubectlUnassign, KubectlEnd
    <2>2. /\ cache["kubectl"][e] = o /\ Exists(o)
          /\ pe'[e] = with("AdminUnassigned")
          /\ \A f \in Envs \ {e} : pe'[f] = pe[f]
      BY <1>5, <1>7, <2>1
    <2>3. /\ holders'[e] = 0 /\ issued'[e] = issued[e]
          /\ \A f \in Envs \ {e} : holders'[f] = holders[f] /\ issued'[f] = issued[f]
      BY <2>1 DEF TypeOK, GatewayTypeOK
    <2>4. Life(e)!Unassign
      BY <2>1, <2>2, <2>3 DEF MayUnassign, Life!Unassign, Life!Exists, Life!IsTrue,
           Life!ConditionStatus, Life!ReasonsOfTrue, Exists, IsTrue, ConditionStatus, ReasonsOfTrue
    <2>5. QED
      BY <2>2, <2>3, <2>4, Stutter DEF LifeStep, Life!LifeNext
  <1>8. QED
    BY <1>2, <1>3, <1>4, <1>6, <1>7 DEF KubectlStep

\* What updateContainerStatus makes of an object that nclet has read, with or
\* without the Deployed condition set.
LEMMA ReportLives ==
    ASSUME TypeOK, CacheCoherent, NEW w \in Workers, NEW e \in Envs, NEW reported \in Reported,
           NEW o, Serves(w, e), HasFinalizer(SeenBy(w, e)),
           \/ o = SeenBy(w, e) /\ IsTrue(SeenBy(w, e).deployed)
           \/ o = [SeenBy(w, e) EXCEPT !.deployed = "Deployed"] /\ ~IsTrue(SeenBy(w, e).deployed),
           UpdateContainerStatus(w, e, o, reported), UNCHANGED gatewayVars
    PROVE  \A f \in Envs : LifeStep(f)
  <1> DEFINE c == IF reported = "empty" THEN "nil" ELSE reported
  <1>1. c \in ContainerStatuses
    BY DEF Reported, ContainerStatuses
  <1>2. pe[e] \in ProblemEnvironment
    BY DEF TypeOK, APITypeOK
  <1>3. \/ pe' = pe
        \/ /\ SeenBy(w, e) = pe[e]
           /\ pe' = [pe EXCEPT ![e] = StatusOf(pe[e], [o EXCEPT !.containers = c])]
    BY AcceptedIsCurrent DEF UpdateContainerStatus, UpdateStatus, Store, SeenBy
  <1> HIDE DEF c
  <1>4. CASE pe' = pe
    BY <1>4, NoLife
  <1>5. CASE /\ SeenBy(w, e) = pe[e]
             /\ pe' = [pe EXCEPT ![e] = StatusOf(pe[e], [o EXCEPT !.containers = c])]
    <2>1. Life(e)!Served /\ Life(e)!HasFinalizer(pe[e])
      BY <1>5 DEF Serves, Mine, HasFinalizer, Life!Served, Life!HasFinalizer, Life!IsTrue,
           Life!ConditionStatus, Life!ReasonsOfTrue, IsTrue, ConditionStatus, ReasonsOfTrue
    <2>2. Life(e)!IsTrue(pe[e].deployed) <=> IsTrue(pe[e].deployed)
      BY DEF Life!IsTrue, Life!ConditionStatus, Life!ReasonsOfTrue, IsTrue, ConditionStatus, ReasonsOfTrue
    <2>3. CASE o = pe[e] /\ IsTrue(pe[e].deployed)
      <3>1. pe' = [pe EXCEPT ![e] = [pe[e] EXCEPT !.containers = c]]
        BY <1>2, <1>5, <2>3, WriteContainers
      <3>2. pe'[e] = [pe[e] EXCEPT !.containers = c] => Life(e)!Report
        BY <1>1, <2>1, <2>2, <2>3 DEF Life!Report, Life!ContainerStatuses, ContainerStatuses, gatewayVars
      <3>3. QED
        BY <3>1, <3>2, OneLife DEF LifeStep, Life!LifeNext
    <2>4. CASE o = [pe[e] EXCEPT !.deployed = "Deployed"] /\ ~IsTrue(pe[e].deployed)
      <3>0. StatusOf(pe[e], [o EXCEPT !.containers = c])
              = [pe[e] EXCEPT !.deployed = "Deployed", !.containers = c]
        BY <1>2, <2>4 DEF StatusOf, ProblemEnvironment
      <3>1. pe' = [pe EXCEPT ![e] = [pe[e] EXCEPT !.deployed = "Deployed", !.containers = c]]
        BY <1>5, <3>0
      <3>2. pe'[e] = [pe[e] EXCEPT !.deployed = "Deployed", !.containers = c] => Life(e)!Report
        BY <1>1, <2>1, <2>2, <2>4 DEF Life!Report, Life!ContainerStatuses, ContainerStatuses, gatewayVars
      <3>3. QED
        BY <3>1, <3>2, OneLife DEF LifeStep, Life!LifeNext
    <2>5. QED
      BY <1>5, <2>3, <2>4
  <1>6. QED
    BY <1>3, <1>4, <1>5

\* nclet: TakeOver, Report, FailToDestroy and Finish.
LEMMA NcletLives ==
    ASSUME TypeOK, CacheCoherent, NEW w \in Workers, NEW e \in Envs, NcletReconciles(w, e)
    PROVE  \A f \in Envs : LifeStep(f)
  <1> DEFINE o == pe[e]
  <1>1. o \in ProblemEnvironment
    BY DEF TypeOK, APITypeOK
  <1>2. UNCHANGED gatewayVars /\ NcletStep(w, e)
    BY DEF NcletReconciles
  <1>3. lab[w][e] \in Lab
    BY DEF TypeOK, NcletTypeOK
  <1>4. CASE NcletIgnore(w, e)
    BY <1>2, <1>4, NoLife DEF NcletIgnore
  <1>5. CASE AddFinalizer(w, e)
    <2> DEFINE fins == o.finalizers \cup {"nclet"}
    <2>1. pe' = pe \/ (SeenBy(w, e) = o /\ pe' = [pe EXCEPT ![e] = SpecOf(o, [o EXCEPT !.finalizers = fins])])
      BY <1>5, AcceptedIsCurrent DEF AddFinalizer, Update, Store, SeenBy
    <2>2. CASE pe' = pe
      BY <1>2, <2>2, NoLife
    <2>3. CASE SeenBy(w, e) = o /\ pe' = [pe EXCEPT ![e] = SpecOf(o, [o EXCEPT !.finalizers = fins])]
      <3>1. o.life = "live" /\ IsTrue(o.scheduled)
        BY <1>5, <2>3 DEF AddFinalizer, Serves, Mine
      <3>2. SpecOf(o, [o EXCEPT !.finalizers = fins]) = [o EXCEPT !.finalizers = fins]
        BY <1>1, <3>1 DEF SpecOf, Settle, ProblemEnvironment
      <3>3. pe' = [pe EXCEPT ![e] = [o EXCEPT !.finalizers = fins]]
        BY <2>3, <3>2
      <3>4. pe'[e] = [o EXCEPT !.finalizers = fins] => Life(e)!TakeOver
        BY <1>2, <3>1 DEF Life!TakeOver, Life!Served, Life!IsTrue, Life!ConditionStatus,
             Life!ReasonsOfTrue, IsTrue, ConditionStatus, ReasonsOfTrue, gatewayVars
      <3>5. QED
        BY <1>2, <3>3, <3>4, OneLife DEF LifeStep, Life!LifeNext
    <2>4. QED
      BY <2>1, <2>2, <2>3
  <1>6. CASE DeployEnvironment(w, e)
    <2>1. Serves(w, e) /\ HasFinalizer(SeenBy(w, e)) /\ ~IsTrue(SeenBy(w, e).deployed)
      BY <1>6 DEF DeployEnvironment
    <2>2. CASE UpdateStatus(w, e, [SeenBy(w, e) EXCEPT !.deployed = "DeployFailed"], FALSE)
      <3>1. \/ pe' = pe
            \/ /\ SeenBy(w, e) = o
               /\ pe' = [pe EXCEPT ![e] = StatusOf(o, [SeenBy(w, e) EXCEPT !.deployed = "DeployFailed"])]
        BY <2>2, AcceptedIsCurrent DEF UpdateStatus, Store, SeenBy
      <3>2. CASE pe' = pe
        BY <1>2, <3>2, NoLife
      <3>3. CASE /\ SeenBy(w, e) = o
                 /\ pe' = [pe EXCEPT ![e] = StatusOf(o, [SeenBy(w, e) EXCEPT !.deployed = "DeployFailed"])]
        <4>1. pe' = [pe EXCEPT ![e] = [o EXCEPT !.deployed = "DeployFailed"]]
          BY <1>1, <3>3, WriteDeployed
        <4>2. pe'[e] = [o EXCEPT !.deployed = "DeployFailed"] => Life(e)!Report
          BY <1>2, <2>1, <3>3 DEF Serves, Mine, Life!Report, Life!Served, Life!HasFinalizer, Life!IsTrue,
               Life!ConditionStatus, Life!ReasonsOfTrue, HasFinalizer, IsTrue, ConditionStatus,
               ReasonsOfTrue, gatewayVars
        <4>3. QED
          BY <1>2, <4>1, <4>2, OneLife DEF LifeStep, Life!LifeNext
      <3>4. QED
        BY <3>1, <3>2, <3>3
    <2>3. ASSUME NEW l \in Deploy(lab[w][e]), NEW c \in Check(l),
                 UpdateContainerStatus(w, e, [SeenBy(w, e) EXCEPT !.deployed = "Deployed"], c.containers)
          PROVE  \A f \in Envs : LifeStep(f)
      <3>1. c.containers \in Reported
        BY <1>3, DeployType, CheckType
      <3>2. QED
        BY <1>2, <2>1, <2>3, <3>1, ReportLives
    <2>4. QED
      BY <1>6, <2>2, <2>3 DEF DeployEnvironment
  <1>7. CASE CheckEnvironment(w, e)
    <2>1. PICK c \in Check(lab[w][e]) : UpdateContainerStatus(w, e, SeenBy(w, e), c.containers)
      BY <1>7 DEF CheckEnvironment
    <2>2. c.containers \in Reported
      BY <1>3, CheckType
    <2>3. QED
      BY <1>2, <1>7, <2>1, <2>2, ReportLives DEF CheckEnvironment
  <1>8. CASE Cleanup(w, e)
    <2> DEFINE fins == o.finalizers \ {"nclet"}
    <2>1. SeenBy(w, e).life = "terminating" /\ HasFinalizer(SeenBy(w, e))
      BY <1>8 DEF Cleanup, MustCleanUp
    <2>2. \/ pe' = pe
          \/ SeenBy(w, e) = o /\ pe' = [pe EXCEPT ![e] = StatusOf(o, [o EXCEPT !.ready = "DestroyFailed"])]
          \/ SeenBy(w, e) = o /\ pe' = [pe EXCEPT ![e] = SpecOf(o, [o EXCEPT !.finalizers = fins])]
      BY <1>8, AcceptedIsCurrent
         DEF Cleanup, AfterDestroy, GiveUpFinalizer, Update, UpdateStatus, Store, SeenBy
    <2>3. CASE pe' = pe
      BY <1>2, <2>3, NoLife
    <2>4. CASE SeenBy(w, e) = o /\ pe' = [pe EXCEPT ![e] = StatusOf(o, [o EXCEPT !.ready = "DestroyFailed"])]
      <3>1. pe' = [pe EXCEPT ![e] = [o EXCEPT !.ready = "DestroyFailed"]]
        BY <1>1, <2>4, WriteReady
      <3>2. pe'[e] = [o EXCEPT !.ready = "DestroyFailed"] => Life(e)!FailToDestroy
        BY <1>2, <2>1, <2>4 DEF Life!FailToDestroy, Life!HasFinalizer, HasFinalizer, gatewayVars
      <3>3. QED
        BY <1>2, <3>1, <3>2, OneLife DEF LifeStep, Life!LifeNext
    <2>5. CASE SeenBy(w, e) = o /\ pe' = [pe EXCEPT ![e] = SpecOf(o, [o EXCEPT !.finalizers = fins])]
      <3>1. pe' = [pe EXCEPT ![e] = Settle([o EXCEPT !.finalizers = fins])]
        BY <1>1, <2>5, WriteFinalizers
      <3>2. pe'[e] = Settle([o EXCEPT !.finalizers = fins]) => Life(e)!Finish
        BY <1>2, <2>1, <2>5 DEF Life!Finish, Life!Settle, Life!Blank, Settle, Blank, HasFinalizer,
                                gatewayVars
      <3>3. QED
        BY <1>2, <3>1, <3>2, OneLife DEF LifeStep, Life!LifeNext
    <2>6. QED
      BY <2>2, <2>3, <2>4, <2>5
  <1>9. QED
    BY <1>2, <1>4, <1>5, <1>6, <1>7, <1>8 DEF NcletStep

\* Every step of the system is a step, or a stutter, of the life of every environment.
LEMMA NextLives == TypeOK /\ CacheCoherent /\ [Next]_vars => \A e \in Envs : LifeStep(e)
  <1> SUFFICES ASSUME TypeOK, CacheCoherent, [Next]_vars PROVE \A e \in Envs : LifeStep(e)
    OBVIOUS
  <1>1. ASSUME NEW p \in Processes, Watch(p) \/ RestartProgram(p) PROVE \A e \in Envs : LifeStep(e)
    BY <1>1, NoLife DEF Watch, RestartProgram, Observe, Restart
  <1>2. ASSUME NEW e \in Envs, CollectGarbage(e) PROVE \A f \in Envs : LifeStep(f)
    BY <1>2, GarbageLives
  <1>3. ASSUME NEW e \in Envs, ManagerReconciles(e) PROVE \A f \in Envs : LifeStep(f)
    BY <1>3, ManagerLives
  <1>4. ASSUME NEW e \in Envs, Users(e) PROVE \A f \in Envs : LifeStep(f)
    BY <1>4, GatewayLives, KubectlLives DEF Users
  <1>5. CASE ManagerReconcilesProblem
    BY <1>5, ReconcileProblemLives
  <1>6. CASE WatchProblem \/ ChangeProblem \/ WatchWorkers \/ ChangeWorkers
    BY <1>6, NoLife DEF WatchProblem, ChangeProblem, WatchWorkers, ChangeWorkers, ObserveProblem,
                        ScaleProblem, DeleteProblem, CollectProblem, apiVars
  <1>7. ASSUME NEW w \in Workers, NEW e \in Envs, NcletReconciles(w, e) PROVE \A f \in Envs : LifeStep(f)
    BY <1>7, NcletLives
  <1>8. ASSUME NEW w \in Workers, NEW e \in Envs, CrashNclet(w, e) \/ Containers(w, e)
        PROVE  \A f \in Envs : LifeStep(f)
    BY <1>8, NoLife DEF CrashNclet, CrashWhileDeploying, Containers, ContainersComeUp,
                        ContainerFails, apiVars
  <1>9. CASE UNCHANGED vars
    BY <1>9, NoLife DEF vars, apiVars, gatewayVars
  <1>10. QED
    BY <1>1, <1>2, <1>3, <1>4, <1>5, <1>6, <1>7, <1>8, <1>9 DEF Next

\* The types and the coherence of the caches are invariant.
LEMMA Coherent == Spec => [](TypeOK /\ CacheCoherent)
  BY InitTypes, NextTypes, InitCoherent, NextCoherent, PTL DEF Spec

\* The initial state is the beginning of every environment's life.
LEMMA InitLives == Init => \A e \in Envs : Life(e)!LifeInit
  BY DEF Init, APIInit, GatewayInit, Life!LifeInit, Life!Blank, Blank

\* The system implements Lifecycle for each environment, however many environments
\* and Workers there are: caches that lag, writes that are refused, restarts and
\* crashes of programs add nothing to what happens to an environment.
THEOREM Implements == Spec => ImplementsLifecycle
  <1>1. TypeOK /\ CacheCoherent /\ [Next]_vars =>
            [\A e \in Envs : [Life(e)!LifeNext]_(Life(e)!lifeVars)]_vars
    BY NextLives DEF LifeStep
  <1>2. QED
    BY <1>1, InitLives, Coherent, PTL DEF Spec, ImplementsLifecycle

-----------------------------------------------------------------------------
(***************************************************************************)
(* What holds of every life.                                               *)
(***************************************************************************)

\* HandOutInv of one environment, apart from types and caches.
Ordered(o) ==
    /\ IsTrue(o.ready) \/ IsTrue(o.assigned) \/ o.containers # "nil" => IsTrue(o.deployed)
    /\ IsTrue(o.deployed) => IsTrue(o.scheduled)
    /\ IsTrue(o.deployed) /\ o.life = "live" => HasFinalizer(o)
    /\ IsTrue(o.scheduled) => o.worker # NoWorker /\ o.password # NoPassword
    /\ o.assigned # "Unknown" => IsTrue(o.scheduled)

Held(e) ==
    /\ pe[e].life = "unborn" => pe[e] = Blank("unborn") /\ holders[e] = 0
    /\ holders[e] <= 1
    /\ holders[e] = 1 /\ Exists(pe[e]) =>
           IsTrue(pe[e].assigned) /\ pe[e].password = issued[e] /\ issued[e] # NoPassword

\* A blank object has no condition, so nothing to build on.
LEMMA BlankOrdered ==
    ASSUME NEW life
    PROVE  Ordered(Blank(life))
  BY DEF Ordered, Blank, IsTrue, ConditionStatus, ReasonsOfTrue

\* A deletion keeps the conditions, or removes the object.
LEMMA DeleteOrdered ==
    ASSUME NEW o \in ProblemEnvironment, NEW foreground \in BOOLEAN, Ordered(o)
    PROVE  Ordered(AfterDelete(o, foreground))
  <1>1. CASE AfterDelete(o, foreground) = o \/ AfterDelete(o, foreground) = Blank("gone")
    BY <1>1, BlankOrdered
  <1>2. ASSUME NEW fins, Exists(o)
        PROVE  Ordered([o EXCEPT !.life = "terminating", !.finalizers = fins])
    BY <1>2 DEF Ordered, ProblemEnvironment
  <1>3. QED
    BY <1>1, <1>2 DEF AfterDelete, Settle

\* Conditions stay ordered along a life.
LEMMA OrderedKept ==
    ASSUME NEW e, pe[e] \in ProblemEnvironment, Ordered(pe[e]), LifeStep(e)
    PROVE  Ordered(pe'[e])
  <1> DEFINE o == pe[e]
             n == pe'[e]
  <1> USE DEF Ordered, ProblemEnvironment
  <1>1. CASE UNCHANGED Life(e)!lifeVars
    BY <1>1 DEF Life!lifeVars
  <1>2. CASE Life(e)!Create
    <2>1. n = Blank("live")
      BY <1>2 DEF Life!Create, Life!Blank, Blank
    <2>2. QED
      BY <2>1, BlankOrdered
  <1>3. CASE Life(e)!Delete
    <2>1. \E foreground \in BOOLEAN : n = AfterDelete(o, foreground)
      BY <1>3 DEF Life!Delete, Life!AfterDelete, Life!Settle, Life!Blank, Life!Exists,
                  AfterDelete, Settle, Blank, Exists
    <2>2. QED
      BY <2>1, DeleteOrdered
  <1>4. CASE Life(e)!Finish
    <2>1. n = Blank("gone") \/ (o.life = "terminating" /\ \E fins : n = [o EXCEPT !.finalizers = fins])
      BY <1>4 DEF Life!Finish, Life!Settle, Life!Blank, Blank
    <2>2. QED
      BY <2>1, BlankOrdered
  <1> USE DEF IsTrue, ConditionStatus, ReasonsOfTrue, HasFinalizer, Life!IsTrue, Life!ConditionStatus,
              Life!ReasonsOfTrue, Life!HasFinalizer, Life!Unscheduled, Life!Served
  <1>5. CASE Life(e)!Bind
    BY <1>5, NoWorkerAssumption DEF Life!Bind
  <1>6. CASE Life(e)!FailToSchedule
    BY <1>6 DEF Life!FailToSchedule
  <1>7. CASE Life(e)!Confirm
    BY <1>7, NoPasswordAssumption DEF Life!Confirm
  <1>8. CASE Life(e)!Judge
    BY <1>8 DEF Life!Judge
  <1>9. CASE Life(e)!TakeOver
    BY <1>9 DEF Life!TakeOver
  <1>10. CASE Life(e)!Report
    BY <1>10 DEF Life!Report
  <1>11. CASE Life(e)!FailToDestroy
    BY <1>11 DEF Life!FailToDestroy
  <1>12. CASE Life(e)!Assign
    BY <1>12 DEF Life!Assign
  <1>13. CASE Life(e)!Unassign
    BY <1>13 DEF Life!Unassign
  <1>14. QED
    BY <1>1, <1>2, <1>3, <1>4, <1>5, <1>6, <1>7, <1>8, <1>9, <1>10, <1>11, <1>12, <1>13
       DEF LifeStep, Life!LifeNext

\* Whoever holds an environment keeps it until it is unassigned or gone.
LEMMA HeldKept ==
    ASSUME NEW e, pe[e] \in ProblemEnvironment, holders[e] \in Nat, Ordered(pe[e]), Held(e),
           LifeStep(e)
    PROVE  Held(e)'
  <1> DEFINE o == pe[e]
             n == pe'[e]
  <1> USE DEF Held, ProblemEnvironment, Exists
  <1>1. CASE UNCHANGED Life(e)!lifeVars
    BY <1>1 DEF Life!lifeVars
  <1>2. CASE Life(e)!Create
    BY <1>2 DEF Life!Create, Life!Blank
  <1>3. CASE Life(e)!Delete \/ Life(e)!Finish
    <2>1. holders'[e] = holders[e] /\ issued'[e] = issued[e] /\ Exists(o)
      BY <1>3 DEF Life!Delete, Life!Finish, Life!Exists
    <2>2. \/ n.life = "gone"
          \/ n.life = "terminating" /\ n.assigned = o.assigned /\ n.password = o.password
      <3>1. CASE Life(e)!Delete
        BY <3>1 DEF Life!Delete, Life!AfterDelete, Life!Settle, Life!Blank, Life!Exists
      <3>2. CASE Life(e)!Finish
        BY <3>2 DEF Life!Finish, Life!Settle, Life!Blank
      <3>3. QED
        BY <1>3, <3>1, <3>2
    <2>3. QED
      BY <2>1, <2>2
  <1> USE DEF IsTrue, ConditionStatus, ReasonsOfTrue, HasFinalizer, Life!IsTrue, Life!ConditionStatus,
              Life!ReasonsOfTrue, Life!HasFinalizer, Life!Unscheduled, Life!Served, Life!Exists
  <1>4. CASE Life(e)!Bind \/ Life(e)!FailToSchedule
    BY <1>4 DEF Life!Bind, Life!FailToSchedule
  <1>5. CASE Life(e)!Confirm
    BY <1>5 DEF Life!Confirm, Ordered
  <1>6. CASE Life(e)!Judge \/ Life(e)!TakeOver \/ Life(e)!FailToDestroy
    BY <1>6 DEF Life!Judge, Life!TakeOver, Life!FailToDestroy
  <1>7. CASE Life(e)!Report
    BY <1>7 DEF Life!Report
  <1>8. CASE Life(e)!Assign
    <2>1. holders[e] = 0
      BY <1>8 DEF Life!Assign
    <2>2. o.password # NoPassword
      BY <1>8 DEF Life!Assign, Ordered
    <2>3. QED
      BY <1>8, <2>1, <2>2 DEF Life!Assign
  <1>9. CASE Life(e)!Unassign
    BY <1>9 DEF Life!Unassign
  <1>10. QED
    BY <1>1, <1>2, <1>3, <1>4, <1>5, <1>6, <1>7, <1>8, <1>9 DEF LifeStep, Life!LifeNext

\* HandOutInv, environment by environment.
LEMMA HandOutPerEnv ==
    HandOutInv <=> /\ TypeOK /\ CacheCoherent
                   /\ \A e \in Envs : Ordered(pe[e]) /\ Held(e)
  BY DEF HandOutInv, ConditionsOrdered, AssignedAfterScheduled, UnbornUntouched, OneHolder, Ordered, Held

\* The inductive invariant behind OneHolder.
THEOREM HandOutInvariant == Spec => []HandOutInv
  <1>1. Init => HandOutInv
    <2>1. ASSUME Init, NEW e \in Envs PROVE Ordered(pe[e]) /\ Held(e)
      <3>1. pe[e] = Blank("unborn") /\ holders[e] = 0
        BY <2>1 DEF Init, APIInit, GatewayInit
      <3>2. Ordered(pe[e])
        BY <3>1, BlankOrdered
      <3>3. QED
        BY <3>1, <3>2 DEF Held, Exists, Blank
    <2>2. QED
      BY <2>1, HandOutPerEnv, InitTypes, InitCoherent
  <1>2. HandOutInv /\ [Next]_vars => HandOutInv'
    <2> SUFFICES ASSUME HandOutInv, [Next]_vars PROVE HandOutInv'
      OBVIOUS
    <2>1. TypeOK /\ CacheCoherent /\ \A e \in Envs : Ordered(pe[e]) /\ Held(e)
      BY HandOutPerEnv
    <2>2. TypeOK' /\ CacheCoherent' /\ \A e \in Envs : LifeStep(e)
      BY <2>1, NextTypes, NextCoherent, NextLives
    <2>3. ASSUME NEW e \in Envs PROVE Ordered(pe'[e]) /\ Held(e)'
      <3>1. pe[e] \in ProblemEnvironment /\ holders[e] \in Nat
        BY <2>1 DEF TypeOK, APITypeOK, GatewayTypeOK
      <3>2. QED
        BY <2>1, <2>2, <3>1, OrderedKept, HeldKept
    <2>4. (\A e \in Envs : Ordered(pe[e]) /\ Held(e))'
      BY <2>3
    <2>5. QED
      BY <2>2, <2>4 DEF HandOutInv, ConditionsOrdered, AssignedAfterScheduled, UnbornUntouched,
                        OneHolder, Ordered, Held
  <1>3. QED
    BY <1>1, <1>2, PTL DEF Spec

\* No two requests ever hold one environment, and the credentials of the holder
\* stay valid: for any number of environments, Workers, users and restarts.
THEOREM OneHolderAlways == Spec => []OneHolder
  <1>1. HandOutInv => OneHolder
    BY DEF HandOutInv
  <1>2. QED
    BY <1>1, HandOutInvariant, PTL

\* The conditions of every environment build on each other in every state.
THEOREM ConditionsAlwaysOrdered == Spec => []ConditionsOrdered
  <1>1. HandOutInv => ConditionsOrdered
    BY DEF HandOutInv
  <1>2. QED
    BY <1>1, HandOutInvariant, PTL

\* A life does not take back the scheduling of an environment, only the environment.
LEMMA ScheduledKept ==
    ASSUME NEW e, pe[e] \in ProblemEnvironment, Held(e), LifeStep(e),
           IsTrue(pe[e].scheduled), Exists(pe'[e])
    PROVE  /\ IsTrue(pe'[e].scheduled)
           /\ pe'[e].worker = pe[e].worker
           /\ pe'[e].password = pe[e].password
  <1> DEFINE o == pe[e]
             n == pe'[e]
  <1> USE DEF ProblemEnvironment, Exists, IsTrue, ConditionStatus, ReasonsOfTrue, Life!IsTrue,
              Life!ConditionStatus, Life!ReasonsOfTrue
  <1>1. CASE UNCHANGED Life(e)!lifeVars
    BY <1>1 DEF Life!lifeVars
  <1>2. CASE Life(e)!Delete
    BY <1>2 DEF Life!Delete, Life!AfterDelete, Life!Settle, Life!Blank, Life!Exists
  <1>3. CASE Life(e)!Finish
    BY <1>3 DEF Life!Finish, Life!Settle, Life!Blank
  <1>4. CASE Life(e)!Bind \/ Life(e)!FailToSchedule \/ Life(e)!Confirm
    BY <1>4 DEF Life!Bind, Life!FailToSchedule, Life!Confirm, Life!Unscheduled
  <1>5. CASE Life(e)!Judge \/ Life(e)!TakeOver \/ Life(e)!FailToDestroy
    BY <1>5 DEF Life!Judge, Life!TakeOver, Life!FailToDestroy
  <1>6. CASE Life(e)!Report
    BY <1>6 DEF Life!Report
  <1>7. CASE Life(e)!Assign \/ Life(e)!Unassign
    BY <1>7 DEF Life!Assign, Life!Unassign
  <1>8. CASE Life(e)!Create
    BY <1>8 DEF Life!Create, Held, Blank
  <1>9. QED
    BY <1>1, <1>2, <1>3, <1>4, <1>5, <1>6, <1>7, <1>8 DEF LifeStep, Life!LifeNext

\* Scheduling is final: of all the writers, none ever takes a Worker or a password
\* from an environment that has them, whatever it had read of it.
THEOREM SchedulingAlwaysFinal == Spec => SchedulingIsFinal
  <1>1. HandOutInv /\ [Next]_vars =>
            [\A e \in Envs :
                IsTrue(pe[e].scheduled) /\ Exists(pe'[e]) =>
                    /\ IsTrue(pe'[e].scheduled)
                    /\ pe'[e].worker = pe[e].worker
                    /\ pe'[e].password = pe[e].password]_vars
    <2> SUFFICES ASSUME HandOutInv, [Next]_vars, NEW e \in Envs,
                        IsTrue(pe[e].scheduled), Exists(pe'[e])
                 PROVE  /\ IsTrue(pe'[e].scheduled)
                        /\ pe'[e].worker = pe[e].worker
                        /\ pe'[e].password = pe[e].password
      OBVIOUS
    <2>1. TypeOK /\ CacheCoherent /\ Held(e)
      BY HandOutPerEnv
    <2>2. LifeStep(e) /\ pe[e] \in ProblemEnvironment
      BY <2>1, NextLives DEF TypeOK, APITypeOK
    <2>3. QED
      BY <2>1, <2>2, ScheduledKept
  <1>2. QED
    BY <1>1, HandOutInvariant, PTL DEF Spec, SchedulingIsFinal

=============================================================================
