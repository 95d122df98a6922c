----------------------------- MODULE NetconProofs -----------------------------
(***************************************************************************)
(* Proofs about Netcon, for any sets of environments, Workers, passwords,  *)
(* clients and events: its types, what its steps write, and which of them  *)
(* may leave an object that no controller will come back to.               *)
(***************************************************************************)
EXTENDS Netcon, FiniteSetTheorems, TLAPS

-----------------------------------------------------------------------------
(***************************************************************************)
(* Types of the operators that build objects.                              *)
(***************************************************************************)

\* A blank object of any life is a ProblemEnvironment.
LEMMA BlankType ==
    ASSUME NEW life \in {"unborn", "live", "terminating", "gone"}
    PROVE  Blank(life) \in ProblemEnvironment
  BY DEF Blank, ProblemEnvironment, ScheduledConditions, DeployedConditions, ReadyConditions,
         AssignedConditions, ContainerStatuses, Finalizers

\* Settle returns a ProblemEnvironment.
LEMMA SettleType ==
    ASSUME NEW o \in ProblemEnvironment
    PROVE  Settle(o) \in ProblemEnvironment
  BY BlankType DEF Settle

\* Update and Status().Update store ProblemEnvironments.
LEMMA SpecType ==
    ASSUME NEW old \in ProblemEnvironment, NEW new \in ProblemEnvironment
    PROVE  SpecOf(old, new) \in ProblemEnvironment
  <1>1. [old EXCEPT !.finalizers = new.finalizers, !.worker = new.worker] \in ProblemEnvironment
    BY DEF ProblemEnvironment
  <1>2. QED
    BY <1>1, SettleType DEF SpecOf

\* StatusOf builds an environment from two.
LEMMA StatusType ==
    ASSUME NEW old \in ProblemEnvironment, NEW new \in ProblemEnvironment
    PROVE  StatusOf(old, new) \in ProblemEnvironment
  BY DEF StatusOf, ProblemEnvironment

\* Delete leaves a ProblemEnvironment.
LEMMA DeleteType ==
    ASSUME NEW o \in ProblemEnvironment, NEW foreground \in BOOLEAN
    PROVE  AfterDelete(o, foreground) \in ProblemEnvironment
  <1> DEFINE marked == IF foreground THEN o.finalizers \cup {"foreground"} ELSE o.finalizers
  <1>1. [o EXCEPT !.life = "terminating", !.finalizers = marked] \in ProblemEnvironment
    BY DEF ProblemEnvironment, Finalizers
  <1>2. QED
    BY <1>1, SettleType DEF AfterDelete

\* What a client has cached of an environment is a ProblemEnvironment.
LEMMA CachedType ==
    ASSUME APITypeOK, NEW p \in Processes, NEW e \in Envs
    PROVE  cache[p][e] \in ProblemEnvironment
  BY DEF APITypeOK

\* Storing typed objects keeps pe and fresh typed.
LEMMA StoreType ==
    ASSUME APITypeOK, NEW new \in [Envs -> ProblemEnvironment], Store(new)
    PROVE  pe' \in [Envs -> ProblemEnvironment] /\ fresh' \subseteq Processes \X Envs
  BY DEF APITypeOK, Store

\* The queue stays typed when a reconciler returns.
LEMMA DoneType ==
    ASSUME APITypeOK, NEW p, NEW e, Done(p, e) \/ Requeue
    PROVE  queue' \subseteq Controllers \X Keys
  BY DEF APITypeOK, Done, Requeue

\* r.update stores an environment and takes at most its key from the queue.
LEMMA UpdateTypes ==
    ASSUME APITypeOK, NEW p, NEW e \in Envs, NEW new \in ProblemEnvironment,
           Update(p, e, new), UNCHANGED cache
    PROVE  APITypeOK'
  <1>1. pe[e] \in ProblemEnvironment
    BY DEF APITypeOK
  <1>2. SpecOf(pe[e], new) \in ProblemEnvironment
    BY <1>1, SpecType
  <1>3. [pe EXCEPT ![e] = SpecOf(pe[e], new)] \in [Envs -> ProblemEnvironment]
    BY <1>2 DEF APITypeOK
  <1>4. Done(p, e) \/ Requeue
    BY DEF Update
  <1>5. pe' \in [Envs -> ProblemEnvironment] /\ fresh' \subseteq Processes \X Envs
    BY <1>3, StoreType DEF Update, APITypeOK
  <1>6. QED
    BY <1>4, <1>5, DoneType DEF APITypeOK

\* r.updateStatus likewise.
LEMMA UpdateStatusTypes ==
    ASSUME APITypeOK, NEW p, NEW e \in Envs, NEW new \in ProblemEnvironment, NEW again,
           UpdateStatus(p, e, new, again), UNCHANGED cache
    PROVE  APITypeOK'
  <1>1. pe[e] \in ProblemEnvironment
    BY DEF APITypeOK
  <1>2. StatusOf(pe[e], new) \in ProblemEnvironment
    BY <1>1, StatusType
  <1>3. [pe EXCEPT ![e] = StatusOf(pe[e], new)] \in [Envs -> ProblemEnvironment]
    BY <1>2 DEF APITypeOK
  <1>4. Done(p, e) \/ Requeue
    BY DEF UpdateStatus
  <1>5. pe' \in [Envs -> ProblemEnvironment] /\ fresh' \subseteq Processes \X Envs
    BY <1>3, StoreType DEF UpdateStatus, APITypeOK
  <1>6. QED
    BY <1>4, <1>5, DoneType DEF APITypeOK

-----------------------------------------------------------------------------
(***************************************************************************)
(* Type correctness, component by component.                               *)
(***************************************************************************)

\* The processes that the code names take part.
LEMMA ProcessNames ==
    /\ "manager" \in Processes /\ "manager" \in Controllers
    /\ Workers \subseteq Processes /\ Workers \subseteq Controllers
    /\ Clients \subseteq Processes
    /\ Controllers \subseteq Processes
  BY DEF Processes, Controllers

\* A watch event and a restart replace a cache by what is stored.
LEMMA WatchTypes ==
    ASSUME APITypeOK, NEW p \in Processes, Observe(p) \/ Restart(p)
    PROVE  APITypeOK'
  <1>1. cache' = [cache EXCEPT ![p] = pe] /\ fresh' = fresh \cup ({p} \X Envs) /\ UNCHANGED pe
    BY DEF Observe, Restart, Restarted
  <1>2. EventKeys(p) \subseteq Controllers \X Keys
    BY DEF EventKeys, Keys
  <1>3. queue' \subseteq Controllers \X Keys
    BY <1>2 DEF Observe, Restart, Restarted, APITypeOK, Keys
  <1>4. QED
    BY <1>1, <1>3 DEF APITypeOK

\* The restart of a crashed nclet.
LEMMA RestartedTypes ==
    ASSUME APITypeOK, NEW p \in Processes, Restarted(p), UNCHANGED pe
    PROVE  APITypeOK'
  <1>1. queue' \subseteq Controllers \X Keys
    BY DEF Restarted, APITypeOK, Keys
  <1>2. QED
    BY <1>1 DEF APITypeOK, Restarted

\* A Delete, a collection or an assignment of one environment.
LEMMA StoreOneTypes ==
    ASSUME APITypeOK, NEW e \in Envs, NEW o \in ProblemEnvironment,
           Store([pe EXCEPT ![e] = o]), UNCHANGED <<cache, queue>>
    PROVE  APITypeOK'
  <1>1. [pe EXCEPT ![e] = o] \in [Envs -> ProblemEnvironment]
    BY DEF APITypeOK
  <1>2. QED
    BY <1>1, StoreType DEF APITypeOK

\* The garbage collector stores environments.
LEMMA GarbageTypes ==
    ASSUME APITypeOK, NEW e \in Envs, FinishForegroundDeletion(e) \/ CollectChild(e)
    PROVE  APITypeOK'
  <1>1. pe[e] \in ProblemEnvironment
    BY DEF APITypeOK
  <1>2. CASE FinishForegroundDeletion(e)
    <2> DEFINE o == [pe[e] EXCEPT !.finalizers = pe[e].finalizers \ {"foreground"}]
    <2>1. o \in ProblemEnvironment
      BY <1>1 DEF ProblemEnvironment
    <2>2. Settle(o) \in ProblemEnvironment
      BY <2>1, SettleType
    <2>3. Store([pe EXCEPT ![e] = Settle(o)]) /\ UNCHANGED <<cache, queue>>
      BY <1>2 DEF FinishForegroundDeletion
    <2> HIDE DEF o
    <2>4. QED
      BY <2>2, <2>3, StoreOneTypes
  <1>3. CASE CollectChild(e)
    BY <1>1, <1>3, DeleteType, StoreOneTypes DEF CollectChild
  <1>4. QED
    BY <1>2, <1>3

\* What the manager writes of an environment it has read.
LEMMA ManagerTypes ==
    ASSUME APITypeOK, WorkerTypeOK, NEW e \in Envs, EnvironmentControllerStep(e)
    PROVE  APITypeOK'
  <1>1. Seen(e) \in ProblemEnvironment
    BY CachedType, ProcessNames DEF Seen
  <1>2. CASE ManagerIgnore(e)
    BY <1>2, DoneType DEF ManagerIgnore, APITypeOK
  <1>3. CASE Schedule(e)
    <2>1. [Seen(e) EXCEPT !.scheduled = "WorkersUnlisted"] \in ProblemEnvironment
      BY <1>1 DEF ProblemEnvironment, ScheduledConditions
    <2>2. [Seen(e) EXCEPT !.scheduled = "ScheduleFailed"] \in ProblemEnvironment
      BY <1>1 DEF ProblemEnvironment, ScheduledConditions
    <2>3. \A w \in Workers : [Seen(e) EXCEPT !.worker = w] \in ProblemEnvironment
      BY <1>1 DEF ProblemEnvironment
    <2>4. \A w \in ElectWorker(workerCache) : w # NoWorker => w \in Workers
      BY DEF ElectWorker, Candidates
    <2>5. UNCHANGED cache
      BY <1>3 DEF Schedule
    <2>6. CASE UpdateStatus("manager", e, [Seen(e) EXCEPT !.scheduled = "WorkersUnlisted"], TRUE)
      BY <2>1, <2>5, <2>6, UpdateStatusTypes
    <2>7. CASE UpdateStatus("manager", e, [Seen(e) EXCEPT !.scheduled = "ScheduleFailed"], TRUE)
      BY <2>2, <2>5, <2>7, UpdateStatusTypes
    <2>8. ASSUME NEW w \in Workers, Update("manager", e, [Seen(e) EXCEPT !.worker = w])
          PROVE  APITypeOK'
      BY <2>3, <2>5, <2>8, UpdateTypes
    <2>9. QED
      BY <1>3, <2>4, <2>6, <2>7, <2>8 DEF Schedule
  <1>4. CASE ConfirmSchedule(e)
    <2>1. \A password \in Passwords : Confirmed(Seen(e), password) \in ProblemEnvironment
      BY <1>1 DEF Confirmed, ProblemEnvironment, ScheduledConditions, DeployedConditions,
                  ReadyConditions, AssignedConditions
    <2>2. [Seen(e) EXCEPT !.scheduled = "WorkersMissing"] \in ProblemEnvironment
      BY <1>1 DEF ProblemEnvironment, ScheduledConditions
    <2>3. QED
      BY <1>4, <2>1, <2>2, UpdateStatusTypes DEF ConfirmSchedule
  <1>5. CASE CheckStatus(e)
    <2>1. \A reason \in {"NotChecked", "NotReady", "Ready"} :
             [Seen(e) EXCEPT !.ready = reason] \in ProblemEnvironment
      BY <1>1 DEF ProblemEnvironment, ReadyConditions
    <2>2. Seen(e).containers \in {"nil", "notReady", "ready"}
      BY <1>1 DEF ProblemEnvironment, ContainerStatuses
    <2>3. \/ \E reason \in {"NotChecked", "NotReady", "Ready"} :
                UpdateStatus("manager", e, [Seen(e) EXCEPT !.ready = reason], FALSE)
          \/ Done("manager", e) /\ UNCHANGED <<pe, fresh>>
      BY <1>5, <2>2 DEF CheckStatus
    <2>4. UNCHANGED cache
      BY <1>5 DEF CheckStatus
    <2>5. QED
      BY <2>1, <2>3, <2>4, UpdateStatusTypes, DoneType DEF APITypeOK
  <1>6. QED
    BY <1>2, <1>3, <1>4, <1>5 DEF EnvironmentControllerStep

\* The counts of the children are numbers, because there are finitely many.
LEMMA ChildrenFinite ==
    ASSUME NEW S, S \subseteq Children
    PROVE  IsFiniteSet(S) /\ Cardinality(S) \in Nat
  <1>1. S \subseteq Envs
    BY DEF Children
  <1>2. QED
    BY <1>1, EnvsFinite, FS_Subset, FS_CardinalityType

\* The status counts of a Problem are counts.
LEMMA CountType == CountReplicas \in Replicas
  <1>1. Cardinality(Children) \in Nat
    BY ChildrenFinite
  <1>2. Cardinality(ChildrenThat(LAMBDA o : IsTrue(o.scheduled))) \in Nat
    BY ChildrenFinite DEF ChildrenThat
  <1>3. Cardinality(ChildrenThat(LAMBDA o : IsTrue(o.ready) /\ ~IsTrue(o.assigned))) \in Nat
    BY ChildrenFinite DEF ChildrenThat
  <1>4. Cardinality(ChildrenThat(LAMBDA o : IsTrue(o.ready) /\ IsTrue(o.assigned))) \in Nat
    BY ChildrenFinite DEF ChildrenThat
  <1>5. QED
    BY <1>1, <1>2, <1>3, <1>4 DEF CountReplicas, Replicas

\* A reconciliation of the Problem ends with a status update, refused or not, or
\* with its key in or out of the queue.
LEMMA UpdateProblemStatusTypes ==
    ASSUME APITypeOK, ProblemTypeOK, UpdateProblemStatus \/ ListFails
    PROVE  /\ queue' \subseteq Controllers \X Keys
           /\ problem' \in Problem
           /\ problemFresh' \in BOOLEAN
  <1>1. Done("manager", "problem") \/ Requeue
    BY DEF UpdateProblemStatus, ListFails
  <1>2. problem' \in Problem /\ problemFresh' \in BOOLEAN
    BY CountType DEF UpdateProblemStatus, ListFails, ProblemTypeOK, Problem
  <1>3. QED
    BY <1>1, <1>2, DoneType

\* One run of the ProblemReconciler keeps the types.
LEMMA ReconcileProblemTypes ==
    ASSUME APITypeOK, ProblemTypeOK, ReconcileProblem
    PROVE  APITypeOK' /\ ProblemTypeOK'
  <1>1. UNCHANGED <<cache, problemCache>>
    BY DEF ReconcileProblem
  <1> DEFINE Rest == /\ queue' \subseteq Controllers \X Keys
                     /\ problem' \in Problem
                     /\ problemFresh' \in BOOLEAN
             Stored == pe' \in [Envs -> ProblemEnvironment] /\ fresh' \subseteq Processes \X Envs
             after(S) == [e \in Envs |-> IF e \in S THEN AfterDelete(pe[e], FALSE) ELSE pe[e]]
  <1> SUFFICES Stored /\ Rest
    BY <1>1 DEF APITypeOK, ProblemTypeOK
  <1>2. CASE UNCHANGED <<pe, fresh>> /\ (UpdateProblemStatus \/ ListFails)
    BY <1>2, UpdateProblemStatusTypes DEF APITypeOK
  <1>3. CASE UNCHANGED <<pe, fresh, problem, problemFresh>> /\ Done("manager", "problem")
    BY <1>3, DoneType DEF APITypeOK, ProblemTypeOK
  <1>4. CASE CreateEnvironment
    <2>1. PICK e \in Envs : Store([pe EXCEPT ![e] = Blank("live")]) /\ UpdateProblemStatus
      BY <1>4 DEF CreateEnvironment
    <2>2. [pe EXCEPT ![e] = Blank("live")] \in [Envs -> ProblemEnvironment]
      BY BlankType DEF APITypeOK
    <2>3. QED
      BY <2>1, <2>2, StoreType, UpdateProblemStatusTypes
  <1>5. ASSUME NEW surplus, DeleteSurplus(surplus)
        PROVE  Stored /\ Rest
    <2>1. ASSUME NEW S PROVE after(S) \in [Envs -> ProblemEnvironment]
      BY DeleteType DEF APITypeOK
    <2>2. \/ (\E S : Store(after(S))) /\ UpdateProblemStatus
          \/ (\E S : Store(after(S))) /\ UNCHANGED <<problem, problemFresh>> /\ Requeue
      BY <1>5 DEF DeleteSurplus
    <2> HIDE DEF after
    <2>3. Stored
      BY <2>1, <2>2, StoreType
    <2>4. Rest
      BY <2>2, UpdateProblemStatusTypes, DoneType DEF ProblemTypeOK
    <2>5. QED
      BY <2>3, <2>4
  <1>6. \/ UNCHANGED <<pe, fresh>> /\ (UpdateProblemStatus \/ ListFails)
        \/ UNCHANGED <<pe, fresh, problem, problemFresh>> /\ Done("manager", "problem")
        \/ CreateEnvironment
        \/ \E surplus : DeleteSurplus(surplus)
    BY DEF ReconcileProblem
  <1> HIDE DEF Stored, Rest
  <1>7. QED
    BY <1>2, <1>3, <1>4, <1>5, <1>6

\* The other writers of the Problem, and its watch, keep the types.
LEMMA ProblemTypes ==
    ASSUME APITypeOK, ProblemTypeOK,
           ObserveProblem \/ ScaleProblem \/ DeleteProblem \/ CollectProblem
    PROVE  APITypeOK' /\ ProblemTypeOK'
  <1>1. ProblemTypeOK'
    <2>1. CASE ObserveProblem
      <3>1. View(problem) \in [life : ProblemLives, desired : 0..MaxReplicas]
        BY DEF ProblemTypeOK, Problem, View
      <3>2. QED
        BY <2>1, <3>1 DEF ObserveProblem, ProblemTypeOK
    <2>2. CASE ScaleProblem
      BY <2>2 DEF ScaleProblem, ProblemTypeOK, Problem
    <2>3. CASE DeleteProblem \/ CollectProblem
      <3>1. \E life \in ProblemLives : problem' = [problem EXCEPT !.life = life]
        BY <2>3 DEF DeleteProblem, CollectProblem, ProblemLives
      <3>2. problem' \in Problem
        BY <3>1 DEF ProblemTypeOK, Problem
      <3>3. problemFresh' \in BOOLEAN /\ UNCHANGED problemCache
        BY <2>3 DEF DeleteProblem, CollectProblem
      <3>4. QED
        BY <3>2, <3>3 DEF ProblemTypeOK
    <2>4. QED
      BY <2>1, <2>2, <2>3
  <1>2. APITypeOK'
    <2>1. CASE UNCHANGED apiVars
      BY <2>1 DEF APITypeOK, apiVars
    <2>2. CASE ObserveProblem
      <3>1. <<"manager", "problem">> \in Controllers \X Keys
        BY DEF Controllers, Keys
      <3>2. QED
        BY <2>2, <3>1 DEF ObserveProblem, APITypeOK
    <2>3. QED
      BY <2>1, <2>2 DEF ScaleProblem, DeleteProblem, CollectProblem
  <1>3. QED
    BY <1>1, <1>2

\* The Workers and the cached Workers keep their type.
LEMMA WorkerTypes ==
    ASSUME WorkerTypeOK, ObserveWorkers \/ \E w \in Workers : WorkerStep(w)
    PROVE  WorkerTypeOK'
  <1>1. CASE ObserveWorkers
    BY <1>1 DEF ObserveWorkers, WorkerTypeOK
  <1>2. ASSUME NEW w \in Workers, WorkerStep(w)
        PROVE  WorkerTypeOK'
    <2>1. worker[w] \in Worker
      BY DEF WorkerTypeOK
    <2>2. NoSuchWorker \in Worker /\ [NoSuchWorker EXCEPT !.exists = TRUE] \in Worker
      BY DEF NoSuchWorker, Worker
    <2>3. /\ \A m \in MemoryLevels : [worker[w] EXCEPT !.memory = m] \in Worker
          /\ [worker[w] EXCEPT !.ready = ~@] \in Worker
          /\ [worker[w] EXCEPT !.disabled = ~@] \in Worker
      BY <2>1 DEF Worker
    <2>4. \E new \in Worker : ChangeWorker(w, new)
      BY <1>2, <2>2, <2>3 DEF WorkerStep, RegisterWorker, ReportStatus, MonitorWorkerHealth,
                              SetDisableSchedule, DeleteWorker
    <2>5. QED
      BY <2>4 DEF ChangeWorker, WorkerTypeOK
  <1>3. QED
    BY <1>1, <1>2

\* An object whose assigned condition alone was replaced is a ProblemEnvironment.
LEMMA AssignedType ==
    ASSUME NEW o \in ProblemEnvironment, NEW reason \in AssignedConditions
    PROVE  [o EXCEPT !.assigned = reason] \in ProblemEnvironment
  BY DEF ProblemEnvironment

\* Handing an environment out keeps the record of the holders typed.
LEMMA HandOutTypes ==
    ASSUME GatewayTypeOK, NEW e \in Envs, NEW o \in ProblemEnvironment, HandOut(e, o)
    PROVE  GatewayTypeOK'
  <1>1. o.password \in Passwords \cup {NoPassword}
    BY DEF ProblemEnvironment
  <1>2. QED
    BY <1>1 DEF HandOut, GatewayTypeOK

\* The gateway keeps the types.
LEMMA GatewayTypes ==
    ASSUME APITypeOK, GatewayTypeOK, NEW e \in Envs, GatewayStep(e)
    PROVE  APITypeOK' /\ GatewayTypeOK'
  <1> DEFINE selected == cache["gateway"][e]
  <1>1. pe[e] \in ProblemEnvironment
    BY DEF APITypeOK
  <1>2. selected \in ProblemEnvironment
    BY CachedType, ProcessNames DEF GatewayStep
  <1>3. CASE ReleaseProblemEnvironment(e)
    <2>1. APITypeOK'
      BY <1>1, <1>3, DeleteType, StoreOneTypes DEF ReleaseProblemEnvironment
    <2>2. QED
      BY <1>3, <2>1 DEF ReleaseProblemEnvironment, gatewayVars, GatewayTypeOK
  <1>4. CASE AcquireProblemEnvironment(e)
    <2> DEFINE new == StatusOf(pe[e], [selected EXCEPT !.assigned = "Assigned"])
    <2>1. new \in ProblemEnvironment
      BY <1>1, <1>2, AssignedType, StatusType DEF AssignedConditions
    <2>2. \/ Store([pe EXCEPT ![e] = new]) /\ (HandOut(e, selected) \/ UNCHANGED gatewayVars)
          \/ UNCHANGED <<pe, fresh, gatewayVars>>
      BY <1>4 DEF AcquireProblemEnvironment
    <2>3. UNCHANGED <<cache, queue>>
      BY <1>4 DEF AcquireProblemEnvironment
    <2> HIDE DEF new, selected
    <2>4. APITypeOK'
      BY <2>1, <2>2, <2>3, StoreOneTypes DEF APITypeOK
    <2>5. GatewayTypeOK'
      BY <1>2, <2>2, HandOutTypes DEF GatewayTypeOK, gatewayVars
    <2>6. QED
      BY <2>4, <2>5
  <1>5. QED
    BY <1>3, <1>4 DEF GatewayStep

\* The kubectl plugin keeps the types.
LEMMA KubectlTypes ==
    ASSUME APITypeOK, GatewayTypeOK, NEW e \in Envs, KubectlStep(e)
    PROVE  APITypeOK' /\ GatewayTypeOK'
  <1> DEFINE o == cache["kubectl"][e]
  <1>1. pe[e] \in ProblemEnvironment
    BY DEF APITypeOK
  <1>2. "kubectl" \in Processes
    BY ProcessNames DEF KubectlStep
  <1>3. o \in ProblemEnvironment
    BY <1>2, CachedType
  <1>4. ASSUME NEW x \in ProblemEnvironment
        PROVE  [cache EXCEPT !["kubectl"][e] = x] \in [Processes -> [Envs -> ProblemEnvironment]]
    BY <1>2 DEF APITypeOK
  <1>5. CASE KubectlGet(e)
    <2>1. GatewayTypeOK'
      BY <1>5 DEF KubectlGet, gatewayVars, GatewayTypeOK
    <2>2. cache' \in [Processes -> [Envs -> ProblemEnvironment]]
      <3>1. cache' = [cache EXCEPT !["kubectl"][e] = pe[e]]
        BY <1>5 DEF KubectlGet
      <3>2. QED
        BY <1>1, <1>4, <3>1
    <2>3. UNCHANGED <<pe, queue>> /\ fresh' \subseteq Processes \X Envs
      BY <1>2, <1>5 DEF KubectlGet, APITypeOK
    <2>4. QED
      BY <2>1, <2>2, <2>3 DEF APITypeOK
  <1>6. CASE KubectlDelete(e)
    <2>1. APITypeOK'
      BY <1>1, <1>6, DeleteType, StoreOneTypes DEF KubectlDelete
    <2>2. QED
      BY <1>6, <2>1 DEF KubectlDelete, gatewayVars, GatewayTypeOK
  <1>7. ASSUME NEW new \in [Envs -> ProblemEnvironment], KubectlEnd(e, new)
        PROVE  APITypeOK'
    <2>1. Blank("unborn") \in ProblemEnvironment
      BY BlankType
    <2>2. [cache EXCEPT !["kubectl"][e] = Blank("unborn")] \in [Processes -> [Envs -> ProblemEnvironment]]
      BY <1>4, <2>1
    <2>3. QED
      BY <1>7, <2>2 DEF KubectlEnd, APITypeOK
  <1>8. ASSUME NEW reason \in AssignedConditions
        PROVE  WithAssigned(e, reason) \in [Envs -> ProblemEnvironment]
    <2>1. StatusOf(pe[e], [o EXCEPT !.assigned = reason]) \in ProblemEnvironment
      BY <1>1, <1>3, AssignedType, StatusType
    <2>2. QED
      BY <2>1 DEF WithAssigned, APITypeOK
  <1>9. CASE KubectlAssign(e)
    <2>1. \/ KubectlEnd(e, WithAssigned(e, "AdminAssigned")) /\ HandOut(e, o)
          \/ KubectlEnd(e, pe) /\ UNCHANGED gatewayVars
      BY <1>9 DEF KubectlAssign
    <2>2. APITypeOK'
      BY <1>7, <1>8, <2>1 DEF APITypeOK, AssignedConditions
    <2>3. GatewayTypeOK'
      BY <1>3, <2>1, HandOutTypes DEF GatewayTypeOK, gatewayVars
    <2>4. QED
      BY <2>2, <2>3
  <1>10. CASE KubectlUnassign(e)
    <2>1. \/ /\ KubectlEnd(e, WithAssigned(e, "AdminUnassigned"))
             /\ holders' = [holders EXCEPT ![e] = 0] /\ UNCHANGED issued
          \/ KubectlEnd(e, pe) /\ UNCHANGED gatewayVars
      BY <1>10 DEF KubectlUnassign
    <2>2. APITypeOK'
      BY <1>7, <1>8, <2>1 DEF APITypeOK, AssignedConditions
    <2>3. GatewayTypeOK'
      BY <2>1 DEF GatewayTypeOK, gatewayVars
    <2>4. QED
      BY <2>2, <2>3
  <1>11. QED
    BY <1>5, <1>6, <1>9, <1>10 DEF KubectlStep

\* What the driver reports of a lab, and leaves of it, is typed.
LEMMA CheckType ==
    ASSUME NEW l \in Lab, NEW c \in Check(l)
    PROVE  c.containers \in Reported /\ c.status \in {"Init", "Deployed", "Error"}
  <1>1. l.directory \in {"none", "empty", "placed"} /\ l.containers \in {"down", "starting", "healthy"}
    BY DEF Lab
  <1>2. QED
    BY <1>1 DEF Check, Result, Reported

\* Deploy leaves a lab.
LEMMA DeployType ==
    ASSUME NEW l \in Lab
    PROVE  DeploySteps(l) \subseteq Lab /\ Deploy(l) \subseteq Lab
  BY DEF DeploySteps, Deploy, Lab

\* Destroy leaves a lab.
LEMMA DestroyType ==
    ASSUME NEW l \in Lab, NEW d \in Destroy(l)
    PROVE  d.lab \in Lab
  BY DEF Destroy, Lab

\* updateContainerStatus keeps the types.
LEMMA UpdateContainerStatusTypes ==
    ASSUME APITypeOK, NEW w, NEW e \in Envs, NEW o \in ProblemEnvironment, NEW reported \in Reported,
           UpdateContainerStatus(w, e, o, reported), UNCHANGED cache
    PROVE  APITypeOK'
  <1> DEFINE stored == IF reported = "empty" THEN "nil" ELSE reported
             new == [o EXCEPT !.containers = stored]
  <1>1. new \in ProblemEnvironment
    BY DEF ProblemEnvironment, ContainerStatuses, Reported
  <1>2. (UNCHANGED <<pe, fresh>> /\ Requeue) \/ UpdateStatus(w, e, new, TRUE)
    BY DEF UpdateContainerStatus
  <1> HIDE DEF new
  <1>3. QED
    BY <1>1, <1>2, UpdateStatusTypes DEF APITypeOK, Requeue

\* nclet keeps the types.
LEMMA NcletTypes ==
    ASSUME APITypeOK, NcletTypeOK, NEW w \in Workers, NEW e \in Envs,
           NcletStep(w, e) \/ CrashWhileDeploying(w, e)
    PROVE  APITypeOK' /\ NcletTypeOK'
  <1> DEFINE o == SeenBy(w, e)
  <1>1. o \in ProblemEnvironment
    BY CachedType, ProcessNames DEF SeenBy
  <1>2. lab[w][e] \in Lab
    BY DEF NcletTypeOK
  <1>3. ASSUME NEW l \in Lab, SetLab(w, e, l)
        PROVE  NcletTypeOK'
    BY <1>3 DEF SetLab, NcletTypeOK
  <1>4. CASE NcletIgnore(w, e)
    BY <1>4, DoneType DEF NcletIgnore, APITypeOK, NcletTypeOK
  <1>5. CASE AddFinalizer(w, e)
    <2>1. [o EXCEPT !.finalizers = @ \cup {"nclet"}] \in ProblemEnvironment
      BY <1>1 DEF ProblemEnvironment, Finalizers
    <2>2. APITypeOK'
      BY <1>5, <2>1, UpdateTypes DEF AddFinalizer
    <2>3. QED
      BY <1>5, <2>2 DEF AddFinalizer, NcletTypeOK
  <1>6. CASE DeployEnvironment(w, e)
    <2>1. \A reason \in {"Deployed", "DeployFailed"} : [o EXCEPT !.deployed = reason] \in ProblemEnvironment
      BY <1>1 DEF ProblemEnvironment, DeployedConditions
    <2>2. UNCHANGED cache
      BY <1>6 DEF DeployEnvironment
    <2>3. CASE \E l \in Deploy(lab[w][e]) :
                  /\ SetLab(w, e, l)
                  /\ \E c \in Check(l) :
                        UpdateContainerStatus(w, e, [o EXCEPT !.deployed = "Deployed"], c.containers)
      <3>1. PICK l \in Deploy(lab[w][e]) :
                  /\ SetLab(w, e, l)
                  /\ \E c \in Check(l) :
                        UpdateContainerStatus(w, e, [o EXCEPT !.deployed = "Deployed"], c.containers)
        BY <2>3
      <3>2. l \in Lab
        BY <1>2, DeployType
      <3>3. PICK c \in Check(l) :
                  UpdateContainerStatus(w, e, [o EXCEPT !.deployed = "Deployed"], c.containers)
        BY <3>1
      <3>4. APITypeOK'
        BY <2>1, <2>2, <3>2, <3>3, CheckType, UpdateContainerStatusTypes
      <3>5. QED
        BY <1>3, <3>1, <3>2, <3>4
    <2>4. CASE /\ UpdateStatus(w, e, [o EXCEPT !.deployed = "DeployFailed"], FALSE)
               /\ UNCHANGED lab
      <3>1. APITypeOK'
        BY <2>1, <2>2, <2>4, UpdateStatusTypes
      <3>2. QED
        BY <2>4, <3>1 DEF NcletTypeOK
    <2>5. QED
      BY <1>6, <2>3, <2>4 DEF DeployEnvironment
  <1>7. CASE CrashWhileDeploying(w, e)
    <2>1. APITypeOK'
      BY <1>7, RestartedTypes, ProcessNames DEF CrashWhileDeploying
    <2>2. QED
      BY <1>2, <1>3, <1>7, <2>1, DeployType DEF CrashWhileDeploying
  <1>8. CASE CheckEnvironment(w, e)
    <2>1. PICK c \in Check(lab[w][e]) : UpdateContainerStatus(w, e, o, c.containers)
      BY <1>8 DEF CheckEnvironment
    <2>2. APITypeOK'
      BY <1>1, <1>2, <1>8, <2>1, CheckType, UpdateContainerStatusTypes DEF CheckEnvironment
    <2>3. QED
      BY <1>8, <2>2 DEF CheckEnvironment, NcletTypeOK
  <1>9. CASE Cleanup(w, e)
    <2>1. PICK d \in Destroy(lab[w][e]) : SetLab(w, e, d.lab) /\ AfterDestroy(w, e, d.ok)
      BY <1>9 DEF Cleanup
    <2>2. [o EXCEPT !.finalizers = @ \ {"nclet"}] \in ProblemEnvironment
      BY <1>1 DEF ProblemEnvironment
    <2>3. [o EXCEPT !.ready = "DestroyFailed"] \in ProblemEnvironment
      BY <1>1 DEF ProblemEnvironment, ReadyConditions
    <2>4. UNCHANGED cache
      BY <1>9 DEF Cleanup
    <2>5. APITypeOK'
      BY <2>1, <2>2, <2>3, <2>4, UpdateTypes, UpdateStatusTypes DEF AfterDestroy, GiveUpFinalizer
    <2>6. QED
      BY <1>2, <1>3, <2>1, <2>5, DestroyType
  <1>10. QED
    BY <1>4, <1>5, <1>6, <1>7, <1>8, <1>9 DEF NcletStep

\* Containers that come up or fail keep the types.
LEMMA ContainerTypes ==
    ASSUME APITypeOK, NcletTypeOK, NEW w \in Workers, NEW e \in Envs,
           ContainersComeUp(w, e) \/ ContainerFails(w, e)
    PROVE  APITypeOK' /\ NcletTypeOK'
  <1>1. lab[w][e] \in Lab
    BY DEF NcletTypeOK
  <1>2. PICK l \in Lab : SetLab(w, e, l)
    BY <1>1 DEF ContainersComeUp, ContainerFails, Lab
  <1>3. NcletTypeOK'
    BY <1>2 DEF SetLab, NcletTypeOK
  <1>4. QED
    BY <1>3 DEF ContainersComeUp, ContainerFails, apiVars, APITypeOK

\* The initial state is typed.
LEMMA InitTypes == Init => TypeOK
  <1> SUFFICES ASSUME Init PROVE TypeOK
    OBVIOUS
  <1>1. APITypeOK
    <2>1. pe \in [Envs -> ProblemEnvironment]
      BY BlankType DEF Init, APIInit
    <2>2. QED
      BY <2>1 DEF Init, APIInit, APITypeOK
  <1>2. WorkerTypeOK
    BY DEF Init, WorkerInit, WorkerTypeOK, Worker
  <1>3. ProblemTypeOK
    <2>1. PICK n \in 0..MaxReplicas :
              problem = [life |-> "live", desired |-> n, replicas |-> NoReplicas]
      BY DEF Init, ProblemInit
    <2>2. problem \in Problem
      BY <2>1 DEF Problem, ProblemLives, NoReplicas, Replicas
    <2>3. View([problem EXCEPT !.life = "gone"]) = [life |-> "gone", desired |-> n]
      BY <2>1 DEF View
    <2>4. problemCache = [life |-> "gone", desired |-> n] /\ problemFresh \in BOOLEAN
      BY <2>3 DEF Init, ProblemInit
    <2>5. QED
      BY <2>2, <2>4 DEF ProblemTypeOK, ProblemLives
  <1>4. GatewayTypeOK
    BY DEF Init, GatewayInit, GatewayTypeOK
  <1>5. NcletTypeOK
    BY DEF Init, NcletInit, NcletTypeOK, NoLab, Lab
  <1>6. QED
    BY <1>1, <1>2, <1>3, <1>4, <1>5 DEF TypeOK

\* Every step keeps the types.
LEMMA NextTypes == TypeOK /\ [Next]_vars => TypeOK'
  <1> SUFFICES ASSUME TypeOK, [Next]_vars PROVE TypeOK'
    OBVIOUS
  <1> USE DEF TypeOK
  <1>w. ASSUME UNCHANGED workerVars PROVE WorkerTypeOK'
    BY <1>w DEF workerVars, WorkerTypeOK
  <1>p. ASSUME UNCHANGED problemVars PROVE ProblemTypeOK'
    BY <1>p DEF problemVars, ProblemTypeOK
  <1>g. ASSUME UNCHANGED gatewayVars PROVE GatewayTypeOK'
    BY <1>g DEF gatewayVars, GatewayTypeOK
  <1>l. ASSUME UNCHANGED lab PROVE NcletTypeOK'
    BY <1>l DEF NcletTypeOK
  <1>a. ASSUME UNCHANGED apiVars PROVE APITypeOK'
    BY <1>a DEF apiVars, APITypeOK
  <1>1. ASSUME NEW p \in Processes, Watch(p) PROVE TypeOK'
    BY <1>1, <1>w, <1>p, <1>g, <1>l, WatchTypes DEF Watch
  <1>2. ASSUME NEW p \in Processes, RestartProgram(p) PROVE TypeOK'
    <2>1. APITypeOK' /\ GatewayTypeOK' /\ NcletTypeOK'
      BY <1>2, <1>g, <1>l, WatchTypes DEF RestartProgram
    <2>2. View(problem) \in [life : ProblemLives, desired : 0..MaxReplicas]
      BY DEF ProblemTypeOK, Problem, View
    <2>3. ProblemTypeOK' /\ WorkerTypeOK'
      BY <1>2, <1>w, <1>p, <2>2 DEF RestartProgram, ProblemTypeOK, WorkerTypeOK
    <2>4. QED
      BY <2>1, <2>3
  <1>3. ASSUME NEW e \in Envs, CollectGarbage(e) PROVE TypeOK'
    BY <1>3, <1>w, <1>p, <1>g, <1>l, GarbageTypes DEF CollectGarbage
  <1>4. ASSUME NEW e \in Envs, ManagerReconciles(e) PROVE TypeOK'
    BY <1>4, <1>w, <1>p, <1>g, <1>l, ManagerTypes DEF ManagerReconciles
  <1>5. ASSUME NEW e \in Envs, Users(e) PROVE TypeOK'
    BY <1>5, <1>w, <1>p, <1>l, GatewayTypes, KubectlTypes DEF Users
  <1>6. CASE ManagerReconcilesProblem
    BY <1>6, <1>w, <1>g, <1>l, ReconcileProblemTypes DEF ManagerReconcilesProblem
  <1>7. CASE WatchProblem \/ ChangeProblem
    BY <1>7, <1>w, <1>g, <1>l, ProblemTypes DEF WatchProblem, ChangeProblem
  <1>8. CASE WatchWorkers \/ ChangeWorkers
    BY <1>8, <1>a, <1>p, <1>g, <1>l, WorkerTypes DEF WatchWorkers, ChangeWorkers
  <1>9. ASSUME NEW w \in Workers, NEW e \in Envs, NcletReconciles(w, e) \/ CrashNclet(w, e)
        PROVE  TypeOK'
    BY <1>9, <1>w, <1>p, <1>g, NcletTypes DEF NcletReconciles, CrashNclet
  <1>10. ASSUME NEW w \in Workers, NEW e \in Envs, Containers(w, e) PROVE TypeOK'
    BY <1>10, <1>w, <1>p, <1>g, ContainerTypes DEF Containers
  <1>11. CASE UNCHANGED vars
    BY <1>11, <1>a, <1>w, <1>p, <1>g, <1>l DEF vars
  <1> HIDE DEF TypeOK
  <1>12. QED
    BY <1>1, <1>2, <1>3, <1>4, <1>5, <1>6, <1>7, <1>8, <1>9, <1>10, <1>11 DEF Next

\* Type correctness: no handler of any program, in whatever order they run, stores
\* something that is not a ProblemEnvironment, a Worker, a Problem or a lab.
THEOREM TypeCorrect == Spec => []TypeOK
  BY InitTypes, NextTypes, PTL DEF Spec

-----------------------------------------------------------------------------
(***************************************************************************)
(* What the programs write, and what a write makes of an object.           *)
(***************************************************************************)

\* Leaving the stored objects alone is a special case of storing them.
LEMMA StoreNothing ==
    ASSUME UNCHANGED <<pe, fresh>>
    PROVE  Store(pe)
  BY DEF Store

\* The two ways of updating an object are writes, or nothing.
LEMMA UpdateStores ==
    ASSUME NEW p, NEW e, NEW new, NEW again, Update(p, e, new) \/ UpdateStatus(p, e, new, again)
    PROVE  \E stored : Store(stored)
  BY StoreNothing DEF Update, UpdateStatus

\* The manager and nclet work by updates of one environment.
LEMMA ManagerStores ==
    ASSUME APITypeOK, NEW e \in Envs, EnvironmentControllerStep(e)
    PROVE  UNCHANGED cache /\ \E stored : Store(stored)
  <1>1. CASE ManagerIgnore(e)
    BY <1>1, StoreNothing DEF ManagerIgnore
  <1>2. CASE Schedule(e)
    BY <1>2, UpdateStores DEF Schedule
  <1>3. CASE ConfirmSchedule(e)
    BY <1>3, UpdateStores DEF ConfirmSchedule
  <1>4. CASE CheckStatus(e)
    <2>1. UNCHANGED cache
      BY <1>4 DEF CheckStatus
    <2>2. Seen(e).containers \in {"nil", "notReady", "ready"}
      BY CachedType, ProcessNames DEF Seen, ProblemEnvironment, ContainerStatuses
    <2>3. (UNCHANGED <<pe, fresh>>) \/ \E new : UpdateStatus("manager", e, new, FALSE)
      BY <1>4, <2>2 DEF CheckStatus
    <2>4. QED
      BY <2>1, <2>3, UpdateStores, StoreNothing
  <1>5. QED
    BY <1>1, <1>2, <1>3, <1>4 DEF EnvironmentControllerStep

\* nclet changes environments through the API server only.
LEMMA NcletStores ==
    ASSUME NEW w \in Workers, NEW e \in Envs, NcletStep(w, e)
    PROVE  UNCHANGED cache /\ \E stored : Store(stored)
  <1>1. CASE NcletIgnore(w, e)
    BY <1>1, StoreNothing DEF NcletIgnore
  <1>2. CASE AddFinalizer(w, e)
    BY <1>2, UpdateStores DEF AddFinalizer
  <1>3. ASSUME NEW o, NEW reported, UpdateContainerStatus(w, e, o, reported)
        PROVE  \E stored : Store(stored)
    BY <1>3, UpdateStores, StoreNothing DEF UpdateContainerStatus
  <1>4. CASE DeployEnvironment(w, e)
    BY <1>3, <1>4, UpdateStores DEF DeployEnvironment
  <1>5. CASE CheckEnvironment(w, e)
    BY <1>3, <1>5 DEF CheckEnvironment
  <1>6. CASE Cleanup(w, e)
    BY <1>6, UpdateStores DEF Cleanup, AfterDestroy, GiveUpFinalizer
  <1>7. QED
    BY <1>1, <1>2, <1>4, <1>5, <1>6 DEF NcletStep

\* So does the ProblemReconciler.
LEMMA ReconcileProblemStores ==
    ASSUME ReconcileProblem
    PROVE  UNCHANGED cache /\ \E stored : Store(stored)
  <1>1. CreateEnvironment \/ (\E surplus : DeleteSurplus(surplus)) \/ UNCHANGED <<pe, fresh>>
    BY DEF ReconcileProblem
  <1>2. \E stored : Store(stored)
    BY <1>1, StoreNothing DEF CreateEnvironment, DeleteSurplus
  <1>3. QED
    BY <1>2 DEF ReconcileProblem

\* Writing an object back with some fields replaced replaces those fields.
LEMMA WriteScheduled ==
    ASSUME NEW o \in ProblemEnvironment, NEW x
    PROVE  StatusOf(o, [o EXCEPT !.scheduled = x]) = [o EXCEPT !.scheduled = x]
  BY DEF StatusOf, ProblemEnvironment

\* Writing back a current copy with a new ready condition changes this field alone.
LEMMA WriteReady ==
    ASSUME NEW o \in ProblemEnvironment, NEW x
    PROVE  StatusOf(o, [o EXCEPT !.ready = x]) = [o EXCEPT !.ready = x]
  BY DEF StatusOf, ProblemEnvironment

\* ... with a new assigned condition ...
LEMMA WriteAssigned ==
    ASSUME NEW o \in ProblemEnvironment, NEW x
    PROVE  StatusOf(o, [o EXCEPT !.assigned = x]) = [o EXCEPT !.assigned = x]
  BY DEF StatusOf, ProblemEnvironment

\* ... with a new deployed condition ...
LEMMA WriteDeployed ==
    ASSUME NEW o \in ProblemEnvironment, NEW x
    PROVE  StatusOf(o, [o EXCEPT !.deployed = x]) = [o EXCEPT !.deployed = x]
  BY DEF StatusOf, ProblemEnvironment

\* ... with new container statuses ...
LEMMA WriteContainers ==
    ASSUME NEW o \in ProblemEnvironment, NEW x
    PROVE  StatusOf(o, [o EXCEPT !.containers = x]) = [o EXCEPT !.containers = x]
  BY DEF StatusOf, ProblemEnvironment

\* ... with the fields that confirmSchedule sets ...
LEMMA WriteConfirmed ==
    ASSUME NEW o \in ProblemEnvironment, NEW x
    PROVE  StatusOf(o, Confirmed(o, x)) = Confirmed(o, x)
  BY DEF StatusOf, Confirmed, ProblemEnvironment

\* ... with a Worker: an update of the spec ...
LEMMA WriteWorker ==
    ASSUME NEW o \in ProblemEnvironment, NEW x, o.life = "live"
    PROVE  SpecOf(o, [o EXCEPT !.worker = x]) = [o EXCEPT !.worker = x]
  BY DEF SpecOf, Settle, ProblemEnvironment

\* ... and with new finalizers, after which the object may be gone.
LEMMA WriteFinalizers ==
    ASSUME NEW o \in ProblemEnvironment, NEW x
    PROVE  SpecOf(o, [o EXCEPT !.finalizers = x]) = Settle([o EXCEPT !.finalizers = x])
  BY DEF SpecOf, ProblemEnvironment

-----------------------------------------------------------------------------
(***************************************************************************)
(* Wake-ups: when a controller will not come back to an object.            *)
(***************************************************************************)

\* A step of others than p's controller of e: p will come back to e, or would not have
\* come back before and e is as it was, or p was started again and e does not exist.
Quiet(p, e) ==
    \/ Pending(p, e)'
    \/ pe'[e] = pe[e] /\ ~Pending(p, e)
    \/ pe'[e] = pe[e] /\ ~Exists(pe[e])

\* A write is quiet when it takes no key of p and e from the queue.
LEMMA StoreQuiet ==
    ASSUME NEW p, NEW e, <<p, e>> \in queue => <<p, e>> \in queue',
           (UNCHANGED <<pe, fresh>>) \/ \E stored : Store(stored)
    PROVE  Quiet(p, e)
  <1>1. <<p, e>> \in fresh' => <<p, e>> \in fresh /\ pe'[e] = pe[e]
    BY DEF Store
  <1>2. QED
    BY <1>1 DEF Quiet, Pending

\* A watch event queues what it brings.
LEMMA ObserveQuiet ==
    ASSUME NEW q, Observe(q), NEW p \in Controllers, NEW e \in Envs
    PROVE  Quiet(p, e)
  <1>1. pe' = pe /\ queue \subseteq queue' /\ fresh' = fresh \cup ({q} \X Envs)
    BY DEF Observe
  <1>2. CASE p = q /\ <<p, e>> \notin fresh
    <2>1. <<p, e>> \in EventKeys(p)
      BY <1>2 DEF EventKeys
    <2>2. QED
      BY <1>2, <2>1 DEF Observe, Quiet, Pending
  <1>3. CASE ~(p = q /\ <<p, e>> \notin fresh)
    BY <1>1, <1>3 DEF Quiet, Pending
  <1>4. QED
    BY <1>2, <1>3

\* A program that starts again queues everything that exists.
LEMMA RestartedQuiet ==
    ASSUME NEW q, Restarted(q), UNCHANGED pe, NEW p \in Controllers, NEW e \in Envs
    PROVE  Quiet(p, e)
  <1>1. CASE p = q /\ Exists(pe[e])
    BY <1>1 DEF Restarted, Quiet, Pending
  <1>2. CASE p = q /\ ~Exists(pe[e])
    BY <1>2 DEF Quiet
  <1>3. CASE p # q
    BY <1>3 DEF Restarted, Quiet, Pending
  <1>4. QED
    BY <1>1, <1>2, <1>3

\* A reconciler takes no key but its own from the queue.
LEMMA OwnKey ==
    ASSUME NEW p, NEW e, NEW new, NEW again,
           Update(p, e, new) \/ UpdateStatus(p, e, new, again) \/ Done(p, e) \/ Requeue
    PROVE  \A k \in queue : k = <<p, e>> \/ k \in queue'
  BY DEF Update, UpdateStatus, Done, Requeue

\* So do those of the manager ...
LEMMA ManagerKeys ==
    ASSUME TypeOK, NEW e \in Envs, EnvironmentControllerStep(e)
    PROVE  \A k \in queue : k = <<"manager", e>> \/ k \in queue'
  <1>1. CASE ManagerIgnore(e)
    BY <1>1 DEF ManagerIgnore, Done
  <1>2. CASE Schedule(e)
    BY <1>2, OwnKey DEF Schedule
  <1>3. CASE ConfirmSchedule(e)
    BY <1>3, OwnKey DEF ConfirmSchedule
  <1>4. CASE CheckStatus(e)
    <2>1. Seen(e).containers \in {"nil", "notReady", "ready"}
      BY CachedType, ProcessNames DEF TypeOK, Seen, ProblemEnvironment, ContainerStatuses
    <2>2. Done("manager", e) \/ \E new : UpdateStatus("manager", e, new, FALSE)
      BY <1>4, <2>1 DEF CheckStatus
    <2>3. QED
      BY <2>2, OwnKey
  <1>5. QED
    BY <1>1, <1>2, <1>3, <1>4 DEF EnvironmentControllerStep

\* ... and those of an nclet.
LEMMA NcletKeys ==
    ASSUME NEW w \in Workers, NEW e \in Envs, NcletStep(w, e)
    PROVE  \A k \in queue : k = <<w, e>> \/ k \in queue'
  <1>1. CASE NcletIgnore(w, e)
    BY <1>1 DEF NcletIgnore, Done
  <1>2. CASE AddFinalizer(w, e)
    BY <1>2, OwnKey DEF AddFinalizer
  <1>3. ASSUME NEW o, NEW reported, UpdateContainerStatus(w, e, o, reported)
        PROVE  \A k \in queue : k = <<w, e>> \/ k \in queue'
    BY <1>3, OwnKey DEF UpdateContainerStatus
  <1>4. CASE DeployEnvironment(w, e)
    BY <1>3, <1>4, OwnKey DEF DeployEnvironment
  <1>5. CASE CheckEnvironment(w, e)
    BY <1>3, <1>5 DEF CheckEnvironment
  <1>6. CASE Cleanup(w, e)
    BY <1>6, OwnKey DEF Cleanup, AfterDestroy, GiveUpFinalizer
  <1>7. QED
    BY <1>1, <1>2, <1>4, <1>5, <1>6 DEF NcletStep

\* ProblemReconciler takes the key of the Problem.
LEMMA ReconcileProblemKeys ==
    ASSUME ReconcileProblem
    PROVE  \A k \in queue : k = <<"manager", "problem">> \/ k \in queue'
  BY DEF ReconcileProblem, CreateEnvironment, DeleteSurplus, UpdateProblemStatus, ListFails, Done, Requeue

\* Every step is quiet for p and e, except that of p's own controller of e.
LEMMA OthersQuiet ==
    ASSUME TypeOK, [Next]_vars, NEW p \in Controllers, NEW e \in Envs
    PROVE  \/ Quiet(p, e)
           \/ p = "manager" /\ EnvironmentControllerStep(e)
           \/ p \in Workers /\ NcletStep(p, e)
  <1>t. APITypeOK /\ p # "kubectl"
    BY ProgramsAreNoWorkers DEF TypeOK, Controllers
  <1>0. ASSUME UNCHANGED <<pe, fresh>>, queue \subseteq queue' PROVE Quiet(p, e)
    BY <1>0, StoreQuiet
  <1>1. ASSUME NEW q \in Processes, Watch(q) \/ RestartProgram(q) PROVE Quiet(p, e)
    BY <1>1, ObserveQuiet, RestartedQuiet DEF Watch, RestartProgram, Restart
  <1>2. ASSUME NEW f \in Envs, CollectGarbage(f) PROVE Quiet(p, e)
    <2>1. UNCHANGED queue /\ \E stored : Store(stored)
      BY <1>2 DEF CollectGarbage, FinishForegroundDeletion, CollectChild
    <2>2. QED
      BY <2>1, StoreQuiet
  <1>3. ASSUME NEW f \in Envs, ManagerReconciles(f)
        PROVE  Quiet(p, e) \/ (p = "manager" /\ EnvironmentControllerStep(e))
    <2>1. EnvironmentControllerStep(f)
      BY <1>3 DEF ManagerReconciles
    <2>2. CASE <<p, e>> # <<"manager", f>>
      BY <1>t, <2>1, <2>2, ManagerKeys, ManagerStores, StoreQuiet
    <2>3. QED
      BY <2>1, <2>2
  <1>4. ASSUME NEW f \in Envs, Users(f) PROVE Quiet(p, e)
    <2>1. CASE GatewayStep(f)
      <3>1. UNCHANGED queue /\ ((UNCHANGED <<pe, fresh>>) \/ \E stored : Store(stored))
        BY <2>1 DEF GatewayStep, AcquireProblemEnvironment, ReleaseProblemEnvironment
      <3>2. QED
        BY <3>1, StoreQuiet
    <2>2. CASE KubectlGet(f)
      BY <1>t, <2>2 DEF KubectlGet, Quiet, Pending
    <2>3. ASSUME NEW new, KubectlEnd(f, new) PROVE Quiet(p, e)
      BY <1>t, <2>3 DEF KubectlEnd, Quiet, Pending
    <2>4. CASE KubectlDelete(f)
      <3>1. UNCHANGED queue /\ \E stored : Store(stored)
        BY <2>4 DEF KubectlDelete
      <3>2. QED
        BY <3>1, StoreQuiet
    <2>5. QED
      BY <1>4, <2>1, <2>2, <2>3, <2>4 DEF Users, KubectlStep, KubectlAssign, KubectlUnassign
  <1>5. CASE ManagerReconcilesProblem
    <2>1. ReconcileProblem /\ <<p, e>> # <<"manager", "problem">>
      BY <1>5, ProblemIsNoEnv DEF ManagerReconcilesProblem
    <2>2. QED
      BY <2>1, ReconcileProblemKeys, ReconcileProblemStores, StoreQuiet
  <1>6. CASE WatchProblem \/ ChangeProblem \/ WatchWorkers \/ ChangeWorkers
    <2>1. UNCHANGED <<pe, fresh>> /\ queue \subseteq queue'
      BY <1>6 DEF WatchProblem, ChangeProblem, WatchWorkers, ChangeWorkers, ObserveProblem,
                  ScaleProblem, DeleteProblem, CollectProblem, apiVars
    <2>2. QED
      BY <1>0, <2>1
  <1>7. ASSUME NEW w \in Workers, NEW f \in Envs, NcletReconciles(w, f)
        PROVE  Quiet(p, e) \/ (p \in Workers /\ NcletStep(p, e))
    <2>1. NcletStep(w, f)
      BY <1>7 DEF NcletReconciles
    <2>2. CASE <<p, e>> # <<w, f>>
      BY <2>1, <2>2, NcletKeys, NcletStores, StoreQuiet
    <2>3. QED
      BY <2>1, <2>2
  <1>8. ASSUME NEW w \in Workers, NEW f \in Envs, CrashNclet(w, f) PROVE Quiet(p, e)
    BY <1>8, RestartedQuiet DEF CrashNclet, CrashWhileDeploying
  <1>9. ASSUME NEW w \in Workers, NEW f \in Envs, Containers(w, f) PROVE Quiet(p, e)
    <2>1. UNCHANGED <<pe, fresh>> /\ queue \subseteq queue'
      BY <1>9 DEF Containers, ContainersComeUp, ContainerFails, apiVars
    <2>2. QED
      BY <1>0, <2>1
  <1>10. CASE UNCHANGED vars
    <2>1. UNCHANGED <<pe, fresh>> /\ queue \subseteq queue'
      BY <1>10 DEF vars, apiVars
    <2>2. QED
      BY <1>0, <2>1
  <1>11. QED
    BY <1>1, <1>2, <1>3, <1>4, <1>5, <1>6, <1>7, <1>8, <1>9, <1>10 DEF Next

\* What an own step finds when it is the last for now: it works on the stored object,
\* and has not changed it; every update was accepted and asked for no requeue.
LEMMA LastStep ==
    ASSUME TypeOK, CacheCoherent, NEW p \in Controllers, NEW e \in Envs,
           <<p, e>> \in queue, ~Pending(p, e)',
           (UNCHANGED <<pe, fresh>>) \/ \E stored : Store(stored)
    PROVE  /\ cache[p][e] = pe[e] /\ pe'[e] = pe[e] /\ pe[e] \in ProblemEnvironment
           /\ ~Requeue
           /\ \A new : Update(p, e, new) => SpecOf(pe[e], new) = pe[e]
           /\ \A new, again :
                 UpdateStatus(p, e, new, again) => ~again /\ StatusOf(pe[e], new) = pe[e]
  <1>1. <<p, e>> \in fresh' /\ <<p, e>> \notin queue'
    BY DEF Pending
  <1>2. <<p, e>> \in fresh /\ pe'[e] = pe[e]
    BY <1>1 DEF Store
  <1>3. cache[p][e] = pe[e] /\ pe[e] \in ProblemEnvironment
    BY <1>2 DEF CacheCoherent, TypeOK, APITypeOK
  <1>4. ~Requeue
    BY <1>1 DEF Requeue
  <1>5. \A o : pe' = [pe EXCEPT ![e] = o] => o = pe[e]
    BY <1>2 DEF TypeOK, APITypeOK
  <1>6. ASSUME NEW new, Update(p, e, new) PROVE SpecOf(pe[e], new) = pe[e]
    BY <1>4, <1>5, <1>6 DEF Update, Store
  <1>7. ASSUME NEW new, NEW again, UpdateStatus(p, e, new, again)
        PROVE  ~again /\ StatusOf(pe[e], new) = pe[e]
    BY <1>4, <1>5, <1>7 DEF UpdateStatus, Store
  <1>8. QED
    BY <1>2, <1>3, <1>4, <1>6, <1>7

\* The manager's last step leaves an environment scheduled and its Ready up to date.
LEMMA ManagerRests ==
    ASSUME TypeOK, CacheCoherent, NEW e \in Envs, EnvironmentControllerStep(e),
           ~Pending("manager", e)', pe'[e].life = "live"
    PROVE  IsTrue(pe'[e].scheduled) /\ ReadyFollows(pe'[e])
  <1> DEFINE o == pe[e]
  <1>1. <<"manager", e>> \in queue
    BY DEF EnvironmentControllerStep, ManagerIgnore, Schedule, ConfirmSchedule, CheckStatus,
           NotScheduledYet, Reconciles
  <1>2. (UNCHANGED <<pe, fresh>>) \/ \E stored : Store(stored)
    BY ManagerStores DEF TypeOK
  <1>3. /\ Seen(e) = o /\ pe'[e] = o /\ o \in ProblemEnvironment /\ ~Requeue
        /\ \A new : Update("manager", e, new) => SpecOf(o, new) = o
        /\ \A new, again : UpdateStatus("manager", e, new, again) => ~again /\ StatusOf(o, new) = o
    BY <1>1, <1>2, LastStep, ProcessNames DEF Seen
  <1>4. o.life = "live"
    BY <1>3
  <1>5. ~ManagerIgnore(e)
    BY <1>3, <1>4 DEF ManagerIgnore
  <1>6. ~Schedule(e)
    <2> SUFFICES ASSUME Schedule(e) PROVE FALSE
      OBVIOUS
    <2>1. \A new : ~UpdateStatus("manager", e, new, TRUE)
      BY <1>3
    <2>2. PICK w : w # NoWorker /\ Update("manager", e, [o EXCEPT !.worker = w])
      BY <1>3, <2>1 DEF Schedule
    <2>3. [o EXCEPT !.worker = w] = o
      BY <1>3, <1>4, <2>2, WriteWorker
    <2>4. o.worker = w
      BY <1>3, <2>3 DEF ProblemEnvironment
    <2>5. QED
      BY <1>3, <2>2, <2>4 DEF Schedule
  <1>7. ~ConfirmSchedule(e)
    <2> SUFFICES ASSUME ConfirmSchedule(e) PROVE FALSE
      OBVIOUS
    <2>1. \A new : ~UpdateStatus("manager", e, new, TRUE)
      BY <1>3
    <2>2. PICK x : UpdateStatus("manager", e, Confirmed(o, x), FALSE)
      BY <1>3, <2>1 DEF ConfirmSchedule
    <2>3. Confirmed(o, x) = o
      BY <1>3, <2>2, WriteConfirmed
    <2>4. o.scheduled = "Scheduled"
      BY <1>3, <2>3 DEF Confirmed, ProblemEnvironment
    <2>5. QED
      BY <1>3, <2>4 DEF ConfirmSchedule, NotScheduledYet, IsTrue, ConditionStatus, ReasonsOfTrue
  <1>8. CheckStatus(e)
    BY <1>5, <1>6, <1>7 DEF EnvironmentControllerStep
  <1>9. ASSUME NEW x, UpdateStatus("manager", e, [o EXCEPT !.ready = x], FALSE)
        PROVE  o.ready = x
    <2>1. [o EXCEPT !.ready = x] = o
      BY <1>3, <1>9, WriteReady
    <2>2. QED
      BY <1>3, <2>1 DEF ProblemEnvironment
  <1>10. o.containers \in {"nil", "notReady", "ready"}
    BY <1>3 DEF ProblemEnvironment, ContainerStatuses
  <1>11. IsTrue(o.scheduled)
    BY <1>3, <1>8 DEF CheckStatus
  <1>12. ReadyFollows(o)
    <2>1. CASE o.containers = "nil"
      BY <1>3, <1>8, <1>9, <2>1 DEF CheckStatus, ReadyFollows
    <2>2. CASE o.containers = "notReady"
      <3>1. ConditionStatus(o.ready) = "False" \/ o.ready = "NotReady"
        BY <1>3, <1>8, <1>9, <2>2 DEF CheckStatus
      <3>2. QED
        BY <2>2, <3>1 DEF ReadyFollows, ConditionStatus, ReasonsOfTrue
    <2>3. CASE o.containers = "ready"
      <3>1. ConditionStatus(o.ready) = "True" \/ o.ready = "Ready"
        BY <1>3, <1>8, <1>9, <2>3 DEF CheckStatus
      <3>2. QED
        BY <2>3, <3>1 DEF ReadyFollows, IsTrue, ConditionStatus, ReasonsOfTrue
    <2>4. QED
      BY <1>10, <2>1, <2>2, <2>3
  <1>13. QED
    BY <1>3, <1>11, <1>12

\* nclet's last step on an environment of its Worker finds that it is being deleted, and
\* that the finalizer is gone or the failure to destroy the lab is reported.
LEMMA NcletRests ==
    ASSUME TypeOK, CacheCoherent, AbsentIsBlank, NEW w \in Workers, NEW e \in Envs,
           NcletStep(w, e), ~Pending(w, e)', IsTrue(pe'[e].scheduled), pe'[e].worker = w
    PROVE  /\ pe'[e].life = "terminating"
           /\ HasFinalizer(pe'[e]) => pe'[e].ready = "DestroyFailed"
  <1> DEFINE o == pe[e]
  <1>1. <<w, e>> \in queue
    BY DEF NcletStep, NcletIgnore, AddFinalizer, DeployEnvironment, CheckEnvironment, Cleanup,
           MustCleanUp, Serves
  <1>2. (UNCHANGED <<pe, fresh>>) \/ \E stored : Store(stored)
    BY NcletStores
  <1>3. /\ SeenBy(w, e) = o /\ pe'[e] = o /\ o \in ProblemEnvironment /\ ~Requeue
        /\ \A new : Update(w, e, new) => SpecOf(o, new) = o
        /\ \A new, again : UpdateStatus(w, e, new, again) => ~again /\ StatusOf(o, new) = o
    BY <1>1, <1>2, LastStep, ProcessNames DEF SeenBy
  <1>4. Mine(w, e)
    <2>1. ~Exists(o) => o = Blank(o.life)
      BY DEF AbsentIsBlank
    <2>2. ~IsTrue(Blank(o.life).scheduled)
      BY DEF Blank, IsTrue, ConditionStatus
    <2>3. IsTrue(o.scheduled)
      BY <1>3
    <2>4. QED
      BY <1>3, <2>1, <2>2, <2>3 DEF Mine
  <1>5. ASSUME NEW new, NEW reported PROVE ~UpdateContainerStatus(w, e, new, reported)
    BY <1>3 DEF UpdateContainerStatus
  <1>6. ~AddFinalizer(w, e)
    <2> SUFFICES ASSUME AddFinalizer(w, e) PROVE FALSE
      OBVIOUS
    <2>1. ~HasFinalizer(o) /\ o.life = "live"
      BY <1>3 DEF AddFinalizer, Serves
    <2> DEFINE new == [o EXCEPT !.finalizers = @ \cup {"nclet"}]
    <2>2. Settle(new) = o
      BY <1>3, WriteFinalizers DEF AddFinalizer
    <2>3. Settle(new) = new /\ "nclet" \in new.finalizers
      BY <1>3, <2>1 DEF Settle, ProblemEnvironment
    <2>4. QED
      BY <2>1, <2>2, <2>3 DEF HasFinalizer
  <1>7. ~DeployEnvironment(w, e)
    <2> SUFFICES ASSUME DeployEnvironment(w, e) PROVE FALSE
      OBVIOUS
    <2>1. UpdateStatus(w, e, [o EXCEPT !.deployed = "DeployFailed"], FALSE) /\ ~IsTrue(o.deployed)
      BY <1>3, <1>5 DEF DeployEnvironment
    <2>2. StatusOf(o, [o EXCEPT !.deployed = "DeployFailed"]) = o
      BY <1>3, <2>1
    <2>3. o.deployed = "DeployFailed"
      BY <1>3, <2>2 DEF StatusOf, ProblemEnvironment
    <2>4. QED
      BY <2>1, <2>3 DEF IsTrue, ConditionStatus, ReasonsOfTrue
  <1>8. ~CheckEnvironment(w, e)
    BY <1>5 DEF CheckEnvironment
  <1>9. CASE NcletIgnore(w, e)
    BY <1>3, <1>4, <1>9 DEF NcletIgnore
  <1>10. CASE Cleanup(w, e)
    <2>1. o.life = "terminating" /\ "nclet" \in o.finalizers
      BY <1>3, <1>10 DEF Cleanup, MustCleanUp, HasFinalizer
    <2>2. ~GiveUpFinalizer(w, e)
      <3> SUFFICES ASSUME GiveUpFinalizer(w, e) PROVE FALSE
        OBVIOUS
      <3> DEFINE new == [o EXCEPT !.finalizers = @ \ {"nclet"}]
      <3>1. Settle(new) = o
        BY <1>3, WriteFinalizers DEF GiveUpFinalizer
      <3>2. "nclet" \notin new.finalizers /\ Blank("gone").life # "terminating"
        BY <1>3 DEF Blank, ProblemEnvironment
      <3>3. QED
        BY <2>1, <3>1, <3>2 DEF Settle
    <2>3. UpdateStatus(w, e, [o EXCEPT !.ready = "DestroyFailed"], FALSE)
      BY <1>3, <1>10, <2>2 DEF Cleanup, AfterDestroy
    <2>4. [o EXCEPT !.ready = "DestroyFailed"] = o
      BY <1>3, <2>3, WriteReady
    <2>5. o.ready = "DestroyFailed"
      BY <1>3, <2>4 DEF ProblemEnvironment
    <2>6. QED
      BY <1>3, <2>1, <2>5
  <1>11. QED
    BY <1>6, <1>7, <1>8, <1>9, <1>10 DEF NcletStep
=============================================================================
