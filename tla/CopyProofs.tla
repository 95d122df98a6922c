------------------------------ MODULE CopyProofs ------------------------------
(***************************************************************************)
(* What an old copy of an environment still tells: the Worker and the      *)
(* password that it names are those of the environment, and the conditions *)
(* that it shows fit each other.  So an environment leaves traces on one   *)
(* Worker only, an nclet accepts no password but the right one, the counts *)
(* of a Problem add up, and its replicas are scaled as the spec asks for.  *)
(*                                                                         *)
(* The argument: a copy changes only by becoming the stored object, or     *)
(* blank.  Along its life an object gets a Worker once and a password      *)
(* once, and a name is not used again when it is gone.                     *)
(*                                                                         *)
(* The last part is about wake-ups: what a controller will not come back   *)
(* to, because it has seen the stored version and the key is not queued,   *)
(* needs nothing more from it.                                             *)
(***************************************************************************)
EXTENDS LifecycleProofs, ReconcilerProofs

-----------------------------------------------------------------------------
(***************************************************************************)
(* How copies and labs change.                                             *)
(***************************************************************************)

\* A cache that is refreshed shows what is stored.
LEMMA RefreshShows ==
    ASSUME APITypeOK, NEW q \in Processes, cache' = [cache EXCEPT ![q] = pe], UNCHANGED pe
    PROVE  \A p \in Processes, e \in Envs : cache'[p][e] = cache[p][e] \/ cache'[p][e] = pe'[e]
  <1>1. \A p \in Processes : cache'[p] = cache[p] \/ cache'[p] = pe
    BY DEF APITypeOK
  <1>2. QED
    BY <1>1

\* The copy of a plugin's command is taken, and thrown away.
LEMMA KubectlShows ==
    ASSUME APITypeOK, NEW f \in Envs, KubectlStep(f)
    PROVE  \A p \in Processes, e \in Envs :
               cache'[p][e] \in {cache[p][e], pe'[e], Blank("unborn")}
  <1>1. "kubectl" \in Processes
    BY ProcessNames DEF KubectlStep
  <1>2. \/ cache' = cache
        \/ cache' = [cache EXCEPT !["kubectl"][f] = pe[f]] /\ pe' = pe
        \/ cache' = [cache EXCEPT !["kubectl"][f] = Blank("unborn")]
    BY DEF KubectlStep, KubectlGet, KubectlAssign, KubectlUnassign, KubectlDelete, KubectlEnd
  <1>3. ASSUME NEW n, cache' = [cache EXCEPT !["kubectl"][f] = n]
        PROVE  \A p \in Processes, e \in Envs : cache'[p][e] = cache[p][e] \/ (e = f /\ cache'[p][e] = n)
    BY <1>1, <1>3 DEF APITypeOK
  <1>4. CASE cache' = cache
    BY <1>4
  <1>5. CASE cache' = [cache EXCEPT !["kubectl"][f] = pe[f]] /\ pe' = pe
    BY <1>3, <1>5
  <1>6. CASE cache' = [cache EXCEPT !["kubectl"][f] = Blank("unborn")]
    BY <1>3, <1>6
  <1>7. QED
    BY <1>2, <1>4, <1>5, <1>6

\* A copy stays, becomes the stored object, or is thrown away.
LEMMA CopyMoves ==
    ASSUME TypeOK, [Next]_vars
    PROVE  \A p \in Processes, e \in Envs :
               cache'[p][e] \in {cache[p][e], pe'[e], Blank("unborn")}
  <1> DEFINE Moves == \A p \in Processes, e \in Envs :
                          cache'[p][e] \in {cache[p][e], pe'[e], Blank("unborn")}
  <1>t. APITypeOK
    BY DEF TypeOK
  <1>0. ASSUME UNCHANGED cache PROVE Moves
    BY <1>0
  <1>1. ASSUME NEW p \in Processes, Watch(p) \/ RestartProgram(p) PROVE Moves
    <2>1. cache' = [cache EXCEPT ![p] = pe] /\ UNCHANGED pe
      BY <1>1 DEF Watch, RestartProgram, Observe, Restart, Restarted
    <2>2. QED
      BY <1>t, <2>1, RefreshShows
  <1>2. ASSUME NEW e \in Envs, CollectGarbage(e) PROVE Moves
    <2>1. UNCHANGED cache
      BY <1>2 DEF CollectGarbage, FinishForegroundDeletion, CollectChild
    <2>2. QED
      BY <1>0, <2>1
  <1>3. ASSUME NEW e \in Envs, ManagerReconciles(e) PROVE Moves
    BY <1>0, <1>t, <1>3, ManagerStores DEF ManagerReconciles
  <1>4. ASSUME NEW e \in Envs, Users(e) PROVE Moves
    <2>1. CASE KubectlStep(e)
      BY <1>t, <2>1, KubectlShows
    <2>2. CASE GatewayStep(e)
      <3>1. UNCHANGED cache
        BY <2>2 DEF GatewayStep, AcquireProblemEnvironment, ReleaseProblemEnvironment
      <3>2. QED
        BY <1>0, <3>1
    <2>3. QED
      BY <1>4, <2>1, <2>2 DEF Users
  <1>5. CASE ManagerReconcilesProblem
    BY <1>0, <1>5, ReconcileProblemStores DEF ManagerReconcilesProblem
  <1>6. CASE WatchProblem \/ ChangeProblem \/ WatchWorkers \/ ChangeWorkers
    <2>1. UNCHANGED cache
      BY <1>6 DEF WatchProblem, ChangeProblem, WatchWorkers, ChangeWorkers, ObserveProblem,
                  ScaleProblem, DeleteProblem, CollectProblem, apiVars
    <2>2. QED
      BY <1>0, <2>1
  <1>7. ASSUME NEW w \in Workers, NEW e \in Envs, NcletReconciles(w, e) PROVE Moves
    BY <1>0, <1>7, NcletStores DEF NcletReconciles
  <1>8. ASSUME NEW w \in Workers, NEW e \in Envs, CrashNclet(w, e) PROVE Moves
    <2>1. cache' = [cache EXCEPT ![w] = pe] /\ UNCHANGED pe /\ w \in Processes
      BY <1>8, ProcessNames DEF CrashNclet, CrashWhileDeploying, Restarted
    <2>2. QED
      BY <1>t, <2>1, RefreshShows
  <1>9. ASSUME NEW w \in Workers, NEW e \in Envs, Containers(w, e) PROVE Moves
    <2>1. UNCHANGED cache
      BY <1>9 DEF Containers, ContainersComeUp, ContainerFails, apiVars
    <2>2. QED
      BY <1>0, <2>1
  <1>10. CASE UNCHANGED vars
    <2>1. UNCHANGED cache
      BY <1>10 DEF vars, apiVars
    <2>2. QED
      BY <1>0, <2>1
  <1>11. QED
    BY <1>1, <1>2, <1>3, <1>4, <1>5, <1>6, <1>7, <1>8, <1>9, <1>10 DEF Next

\* Only an nclet that takes an environment for its own makes a lab of it.
LEMMA LabMoves ==
    ASSUME TypeOK, [Next]_vars
    PROVE  \A w \in Workers, e \in Envs :
               lab'[w][e] # NoLab => lab[w][e] # NoLab \/ cache[w][e].worker = w
  <1> DEFINE Moves == \A w \in Workers, e \in Envs :
                          lab'[w][e] # NoLab => lab[w][e] # NoLab \/ cache[w][e].worker = w
  <1>0. CASE UNCHANGED lab
    BY <1>0
  <1>1. ASSUME NEW w \in Workers, NEW e \in Envs, NEW l, SetLab(w, e, l),
               lab[w][e] # NoLab \/ cache[w][e].worker = w
        PROVE  Moves
    <2>1. \A v \in Workers, f \in Envs : lab'[v][f] = lab[v][f] \/ (v = w /\ f = e)
      BY <1>1 DEF SetLab, TypeOK, NcletTypeOK
    <2>2. QED
      BY <1>1, <2>1
  <1>2. ASSUME NEW w \in Workers, NEW e \in Envs, NcletReconciles(w, e) PROVE Moves
    <2>1. CASE UNCHANGED lab
      BY <1>0, <2>1
    <2>2. CASE DeployEnvironment(w, e) \/ Cleanup(w, e)
      <3>1. cache[w][e].worker = w
        BY <2>2 DEF DeployEnvironment, Cleanup, Serves, MustCleanUp, Mine, SeenBy
      <3>2. UNCHANGED lab \/ \E l : SetLab(w, e, l)
        BY <2>2 DEF DeployEnvironment, Cleanup
      <3>3. QED
        BY <1>0, <1>1, <3>1, <3>2
    <2>3. QED
      BY <1>2, <2>1, <2>2 DEF NcletReconciles, NcletStep, NcletIgnore, AddFinalizer, CheckEnvironment
  <1>3. ASSUME NEW w \in Workers, NEW e \in Envs, CrashNclet(w, e) PROVE Moves
    <2>1. cache[w][e].worker = w /\ \E l : SetLab(w, e, l)
      BY <1>3 DEF CrashNclet, CrashWhileDeploying, Serves, Mine, SeenBy
    <2>2. QED
      BY <1>1, <2>1
  <1>4. ASSUME NEW w \in Workers, NEW e \in Envs, Containers(w, e) PROVE Moves
    <2>1. lab[w][e] # NoLab /\ \E l : SetLab(w, e, l)
      BY <1>4 DEF Containers, ContainersComeUp, ContainerFails, NoLab
    <2>2. QED
      BY <1>1, <2>1
  <1>5. CASE \/ \E p \in Processes : Watch(p) \/ RestartProgram(p)
             \/ \E e \in Envs : CollectGarbage(e) \/ ManagerReconciles(e) \/ Users(e)
             \/ ManagerReconcilesProblem \/ WatchProblem \/ ChangeProblem
             \/ WatchWorkers \/ ChangeWorkers \/ UNCHANGED vars
    <2>1. UNCHANGED lab
      BY <1>5 DEF Watch, RestartProgram, CollectGarbage, ManagerReconciles, Users,
                  ManagerReconcilesProblem, WatchProblem, ChangeProblem, WatchWorkers,
                  ChangeWorkers, vars
    <2>2. QED
      BY <1>0, <2>1
  <1>6. QED
    BY <1>2, <1>3, <1>4, <1>5 DEF Next

-----------------------------------------------------------------------------
(***************************************************************************)
(* How the stored objects change.                                          *)
(***************************************************************************)

\* What every step of a life keeps: an object is not born twice, one that is gone
\* stays gone, one whose deletion was asked for gets no finalizer of nclet, and a
\* Worker is given once.
Forward(o, n) ==
    /\ n.life = "unborn" => n = o
    /\ o.life = "gone" => n = o
    /\ n.life = "gone" => n = o \/ n = Blank("gone")
    /\ o.life = "terminating" =>
           n.life \in {"terminating", "gone"} /\ n.finalizers \subseteq o.finalizers \cup {"foreground"}
    /\ Exists(o) /\ Exists(n) /\ o.worker # NoWorker => n.worker = o.worker

\* A deletion goes forward.
LEMMA DeleteForward ==
    ASSUME NEW o \in ProblemEnvironment, NEW foreground \in BOOLEAN, Exists(o)
    PROVE  Forward(o, AfterDelete(o, foreground))
  <1> DEFINE fins == IF foreground THEN o.finalizers \cup {"foreground"} ELSE o.finalizers
             n == [o EXCEPT !.life = "terminating", !.finalizers = fins]
  <1>1. n.life = "terminating" /\ n.finalizers = fins /\ n.worker = o.worker
    BY DEF ProblemEnvironment
  <1>2. AfterDelete(o, foreground) = n \/ AfterDelete(o, foreground) = Blank("gone")
    BY DEF AfterDelete, Settle
  <1>3. Forward(o, Blank("gone"))
    BY DEF Forward, Blank, Exists
  <1>4. fins \subseteq o.finalizers \cup {"foreground"}
    OBVIOUS
  <1> HIDE DEF n, fins
  <1>5. Forward(o, n)
    BY <1>1, <1>4 DEF Forward, Exists
  <1>6. QED
    BY <1>2, <1>3, <1>5

\* Every step of a life goes forward.
LEMMA LifeForward ==
    ASSUME NEW e, pe[e] \in ProblemEnvironment, LifeStep(e)
    PROVE  Forward(pe[e], pe'[e])
  <1> DEFINE o == pe[e]
             n == pe'[e]
  <1>1. CASE UNCHANGED Life(e)!lifeVars
    BY <1>1 DEF Life!lifeVars, Forward
  <1>2. CASE Life(e)!Delete
    <2>1. Exists(o) /\ \E foreground \in BOOLEAN : n = AfterDelete(o, foreground)
      BY <1>2 DEF Life!Delete, Life!AfterDelete, Life!Settle, Life!Blank, Life!Exists,
                  AfterDelete, Settle, Blank, Exists
    <2>2. QED
      BY <2>1, DeleteForward
  <1>3. CASE Life(e)!Finish
    <2>1. /\ o.life = "terminating"
          /\ n = Blank("gone") \/ \E f \in o.finalizers : n = [o EXCEPT !.finalizers = o.finalizers \ {f}]
      BY <1>3 DEF Life!Finish, Life!Settle, Life!Blank, Blank
    <2>2. CASE n = Blank("gone")
      BY <2>1, <2>2 DEF Forward, Blank, Exists
    <2>3. CASE \E f \in o.finalizers : n = [o EXCEPT !.finalizers = o.finalizers \ {f}]
      BY <2>1, <2>3 DEF Forward, Exists, ProblemEnvironment
    <2>4. QED
      BY <2>1, <2>2, <2>3
  <1>4. CASE Life(e)!Create
    BY <1>4 DEF Life!Create, Life!Blank, Forward, Exists
  <1> USE DEF Forward, ProblemEnvironment, Exists
  <1>5. CASE Life(e)!Bind \/ Life(e)!FailToSchedule \/ Life(e)!Confirm
    BY <1>5 DEF Life!Bind, Life!FailToSchedule, Life!Confirm, Life!Unscheduled
  <1>6. CASE Life(e)!Judge \/ Life(e)!TakeOver \/ Life(e)!FailToDestroy
    BY <1>6 DEF Life!Judge, Life!TakeOver, Life!FailToDestroy, Life!Served
  <1>7. CASE Life(e)!Report
    BY <1>7 DEF Life!Report, Life!Served
  <1>8. CASE Life(e)!Assign \/ Life(e)!Unassign
    BY <1>8 DEF Life!Assign, Life!Unassign, Life!Exists
  <1>9. QED
    BY <1>1, <1>2, <1>3, <1>4, <1>5, <1>6, <1>7, <1>8 DEF LifeStep, Life!LifeNext

\* Who is told of an environment is told while it exists.
LEMMA HoldersOfAbsent ==
    ASSUME NEW e, pe[e] \in ProblemEnvironment, LifeStep(e), ~Exists(pe'[e])
    PROVE  holders'[e] = holders[e] /\ issued'[e] = issued[e]
  <1>1. CASE Life(e)!Assign \/ Life(e)!Unassign
    BY <1>1 DEF Life!Assign, Life!Unassign, Life!Exists, Exists, ProblemEnvironment
  <1>2. CASE UNCHANGED Life(e)!lifeVars
    BY <1>2 DEF Life!lifeVars
  <1>3. QED
    BY <1>1, <1>2 DEF LifeStep, Life!LifeNext, Life!Create, Life!Delete, Life!Bind,
         Life!FailToSchedule, Life!Confirm, Life!Judge, Life!TakeOver, Life!Report,
         Life!FailToDestroy, Life!Finish

\* Deletion is final, whatever program with whatever copy writes afterwards.
THEOREM DeletionAlwaysFinal == Spec => DeletionIsFinal
  <1>1. TypeOK /\ CacheCoherent /\ [Next]_vars =>
            [\A e \in Envs :
                pe[e].life \in {"terminating", "gone"} =>
                    /\ pe'[e].life \in {pe[e].life, "gone"}
                    /\ pe'[e].finalizers \subseteq pe[e].finalizers \cup {"foreground"}]_vars
    <2> SUFFICES ASSUME TypeOK, CacheCoherent, [Next]_vars, NEW e \in Envs,
                        pe[e].life \in {"terminating", "gone"}
                 PROVE  /\ pe'[e].life \in {pe[e].life, "gone"}
                        /\ pe'[e].finalizers \subseteq pe[e].finalizers \cup {"foreground"}
      OBVIOUS
    <2>1. LifeStep(e) /\ pe[e] \in ProblemEnvironment
      BY NextLives DEF TypeOK, APITypeOK
    <2>2. Forward(pe[e], pe'[e])
      BY <2>1, LifeForward
    <2>3. QED
      BY <2>2 DEF Forward
  <1>2. QED
    BY <1>1, Coherent, PTL DEF Spec, DeletionIsFinal

-----------------------------------------------------------------------------
(***************************************************************************)
(* Copies stay earlier states, and traces agree.                           *)
(***************************************************************************)

\* A copy o fits the stored object s, of which h holders were told the password i.
Fits(o, s, h, i) ==
    /\ s.life = "unborn" => o = Blank("unborn")
    /\ IsTrue(o.ready) \/ IsTrue(o.assigned) => IsTrue(o.scheduled)
    /\ IsTrue(o.scheduled) =>
           /\ o.password # NoPassword
           /\ Exists(s) => IsTrue(s.scheduled) /\ o.password = s.password
           /\ h # 0 => o.password = i

\* CopiesAreEarlier in these terms.
LEMMA CopiesFit ==
    CopiesAreEarlier <=>
        \A p \in Processes, e \in Envs : Fits(cache[p][e], pe[e], holders[e], issued[e])
  BY DEF CopiesAreEarlier, Fits

\* A blank copy says nothing.
LEMMA BlankFits ==
    ASSUME NEW s, NEW h, NEW i
    PROVE  Fits(Blank("unborn"), s, h, i)
  BY DEF Fits, Blank, IsTrue, ConditionStatus, ReasonsOfTrue

\* A copy that fits goes on fitting while the stored object lives on.
LEMMA OldFits ==
    ASSUME NEW e, NEW o, Fits(o, pe[e], holders[e], issued[e]),
           pe[e] \in ProblemEnvironment, pe'[e] \in ProblemEnvironment, holders'[e] \in Nat,
           Held(e), Held(e)', LifeStep(e)
    PROVE  Fits(o, pe'[e], holders'[e], issued'[e])
  <1>1. Forward(pe[e], pe'[e])
    BY LifeForward
  <1>2. pe'[e].life = "unborn" => o = Blank("unborn")
    BY <1>1 DEF Forward, Fits
  <1>3. IsTrue(o.scheduled) /\ Exists(pe'[e]) => Exists(pe[e])
    <2>1. pe[e].life \in {"unborn", "live", "terminating", "gone"}
      BY DEF ProblemEnvironment
    <2>2. IsTrue(o.scheduled) => pe[e].life # "unborn"
      BY DEF Fits, Blank, IsTrue, ConditionStatus, ReasonsOfTrue
    <2>3. Exists(pe'[e]) => pe[e].life # "gone"
      BY <1>1 DEF Forward, Exists
    <2>4. QED
      BY <2>1, <2>2, <2>3 DEF Exists
  <1>4. IsTrue(o.scheduled) /\ Exists(pe'[e]) => IsTrue(pe'[e].scheduled) /\ o.password = pe'[e].password
    BY <1>3, ScheduledKept DEF Fits
  <1>5. IsTrue(o.scheduled) /\ holders'[e] # 0 => o.password = issued'[e]
    <2>1. CASE Exists(pe'[e])
      <3>1. holders'[e] # 0 => pe'[e].password = issued'[e]
        BY <2>1 DEF Held
      <3>2. QED
        BY <1>4, <2>1, <3>1
    <2>2. CASE ~Exists(pe'[e])
      BY <2>2, HoldersOfAbsent DEF Fits
    <2>3. QED
      BY <2>1, <2>2
  <1>6. QED
    BY <1>2, <1>4, <1>5 DEF Fits

\* Nothing is stored of what does not exist.
LEMMA AbsentKept ==
    ASSUME AbsentIsBlank, TypeOK, TypeOK', \A e \in Envs : LifeStep(e)
    PROVE  AbsentIsBlank'
  <1> SUFFICES ASSUME NEW e \in Envs, ~Exists(pe'[e]) PROVE pe'[e] = Blank(pe'[e].life)
    BY DEF AbsentIsBlank, Exists, Blank
  <1>1. pe[e] \in ProblemEnvironment /\ pe'[e] \in ProblemEnvironment
    BY DEF TypeOK, APITypeOK
  <1>2. pe'[e].life \in {"unborn", "gone"}
    BY <1>1 DEF Exists, ProblemEnvironment
  <1>3. Forward(pe[e], pe'[e])
    BY <1>1, LifeForward
  <1>4. pe'[e] = pe[e] \/ pe'[e] = Blank("gone")
    BY <1>2, <1>3 DEF Forward
  <1>5. CASE pe'[e] = pe[e]
    BY <1>5 DEF AbsentIsBlank
  <1>6. CASE pe'[e] = Blank("gone")
    BY <1>6 DEF Blank
  <1>7. QED
    BY <1>4, <1>5, <1>6

\* Every step leaves copies earlier states.
LEMMA CopiesKept ==
    ASSUME HandOutInv, HandOutInv', AbsentIsBlank', CopiesAreEarlier, [Next]_vars,
           \A e \in Envs : LifeStep(e)
    PROVE  CopiesAreEarlier'
  <1> SUFFICES ASSUME NEW p \in Processes, NEW e \in Envs
               PROVE  Fits(cache'[p][e], pe'[e], holders'[e], issued'[e])
    BY DEF CopiesAreEarlier, Fits, Exists
  <1>1. /\ pe[e] \in ProblemEnvironment /\ pe'[e] \in ProblemEnvironment
        /\ holders'[e] \in Nat
    BY DEF HandOutInv, TypeOK, APITypeOK, GatewayTypeOK
  <1>2. Held(e) /\ Held(e)' /\ Ordered(pe'[e])
    BY DEF HandOutInv, UnbornUntouched, OneHolder, ConditionsOrdered, AssignedAfterScheduled,
           Held, Ordered
  <1>3. cache'[p][e] \in {cache[p][e], pe'[e], Blank("unborn")}
    BY CopyMoves DEF HandOutInv
  <1>4. CASE cache'[p][e] = cache[p][e]
    <2>1. Fits(cache[p][e], pe[e], holders[e], issued[e])
      BY CopiesFit
    <2>2. QED
      BY <1>1, <1>2, <1>4, <2>1, OldFits
  <1>5. CASE cache'[p][e] = pe'[e]
    <2>1. ~Exists(pe'[e]) => pe'[e] = Blank(pe'[e].life)
      BY DEF AbsentIsBlank, Exists, Blank
    <2>2. IsTrue(pe'[e].scheduled) => Exists(pe'[e])
      BY <2>1 DEF Blank, IsTrue, ConditionStatus, ReasonsOfTrue
    <2>3. QED
      BY <1>1, <1>2, <1>5, <2>2 DEF Fits, Ordered, Held, Exists
  <1>6. CASE cache'[p][e] = Blank("unborn")
    BY <1>6, BlankFits
  <1>7. QED
    BY <1>3, <1>4, <1>5, <1>6

\* A step leads no further than to the Worker that the environment has afterwards.
LEMMA TracesMove ==
    ASSUME TypeOK, [Next]_vars, NEW e \in Envs, NEW w \in Traces(e)'
    PROVE  w \in Traces(e) \/ w = pe'[e].worker
  <1>1. w \in Workers /\ (lab'[w][e] # NoLab \/ \E p \in Processes : cache'[p][e].worker = w)
    BY DEF Traces
  <1>2. CASE lab'[w][e] # NoLab
    <2>1. lab[w][e] # NoLab \/ cache[w][e].worker = w
      BY <1>1, <1>2, LabMoves
    <2>2. QED
      BY <1>1, <2>1, ProcessNames DEF Traces
  <1>3. ASSUME NEW p \in Processes, cache'[p][e].worker = w
        PROVE  w \in Traces(e) \/ w = pe'[e].worker
    <2>1. cache'[p][e] \in {cache[p][e], pe'[e], Blank("unborn")}
      BY CopyMoves
    <2>2. cache'[p][e] # Blank("unborn")
      BY <1>1, <1>3, NoWorkerAssumption DEF Blank
    <2>3. QED
      BY <1>1, <1>3, <2>1, <2>2 DEF Traces
  <1>4. QED
    BY <1>1, <1>2, <1>3

\* Traces agree after every step.
LEMMA TracesKept ==
    ASSUME TypeOK, TypeOK', AbsentIsBlank', TracesAgree, [Next]_vars, \A e \in Envs : LifeStep(e)
    PROVE  TracesAgree'
  <1> SUFFICES ASSUME NEW e \in Envs
               PROVE  /\ \A v, w \in Traces(e)' : v = w
                      /\ Exists(pe'[e]) => Traces(e)' \subseteq {pe'[e].worker}
                      /\ pe'[e].life = "unborn" => Traces(e)' = {}
    BY DEF TracesAgree, Exists
  <1>1. pe[e] \in ProblemEnvironment /\ pe'[e] \in ProblemEnvironment
    BY DEF TypeOK, APITypeOK
  <1>2. Forward(pe[e], pe'[e])
    BY <1>1, LifeForward
  <1>3. \A w \in Traces(e) : w \in Workers
    BY DEF Traces
  <1>4. \A w \in Traces(e)' : w \in Workers /\ (w \in Traces(e) \/ w = pe'[e].worker)
    BY TracesMove DEF Traces
  <1>5. /\ \A v, w \in Traces(e) : v = w
        /\ Exists(pe[e]) => Traces(e) \subseteq {pe[e].worker}
        /\ pe[e].life = "unborn" => Traces(e) = {}
    BY DEF TracesAgree
  <1>6. CASE Exists(pe'[e])
    <2>1. pe[e].life \in {"unborn", "live", "terminating"}
      BY <1>1, <1>2, <1>6 DEF Forward, Exists, ProblemEnvironment
    <2>2. \A w \in Traces(e) : w = pe'[e].worker
      BY <1>2, <1>3, <1>5, <1>6, <2>1, NoWorkerAssumption DEF Forward, Exists
    <2>3. QED
      BY <1>4, <1>6, <2>2 DEF Exists
  <1>7. CASE ~Exists(pe'[e])
    <2>0. pe'[e] = Blank(pe'[e].life)
      BY <1>7 DEF AbsentIsBlank, Exists, Blank
    <2>1. pe'[e].worker = NoWorker
      BY <2>0 DEF Blank
    <2>2. Traces(e)' \subseteq Traces(e)
      BY <1>4, <2>1, NoWorkerAssumption
    <2>3. pe'[e].life = "unborn" => pe[e].life = "unborn"
      BY <1>2 DEF Forward
    <2>4. QED
      BY <1>5, <1>7, <2>2, <2>3
  <1>8. QED
    BY <1>6, <1>7

-----------------------------------------------------------------------------
(***************************************************************************)
(* The theorems.                                                           *)
(***************************************************************************)

\* Copies are earlier states and traces agree, in every state: for any number of
\* environments, Workers, users and failures.
THEOREM CopyInvariant == Spec => []CopyInv
  <1>1. Init => CopyInv
    <2> SUFFICES ASSUME Init PROVE CopyInv
      OBVIOUS
    <2>1. \A e \in Envs : pe[e] = Blank("unborn") /\ \A p \in Processes : cache[p][e] = Blank("unborn")
      BY DEF Init, APIInit
    <2>2. AbsentIsBlank
      BY <2>1 DEF AbsentIsBlank, Blank
    <2>3. CopiesAreEarlier
      BY <2>1, BlankFits, CopiesFit
    <2>4. \A e \in Envs : Traces(e) = {}
      BY <2>1, NoWorkerAssumption DEF Init, NcletInit, Traces, Blank
    <2>5. QED
      BY <2>1, <2>2, <2>3, <2>4 DEF CopyInv, TracesAgree, Exists, Blank
  <1>2. HandOutInv /\ HandOutInv' /\ CopyInv /\ [Next]_vars => CopyInv'
    <2> SUFFICES ASSUME HandOutInv, HandOutInv', CopyInv, [Next]_vars PROVE CopyInv'
      OBVIOUS
    <2>1. TypeOK /\ TypeOK' /\ CacheCoherent
      BY DEF HandOutInv
    <2>2. \A e \in Envs : LifeStep(e)
      BY <2>1, NextLives
    <2>3. AbsentIsBlank'
      BY <2>1, <2>2, AbsentKept DEF CopyInv
    <2>4. CopiesAreEarlier'
      BY <2>2, <2>3, CopiesKept DEF CopyInv
    <2>5. TracesAgree'
      BY <2>1, <2>2, <2>3, TracesKept DEF CopyInv
    <2>6. QED
      BY <2>3, <2>4, <2>5 DEF CopyInv
  <1>3. QED
    BY <1>1, <1>2, HandOutInvariant, PTL DEF Spec

\* A copy, however old, is an earlier state: what it says of scheduling and of the
\* password still holds, for as long as the environment exists.
THEOREM CopiesAlwaysEarlier == Spec => []CopiesAreEarlier
  <1>1. CopyInv => CopiesAreEarlier
    BY DEF CopyInv
  <1>2. QED
    BY <1>1, CopyInvariant, PTL

\* An environment leaves files or containers on one Worker only, whatever clab, nclet
\* and the API server make of its deployment and its deletion.
THEOREM RunsOnOneWorkerAlways == Spec => []RunsOnOneWorker
  <1>1. CopyInv => RunsOnOneWorker
    BY DEF CopyInv, TracesAgree, Traces, RunsOnOneWorker
  <1>2. QED
    BY <1>1, CopyInvariant, PTL

\* A password that an nclet accepts is that of the environment and of its holder,
\* however old the copy is that the nclet compares it with.
THEOREM LoginsAlwaysGenuine == Spec => []LoginsAreGenuine
  <1>1. CopyInv => LoginsAreGenuine
    <2> SUFFICES ASSUME CopyInv, NEW w \in Workers, NEW e \in Envs, NEW password,
                        LoginAccepted(w, e, password)
                 PROVE  /\ password # NoPassword
                        /\ Exists(pe[e]) => password = pe[e].password
                        /\ holders[e] # 0 => password = issued[e]
      BY DEF LoginsAreGenuine
    <2>1. Fits(cache[w][e], pe[e], holders[e], issued[e])
      BY CopiesFit, ProcessNames DEF CopyInv
    <2>2. IsTrue(cache[w][e].assigned) /\ password = cache[w][e].password
      BY DEF LoginAccepted, SeenBy
    <2>3. QED
      BY <2>1, <2>2 DEF Fits
  <1>2. QED
    BY <1>1, CopyInvariant, PTL

\* What ProblemReconciler counts are copies whose conditions are in order, and those with
\* the stored version are the stored environments.
LEMMA CopiesCount ==
    ASSUME HandOutInv, CopyInv
    PROVE  EnvInv
  <1>1. TypeOK /\ "manager" \in Processes
    BY ProcessNames DEF HandOutInv
  <1>2. /\ pe \in [Envs -> ProblemEnvironment]
        /\ cache \in [Processes -> [Envs -> ProblemEnvironment]]
    BY <1>1 DEF TypeOK, APITypeOK
  <1>3. \A e \in Envs : Ranked(cache["manager"][e])
    BY <1>1, <1>2 DEF CopyInv, CopiesAreEarlier, Ranked
  <1>4. \A e \in Envs : Ranked(pe[e])
    BY <1>2 DEF HandOutInv, ConditionsOrdered, Ranked
  <1>5. \A e \in Envs : IsTrue(pe[e].assigned) => Exists(pe[e])
    <2> SUFFICES ASSUME NEW e \in Envs, ~Exists(pe[e]) PROVE ~IsTrue(pe[e].assigned)
      OBVIOUS
    <2>1. pe[e] = Blank(pe[e].life)
      BY DEF CopyInv, AbsentIsBlank
    <2>2. pe[e].life \in {"unborn", "live", "gone"}
      BY <1>2 DEF ProblemEnvironment, Exists
    <2>3. QED
      BY <2>1, <2>2, BlankSound
  <1>6. \A e \in Envs : <<"manager", e>> \in fresh => cache["manager"][e] = pe[e]
    BY DEF HandOutInv, CacheCoherent
  <1>7. QED
    BY <1>2, <1>3, <1>4, <1>5, <1>6 DEF EnvInv, Sound

\* What the manager has of the Problem under the stored version is the stored Problem.
\* Of the steps of Netcon only those of ProblemReconciler and its watches touch it.
LEMMA ProblemKept ==
    ASSUME HandOutInv, CopyInv, ProblemInv, [Next]_vars
    PROVE  ProblemInv'
  <1>1. EnvInv
    BY CopiesCount
  <1>2. CASE UNCHANGED problemVars
    BY <1>2 DEF problemVars, ProblemInv, CountsAddUp
  <1>3. CASE ManagerReconcilesProblem
    BY <1>1, <1>3, ReconcileKeeps DEF ManagerReconcilesProblem
  <1>4. CASE UNCHANGED problem /\ problemCache' = View(problem) /\ problemFresh' = TRUE
    BY <1>4 DEF ProblemInv, CountsAddUp, View
  <1>5. CASE ChangeProblem
    <2>1. problemFresh' = FALSE
      BY <1>5 DEF ChangeProblem, ScaleProblem, DeleteProblem, CollectProblem
    <2>2. problem' \in Problem /\ problem'.replicas = problem.replicas
      BY <1>5 DEF ChangeProblem, ScaleProblem, DeleteProblem, CollectProblem, ProblemInv, Problem,
                  ProblemLives
    <2>3. QED
      BY <2>1, <2>2 DEF ProblemInv, CountsAddUp
  <1>6. ASSUME NEW p, RestartProgram(p) PROVE ProblemInv'
    <2>1. CASE p = "manager"
      BY <1>4, <1>6, <2>1 DEF RestartProgram
    <2>2. CASE p # "manager"
      BY <1>2, <1>6, <2>2 DEF RestartProgram
    <2>3. QED
      BY <2>1, <2>2
  <1>7. CASE WatchProblem
    BY <1>4, <1>7 DEF WatchProblem, ObserveProblem
  <1>8. QED
    BY <1>2, <1>3, <1>5, <1>6, <1>7 DEF Next, vars, Watch, CollectGarbage, ManagerReconciles, Users,
       WatchWorkers, ChangeWorkers, NcletReconciles, CrashNclet, Containers

\* What ProblemReconciler counts, and what it goes by, are in order in every state.
LEMMA ReconcilerInvariant == Spec => [](EnvInv /\ ProblemInv)
  <1>1. Init => ProblemInv
    <2> SUFFICES ASSUME Init PROVE ProblemInv
      OBVIOUS
    <2>1. ProblemTypeOK /\ problemFresh = FALSE
      BY InitTypes DEF TypeOK, Init, ProblemInit
    <2>2. CountsAddUp
      BY DEF Init, ProblemInit, CountsAddUp, NoReplicas
    <2>3. QED
      BY <2>1, <2>2 DEF ProblemInv, ProblemTypeOK
  <1>2. HandOutInv /\ CopyInv /\ ProblemInv /\ [Next]_vars => ProblemInv'
    BY ProblemKept
  <1>3. HandOutInv /\ CopyInv => EnvInv
    BY CopiesCount
  <1>4. QED
    BY <1>1, <1>2, <1>3, HandOutInvariant, CopyInvariant, PTL DEF Spec

\* The counts that ProblemReconciler writes to the status add up in every state,
\* although the list that they are taken from may be as old as it likes.
THEOREM CountsAlwaysAddUp == Spec => []CountsAddUp
  <1>1. ProblemInv => CountsAddUp
    BY DEF ProblemInv
  <1>2. QED
    BY <1>1, ReconcilerInvariant, PTL

\* ProblemReconciler scales towards the spec also among the programs as they are: gateway,
\* kubectl, nclets and restarts included.
THEOREM ScalesAlwaysTowardsDesired == Spec => ScalesTowardsDesired
  <1>1. EnvInv /\ ProblemInv => ScalingStep
    BY ScalingStepHolds
  <1>2. QED
    BY <1>1, ReconcilerInvariant, PTL DEF ScalesTowardsDesired

-----------------------------------------------------------------------------
(***************************************************************************)
(* Wake-ups: what a controller will not come back to needs nothing more    *)
(* from it.                                                                *)
(***************************************************************************)

\* The controller-manager forgets no environment, whatever else happens: lost and refused
\* updates, restarts and lagging caches included.
THEOREM ManagerNeverForgets == Spec => []ManagerForgetsNothing
  <1>1. Init => ManagerForgetsNothing
    BY DEF Init, APIInit, Blank, ManagerForgetsNothing
  <1>2. HandOutInv /\ ManagerForgetsNothing /\ [Next]_vars => ManagerForgetsNothing'
    <2> SUFFICES ASSUME HandOutInv, ManagerForgetsNothing, [Next]_vars, NEW e \in Envs,
                        pe'[e].life = "live", ~Pending("manager", e)'
                 PROVE  IsTrue(pe'[e].scheduled) /\ ReadyFollows(pe'[e])
      BY DEF ManagerForgetsNothing, Pending, ReadyFollows
    <2>1. TypeOK /\ CacheCoherent /\ "manager" \notin Workers
      BY ProgramsAreNoWorkers DEF HandOutInv
    <2>2. Quiet("manager", e) \/ EnvironmentControllerStep(e)
      BY <2>1, OthersQuiet, ProcessNames
    <2>3. CASE Quiet("manager", e)
      <3>1. pe'[e] = pe[e] /\ ~Pending("manager", e)
        BY <2>3 DEF Quiet, Exists
      <3>2. QED
        BY <3>1 DEF ManagerForgetsNothing
    <2>4. CASE EnvironmentControllerStep(e)
      BY <2>1, <2>4, ManagerRests
    <2>5. QED
      BY <2>2, <2>3, <2>4
  <1>3. QED
    BY <1>1, <1>2, HandOutInvariant, PTL DEF Spec

\* Nor does an nclet forget an environment of its Worker.
THEOREM NcletNeverForgets == Spec => []NcletForgetsNothing
  <1>1. Init => NcletForgetsNothing
    BY DEF Init, APIInit, Blank, NcletForgetsNothing, IsTrue, ConditionStatus
  <1>2. HandOutInv /\ CopyInv /\ NcletForgetsNothing /\ [Next]_vars => NcletForgetsNothing'
    <2> SUFFICES ASSUME HandOutInv, CopyInv, NcletForgetsNothing, [Next]_vars,
                        NEW w \in Workers, NEW e \in Envs, ~Pending(w, e)',
                        IsTrue(pe'[e].scheduled), pe'[e].worker = w
                 PROVE  /\ pe'[e].life = "terminating"
                        /\ HasFinalizer(pe'[e]) => pe'[e].ready = "DestroyFailed"
      BY DEF NcletForgetsNothing, Pending, HasFinalizer
    <2>1. TypeOK /\ CacheCoherent /\ AbsentIsBlank /\ w # "manager"
      BY ProgramsAreNoWorkers DEF HandOutInv, CopyInv
    <2>2. Quiet(w, e) \/ NcletStep(w, e)
      BY <2>1, OthersQuiet, ProcessNames
    <2>3. CASE Quiet(w, e)
      <3>1. Exists(pe[e]) \/ ~IsTrue(pe[e].scheduled)
        <4>1. ~IsTrue(Blank(pe[e].life).scheduled)
          BY DEF Blank, IsTrue, ConditionStatus
        <4>2. QED
          BY <2>1, <4>1 DEF AbsentIsBlank
      <3>2. pe'[e] = pe[e] /\ ~Pending(w, e)
        BY <2>3, <3>1 DEF Quiet
      <3>3. QED
        BY <3>2 DEF NcletForgetsNothing
    <2>4. CASE NcletStep(w, e)
      BY <2>1, <2>4, NcletRests
    <2>5. QED
      BY <2>2, <2>3, <2>4
  <1>3. QED
    BY <1>1, <1>2, HandOutInvariant, CopyInvariant, PTL DEF Spec

\* ProblemReconciler rests only when its work is done also among the programs as they are.
THEOREM RestsAlwaysWhenDone == Spec => []RestsWhenDone
  <1>1. Init => RestsWhenDone
    BY DEF Init, ProblemInit, RestsWhenDone, AllSeen
  <1>2. HandOutInv /\ EnvInv /\ ProblemInv /\ RestsWhenDone /\ [Next]_vars => RestsWhenDone'
    <2> SUFFICES ASSUME HandOutInv, EnvInv, ProblemInv, RestsWhenDone, [Next]_vars
                 PROVE  RestsWhenDone'
      OBVIOUS
    <2> DEFINE key == <<"manager", "problem">>
    <2>t. TypeOK /\ APITypeOK
      BY DEF HandOutInv, TypeOK
    <2>0. ASSUME key \in queue' PROVE RestsWhenDone'
      BY <2>0 DEF RestsWhenDone
    <2>1. ASSUME key \in queue => key \in queue', UNCHANGED problemVars,
                 (UNCHANGED <<pe, fresh>>) \/ \E stored : Store(stored)
          PROVE  RestsWhenDone'
      BY <2>1, StoreSeen, RestKept DEF AllSeen, problemVars
    <2>2. ASSUME NEW p \in Processes, Watch(p) \/ RestartProgram(p) PROVE RestsWhenDone'
      <3>1. CASE p = "manager"
        BY <2>0, <2>2, <3>1 DEF Watch, Observe, RestartProgram, Restart, Restarted, EventKeys,
           Controllers
      <3>2. CASE p # "manager"
        <4>1. /\ UNCHANGED <<pe, problemVars>> /\ (key \in queue => key \in queue')
              /\ \A e \in Envs : <<"manager", e>> \in fresh' => <<"manager", e>> \in fresh
          BY <2>2, <3>2 DEF Watch, Observe, RestartProgram, Restart, Restarted
        <4>2. QED
          BY <4>1, RestKept DEF AllSeen, problemVars
      <3>3. QED
        BY <3>1, <3>2
    <2>3. ASSUME NEW e \in Envs, CollectGarbage(e) PROVE RestsWhenDone'
      <3>1. UNCHANGED <<queue, problemVars>> /\ \E stored : Store(stored)
        BY <2>3 DEF CollectGarbage, FinishForegroundDeletion, CollectChild
      <3>2. QED
        BY <2>1, <3>1
    <2>4. ASSUME NEW e \in Envs, ManagerReconciles(e) PROVE RestsWhenDone'
      <3>1. (key \in queue => key \in queue') /\ UNCHANGED problemVars
        BY <2>4, <2>t, ManagerKeys, ProblemIsNoEnv DEF ManagerReconciles
      <3>2. \E stored : Store(stored)
        BY <2>4, <2>t, ManagerStores DEF ManagerReconciles
      <3>3. QED
        BY <2>1, <3>1, <3>2
    <2>5. ASSUME NEW e \in Envs, Users(e) PROVE RestsWhenDone'
      <3>1. CASE GatewayStep(e) \/ KubectlDelete(e)
        <4>1. UNCHANGED <<queue, problemVars>>
              /\ ((UNCHANGED <<pe, fresh>>) \/ \E stored : Store(stored))
          BY <2>5, <3>1 DEF Users, GatewayStep, AcquireProblemEnvironment,
             ReleaseProblemEnvironment, KubectlDelete
        <4>2. QED
          BY <2>1, <4>1
      <3>2. ASSUME UNCHANGED <<pe, queue>>, fresh' \ ({"kubectl"} \X Envs) \subseteq fresh
            PROVE  RestsWhenDone'
        BY <2>5, <3>2, RestKept DEF Users, AllSeen, problemVars
      <3>3. CASE KubectlGet(e)
        BY <3>2, <3>3 DEF KubectlGet
      <3>4. ASSUME NEW new, KubectlEnd(e, new) PROVE RestsWhenDone'
        <4>1. UNCHANGED <<queue, problemVars>>
          BY <2>5, <3>4 DEF KubectlEnd, Users
        <4>2. \A f \in Envs : <<"manager", f>> \in fresh' => <<"manager", f>> \in fresh /\ pe'[f] = pe[f]
          BY <3>4 DEF KubectlEnd
        <4>3. QED
          BY <4>1, <4>2, RestKept DEF AllSeen, problemVars
      <3>5. QED
        BY <2>5, <3>1, <3>3, <3>4 DEF Users, KubectlStep, KubectlAssign, KubectlUnassign
    <2>6. CASE ManagerReconcilesProblem
      BY <2>6, ReconcileRests DEF ManagerReconcilesProblem
    <2>7. CASE WatchProblem
      BY <2>0, <2>7 DEF WatchProblem, ObserveProblem
    <2>8. CASE ChangeProblem
      <3>1. ~AllSeen'
        BY <2>8 DEF ChangeProblem, ScaleProblem, DeleteProblem, CollectProblem, AllSeen
      <3>2. QED
        BY <3>1 DEF RestsWhenDone
    <2>9. CASE WatchWorkers \/ ChangeWorkers \/ UNCHANGED vars
      BY <2>1, <2>9 DEF WatchWorkers, ChangeWorkers, vars, apiVars
    <2>10. ASSUME NEW w \in Workers, NEW e \in Envs, NcletReconciles(w, e) PROVE RestsWhenDone'
      <3>1. (key \in queue => key \in queue') /\ UNCHANGED problemVars
        BY <2>10, NcletKeys, ProblemIsNoEnv DEF NcletReconciles
      <3>2. QED
        BY <2>1, <2>10, <3>1, NcletStores DEF NcletReconciles
    <2>11. ASSUME NEW w \in Workers, NEW e \in Envs, CrashNclet(w, e) PROVE RestsWhenDone'
      <3>1. w # "manager"
        BY ProgramsAreNoWorkers
      <3>2. /\ UNCHANGED <<pe, problemVars>> /\ (key \in queue => key \in queue')
            /\ \A f \in Envs : <<"manager", f>> \in fresh' => <<"manager", f>> \in fresh
        BY <2>11, <3>1 DEF CrashNclet, CrashWhileDeploying, Restarted
      <3>3. QED
        BY <3>2, RestKept DEF AllSeen, problemVars
    <2>12. ASSUME NEW w \in Workers, NEW e \in Envs, Containers(w, e) PROVE RestsWhenDone'
      BY <2>1, <2>12 DEF Containers, ContainersComeUp, ContainerFails, apiVars
    <2>13. QED
      BY <2>2, <2>3, <2>4, <2>5, <2>6, <2>7, <2>8, <2>9, <2>10, <2>11, <2>12 DEF Next
  <1>3. QED
    BY <1>1, <1>2, HandOutInvariant, ReconcilerInvariant, PTL DEF Spec
=============================================================================
