---------------------------- MODULE ReplicasProofs ----------------------------
(***************************************************************************)
(* Theorems about Replicas, for every number of environments and every     *)
(* bound on the replicas.                                                  *)
(***************************************************************************)
EXTENDS Replicas, ReconcilerProofs

\* No step of Replicas breaks the invariant.
LEMMA ReplicasInvInductive ==
    /\ Init => EnvInv /\ ProblemInv
    /\ EnvInv /\ ProblemInv /\ [Next]_vars => EnvInv' /\ ProblemInv'
<1>0. "manager" \in Processes
    BY DEF Processes, Controllers
<1>1. Init => EnvInv /\ ProblemInv
    <2> SUFFICES ASSUME Init PROVE EnvInv /\ ProblemInv
        OBVIOUS
    <2>1. pe = [e \in Envs |-> Blank("unborn")] /\ cache = [p \in Processes |-> pe]
        BY DEF Init, APIInit
    <2>2. EnvInv
        BY <1>0, <2>1, BlankSound DEF EnvInv, Sound
    <2>3. NoReplicas \in Replicas
        BY DEF NoReplicas, Replicas
    <2>4. PICK n \in 0..MaxReplicas :
              problem = [life |-> "live", desired |-> n, replicas |-> NoReplicas]
        BY DEF Init, ProblemInit
    <2>5. problem \in Problem /\ problem.replicas = NoReplicas /\ problemFresh = FALSE
        BY <2>3, <2>4 DEF Init, ProblemInit, Problem, ProblemLives
    <2>6. ProblemInv
        <3>1. CountsAddUp
            BY <2>5 DEF CountsAddUp, NoReplicas
        <3> QED
            BY <2>5, <3>1 DEF ProblemInv
    <2> QED
        BY <2>2, <2>6
<1> SUFFICES ASSUME EnvInv, ProblemInv, [Next]_vars PROVE EnvInv' /\ ProblemInv'
    BY <1>1
<1>2. UNCHANGED apiVars => EnvInv'
    BY DEF apiVars, EnvInv, Sound, Ranked
<1>3. UNCHANGED problemVars => ProblemInv'
    BY DEF problemVars, ProblemInv, CountsAddUp
<1>4. CASE Watch
    <2>1. pe' = pe /\ cache' = [cache EXCEPT !["manager"] = pe]
        BY <1>4 DEF Watch, Observe
    <2>2. cache' = [p \in Processes |-> cache'[p]] /\ cache'["manager"] = pe
        BY <1>0, <2>1 DEF EnvInv
    <2>3. EnvInv'
        BY <2>1, <2>2 DEF EnvInv, Sound, Ranked
    <2> QED
        BY <1>3, <1>4, <2>3 DEF Watch
<1>5. CASE ObserveProblem
    <2>1. UNCHANGED <<problem, pe, cache, fresh>> /\ problemCache' = View(problem) /\ problemFresh' = TRUE
        BY <1>5 DEF ObserveProblem
    <2> QED
        BY <2>1 DEF EnvInv, Sound, Ranked, Exists, ProblemInv, CountsAddUp, View
<1>6. CASE ScaleProblem \/ DeleteProblem \/ CollectProblem
    <2>1. problemFresh' = FALSE /\ UNCHANGED apiVars
        BY <1>6 DEF ScaleProblem, DeleteProblem, CollectProblem
    <2>2. problem' \in Problem /\ problem'.replicas = problem.replicas
        BY <1>6 DEF ScaleProblem, DeleteProblem, CollectProblem, ProblemInv, Problem, ProblemLives
    <2> QED
        BY <1>2, <2>1, <2>2 DEF ProblemInv, CountsAddUp
<1>7. ASSUME NEW e \in Envs, Serve(e) \/ Assign(e) \/ Vanish(e) \/ CollectChildOf(e)
      PROVE  EnvInv' /\ ProblemInv'
    <2>0. Sound(pe[e])
        BY DEF EnvInv
    <2>1. UNCHANGED problemVars /\ cache' = cache
        BY <1>7 DEF Serve, Assign, Vanish, CollectChildOf, CollectChild
    <2>2. \E o : Sound(o) /\ Store([pe EXCEPT ![e] = o])
        <3>1. CASE Serve(e)
            <4>1. PICK w \in Workers, password \in Passwords :
                      Store([pe EXCEPT ![e] =
                          [life |-> "live", finalizers |-> {"nclet"}, worker |-> w,
                           scheduled |-> "Scheduled", deployed |-> "Deployed", ready |-> "Ready",
                           assigned |-> "NotAssigned", containers |-> "ready",
                           password |-> password]])
                BY <3>1 DEF Serve
            <4>2. Sound([life |-> "live", finalizers |-> {"nclet"}, worker |-> w,
                         scheduled |-> "Scheduled", deployed |-> "Deployed", ready |-> "Ready",
                         assigned |-> "NotAssigned", containers |-> "ready",
                         password |-> password])
                BY DEF Sound, Ranked, Exists, ProblemEnvironment, Finalizers, ScheduledConditions,
                   DeployedConditions, ReadyConditions, AssignedConditions, ContainerStatuses,
                   IsTrue, ConditionStatus, ReasonsOfTrue
            <4> QED
                BY <4>1, <4>2
        <3>2. CASE Assign(e)
            <4>1. Store([pe EXCEPT ![e] = [pe[e] EXCEPT !.assigned = "Assigned"]])
                BY <3>2 DEF Assign
            <4>2. Exists(pe[e])
                BY <3>2 DEF Assign
            <4>3. Sound([pe[e] EXCEPT !.assigned = "Assigned"])
                BY <2>0, <4>2 DEF Sound, Ranked, ProblemEnvironment, AssignedConditions, Exists
            <4> QED
                BY <4>1, <4>3
        <3>3. CASE Vanish(e)
            BY <3>3, BlankSound DEF Vanish
        <3>4. CASE CollectChildOf(e)
            BY <2>0, <3>4, DeleteSound DEF CollectChildOf, CollectChild
        <3> QED
            BY <1>7, <3>1, <3>2, <3>3, <3>4
    <2> QED
        BY <1>3, <2>1, <2>2, StoreOneKeeps
<1>8. CASE UNCHANGED vars
    BY <1>2, <1>3, <1>8 DEF vars
<1> QED
    BY <1>4, <1>5, <1>6, <1>7, <1>8, ReconcileKeeps DEF Next

\* The counts in the status add up in every state, however old the list they come from.
THEOREM ReplicaCountsAddUp == Spec => []CountsAddUp
<1>1. ProblemInv => CountsAddUp
    BY DEF ProblemInv
<1> QED
    BY <1>1, ReplicasInvInductive, PTL DEF Spec

\* ProblemReconciler scales towards the spec: with everything seen it never overshoots,
\* and it never takes an environment away that it sees to be assigned.
THEOREM ScalesAlwaysTowardsDesired == Spec => ScalesTowardsDesired
<1>1. EnvInv /\ ProblemInv => ScalingStep
    BY ScalingStepHolds
<1> QED
    BY <1>1, ReplicasInvInductive, PTL DEF Spec, ScalesTowardsDesired

\* ProblemReconciler rests only when its work is done: whoever changes an environment or
\* the Problem makes the manager's copy old, and what brings the copy up to date queues
\* the key.
THEOREM ReconcilerRestsWhenDone == Spec => []RestsWhenDone
<1>1. Init => RestsWhenDone
    BY DEF Init, ProblemInit, RestsWhenDone, AllSeen
<1>2. EnvInv /\ ProblemInv /\ RestsWhenDone /\ [Next]_vars => RestsWhenDone'
    <2> SUFFICES ASSUME EnvInv, ProblemInv, RestsWhenDone, [Next]_vars PROVE RestsWhenDone'
        OBVIOUS
    <2>1. CASE ReconcileProblem
        BY <2>1, ReconcileRests
    <2>2. CASE Watch \/ ObserveProblem
        <3>1. <<"manager", "problem">> \in queue'
            BY <2>2 DEF Watch, Observe, EventKeys, Controllers, ObserveProblem
        <3> QED
            BY <3>1 DEF RestsWhenDone
    <2>3. CASE ScaleProblem \/ DeleteProblem \/ CollectProblem
        <3>1. ~AllSeen'
            BY <2>3 DEF ScaleProblem, DeleteProblem, CollectProblem, AllSeen
        <3> QED
            BY <3>1 DEF RestsWhenDone
    <2>4. ASSUME NEW e \in Envs, Serve(e) \/ Assign(e) \/ Vanish(e) \/ CollectChildOf(e)
          PROVE  RestsWhenDone'
        <3>1. UNCHANGED <<queue, problemVars>> /\ \E new : Store(new)
            BY <2>4 DEF Serve, Assign, Vanish, CollectChildOf, CollectChild
        <3> QED
            BY <3>1, StoreSeen, RestKept DEF AllSeen, problemVars
    <2>5. CASE UNCHANGED vars
        BY <2>5, RestKept DEF vars, apiVars, problemVars, AllSeen
    <2> QED
        BY <2>1, <2>2, <2>3, <2>4, <2>5 DEF Next
<1> QED
    BY <1>1, <1>2, ReplicasInvInductive, PTL DEF Spec
=============================================================================
