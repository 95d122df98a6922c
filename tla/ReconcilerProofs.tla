--------------------------- MODULE ReconcilerProofs ---------------------------
(***************************************************************************)
(* What a reconciliation of ProblemReconciler does, for every number of    *)
(* environments and every bound on the replicas.  The lemmas serve both    *)
(* modules that ProblemReconciler is a part of, Replicas and Netcon.       *)
(***************************************************************************)
EXTENDS ProblemController, FiniteSetTheorems, TLAPS

(***************************************************************************)
(* Environments.                                                           *)
(***************************************************************************)

\* An environment that is ready has been scheduled ...
Ranked(o) == o \in ProblemEnvironment /\ (IsTrue(o.ready) => IsTrue(o.scheduled))

\* ... and one that is stored as assigned exists.
Sound(o) == Ranked(o) /\ (IsTrue(o.assigned) => Exists(o))

\* So is one that does not exist, or has just been created.
LEMMA BlankSound ==
    ASSUME NEW life \in {"unborn", "live", "gone"}
    PROVE  /\ Sound(Blank(life)) /\ Blank(life).life = life
           /\ ~IsTrue(Blank(life).assigned)
BY NoWorkerAssumption DEF Sound, Ranked, Exists, Blank, ProblemEnvironment, Finalizers, ScheduledConditions,
   DeployedConditions, ReadyConditions, AssignedConditions, ContainerStatuses, IsTrue,
   ConditionStatus

\* What a Delete makes of an environment: it does not live on, and one that does not exist
\* is not touched.
LEMMA DeleteSound ==
    ASSUME NEW o, Sound(o), NEW foreground \in BOOLEAN
    PROVE  /\ Sound(AfterDelete(o, foreground))
           /\ Exists(o) => AfterDelete(o, foreground).life # "live"
           /\ ~Exists(o) => AfterDelete(o, foreground) = o
<1> DEFINE marked == IF foreground THEN o.finalizers \cup {"foreground"} ELSE o.finalizers
           n == [o EXCEPT !.life = "terminating", !.finalizers = marked]
<1>1. Sound(n) /\ n.life = "terminating"
    BY DEF Sound, Ranked, ProblemEnvironment, Finalizers, Exists
<1>2. Sound(Settle(n)) /\ Settle(n).life # "live"
    BY <1>1, BlankSound DEF Settle
<1> QED
    BY <1>2 DEF AfterDelete

-----------------------------------------------------------------------------
(***************************************************************************)
(* The invariant: what is fresh is what is stored.                         *)
(***************************************************************************)
EnvInv ==
    /\ pe = [e \in Envs |-> pe[e]]
    /\ cache = [p \in Processes |-> cache[p]]
    /\ \A e \in Envs : Sound(pe[e]) /\ Ranked(cache["manager"][e])
    /\ \A e \in Envs : <<"manager", e>> \in fresh => cache["manager"][e] = pe[e]

ProblemInv ==
    /\ problem \in Problem /\ problemFresh \in BOOLEAN
    /\ problemFresh => problemCache = View(problem)
    /\ CountsAddUp

\* A write of sound environments.
LEMMA StoreKeeps ==
    ASSUME EnvInv, NEW new, Store(new), cache' = cache,
           new = [e \in Envs |-> new[e]], \A e \in Envs : Sound(new[e])
    PROVE  EnvInv'
<1>1. \A e \in Envs : <<"manager", e>> \in fresh' => cache'["manager"][e] = pe'[e]
    BY DEF EnvInv, Store
<1> QED
    BY <1>1 DEF EnvInv, Store, Sound, Ranked

\* A write of one.
LEMMA StoreOneKeeps ==
    ASSUME EnvInv, NEW e \in Envs, NEW o, Sound(o), Store([pe EXCEPT ![e] = o]), cache' = cache
    PROVE  EnvInv'
<1> DEFINE new == [pe EXCEPT ![e] = o]
<1>1. new = [d \in Envs |-> new[d]] /\ \A d \in Envs : Sound(new[d])
    BY DEF EnvInv
<1> HIDE DEF new
<1>2. Store(new)
    BY DEF new
<1> QED
    BY <1>1, <1>2, StoreKeeps

\* Sets of environments are finite.
LEMMA EnvSetFinite ==
    ASSUME NEW S \in SUBSET Envs
    PROVE  IsFiniteSet(S) /\ Cardinality(S) \in Nat
BY EnvsFinite, FS_Subset, FS_CardinalityType

\* Counts taken from sound copies add up, whatever their age.
LEMMA CountsFit ==
    ASSUME EnvInv
    PROVE  /\ CountReplicas \in Replicas
           /\ CountReplicas.assignable + CountReplicas.assigned <= CountReplicas.scheduled
           /\ CountReplicas.scheduled <= CountReplicas.total
<1> DEFINE S == ChildrenThat(LAMBDA o : IsTrue(o.scheduled))
           A == ChildrenThat(LAMBDA o : IsTrue(o.ready) /\ ~IsTrue(o.assigned))
           B == ChildrenThat(LAMBDA o : IsTrue(o.ready) /\ IsTrue(o.assigned))
<1>1. /\ Children \subseteq Envs /\ S \subseteq Children /\ A \cap B = {}
      /\ A \cup B \subseteq S
    BY DEF ChildrenThat, Children, EnvInv, Sound, Ranked
<1>2. CountReplicas = [total |-> Cardinality(Children), scheduled |-> Cardinality(S),
                       assignable |-> Cardinality(A), assigned |-> Cardinality(B)]
    BY DEF CountReplicas
<1> HIDE DEF S, A, B
<1>3. /\ \A T \in {Children, S, A, B, A \cup B} : IsFiniteSet(T) /\ Cardinality(T) \in Nat
    BY <1>1, EnvSetFinite
<1>4. Cardinality(A \cup B) = Cardinality(A) + Cardinality(B) - Cardinality(A \cap B)
    BY <1>3, FS_Union
<1>5. Cardinality(A \cap B) = 0
    BY <1>1, FS_EmptySet
<1>6. Cardinality(A \cup B) <= Cardinality(S) /\ Cardinality(S) <= Cardinality(Children)
    BY <1>1, <1>3, FS_Subset
<1> QED
    BY <1>2, <1>3, <1>4, <1>5, <1>6 DEF Replicas

-----------------------------------------------------------------------------
(***************************************************************************)
(* What a reconciliation does.                                             *)
(***************************************************************************)

\* It deletes the environments of S.
Deletes(S) == Store([e \in Envs |-> IF e \in S THEN AfterDelete(pe[e], FALSE) ELSE pe[e]])

\* It leaves the environments alone, creates one because some are missing, or deletes at
\* most the surplus.
EnvironmentsChange ==
    \/ UNCHANGED <<pe, fresh>>
    \/ /\ problemCache.desired > Cardinality(AssignableChildren)
       /\ \E e \in Envs : pe[e].life = "unborn" /\ Store([pe EXCEPT ![e] = Blank("live")])
    \/ /\ problemCache.desired < Cardinality(AssignableChildren)
       /\ \E S \in SUBSET DeletableChildren :
             /\ Cardinality(S) <= Cardinality(AssignableChildren) - problemCache.desired
             /\ Deletes(S)

\* Of the Problem it writes the counts only.
ProblemChange ==
    \/ UNCHANGED <<problem, problemFresh>>
    \/ /\ problemFresh
       /\ problem' = [problem EXCEPT !.replicas = CountReplicas]
       /\ problemFresh' = (problem.replicas = CountReplicas)

\* That is all.
LEMMA ReconcileDoes ==
    ASSUME ReconcileProblem
    PROVE  EnvironmentsChange /\ ProblemChange /\ UNCHANGED <<cache, problemCache>>
<1> DEFINE surplus == Cardinality(AssignableChildren) - problemCache.desired
<1>1. UNCHANGED <<cache, problemCache>>
    BY DEF ReconcileProblem
<1>2. UpdateProblemStatus \/ ListFails => ProblemChange
    BY DEF UpdateProblemStatus, ListFails, ProblemChange
<1>3. CASE UNCHANGED <<pe, fresh>> /\ (UpdateProblemStatus \/ ListFails \/ UNCHANGED <<problem, problemFresh>>)
    BY <1>1, <1>2, <1>3 DEF EnvironmentsChange, ProblemChange
<1>4. CASE problemCache.desired > Cardinality(AssignableChildren) /\ CreateEnvironment
    BY <1>1, <1>2, <1>4 DEF CreateEnvironment, EnvironmentsChange
<1>5. CASE problemCache.desired < Cardinality(AssignableChildren) /\ DeleteSurplus(surplus)
    <2>1. PICK doomed \in kSubset(surplus, DeletableChildren) :
              IF \A e \in doomed : Exists(pe[e])
              THEN Deletes(doomed) /\ UpdateProblemStatus
              ELSE /\ \E deleted \in SUBSET {e \in doomed : Exists(pe[e])} : Deletes(deleted)
                   /\ UNCHANGED <<problem, problemFresh>>
        BY <1>5 DEF DeleteSurplus, Deletes
    <2>2. doomed \in SUBSET DeletableChildren /\ Cardinality(doomed) = surplus
        BY DEF kSubset
    <2>3. DeletableChildren \subseteq Envs
        BY DEF DeletableChildren, ChildrenThat, Children
    <2>4. PICK S \in SUBSET doomed : Deletes(S)
        BY <2>1
    <2>5. S \in SUBSET DeletableChildren /\ Cardinality(S) <= surplus
        BY <2>2, <2>3, EnvSetFinite, FS_Subset
    <2>6. ProblemChange
        BY <1>2, <2>1 DEF ProblemChange
    <2> QED
        BY <1>1, <1>5, <2>4, <2>5, <2>6 DEF EnvironmentsChange
<1> QED
    BY <1>3, <1>4, <1>5 DEF ReconcileProblem

\* Deletions keep the environments sound.
LEMMA DeletesKeeps ==
    ASSUME EnvInv, NEW S, Deletes(S), cache' = cache
    PROVE  EnvInv'
<1> DEFINE new == [e \in Envs |-> IF e \in S THEN AfterDelete(pe[e], FALSE) ELSE pe[e]]
<1>1. \A e \in Envs : Sound(AfterDelete(pe[e], FALSE)) /\ Sound(pe[e])
    BY DeleteSound DEF EnvInv
<1>2. new = [e \in Envs |-> new[e]] /\ \A e \in Envs : Sound(new[e])
    BY <1>1
<1>3. Store(new)
    BY DEF Deletes
<1> HIDE DEF new
<1> QED
    BY <1>2, <1>3, StoreKeeps

\* A reconciliation preserves the invariant.
LEMMA ReconcileKeeps ==
    ASSUME EnvInv, ProblemInv, ReconcileProblem
    PROVE  EnvInv' /\ ProblemInv'
<1>1. EnvironmentsChange /\ ProblemChange /\ UNCHANGED <<cache, problemCache>>
    BY ReconcileDoes
<1>2. EnvInv'
    <2>1. CASE UNCHANGED <<pe, fresh>>
        BY <1>1, <2>1 DEF EnvInv, Sound, Ranked
    <2>2. ASSUME NEW e \in Envs, Store([pe EXCEPT ![e] = Blank("live")]) PROVE EnvInv'
        BY <1>1, <2>2, BlankSound, StoreOneKeeps
    <2>3. ASSUME NEW S, Deletes(S) PROVE EnvInv'
        BY <1>1, <2>3, DeletesKeeps
    <2> QED
        BY <1>1, <2>1, <2>2, <2>3 DEF EnvironmentsChange
<1>3. ProblemInv'
    <2>1. CASE UNCHANGED <<problem, problemFresh>>
        BY <1>1, <2>1 DEF ProblemInv, CountsAddUp
    <2>2. CASE /\ problemFresh
               /\ problem' = [problem EXCEPT !.replicas = CountReplicas]
               /\ problemFresh' = (problem.replicas = CountReplicas)
        <3>1. /\ problem' \in Problem /\ problem'.replicas = CountReplicas
              /\ problem'.life = problem.life /\ problem'.desired = problem.desired
            BY <2>2, CountsFit DEF ProblemInv, Problem
        <3>2. CountsAddUp'
            BY <3>1, CountsFit DEF CountsAddUp
        <3> QED
            BY <1>1, <2>2, <3>1, <3>2 DEF ProblemInv, View
    <2> QED
        BY <1>1, <2>1, <2>2 DEF ProblemChange
<1> QED
    BY <1>2, <1>3

-----------------------------------------------------------------------------
(***************************************************************************)
(* Scaling.                                                                *)
(***************************************************************************)

\* What a reconciliation that has seen everything counts is what there is.
LEMMA AllSeenCounts ==
    ASSUME EnvInv, ProblemInv, AllSeen
    PROVE  AssignableChildren = Assignable /\ problemCache.desired = problem.desired
<1>1. \A e \in Envs : cache["manager"][e] = pe[e]
    BY DEF AllSeen, EnvInv
<1>2. AssignableChildren = Assignable
    BY <1>1 DEF AssignableChildren, ChildrenThat, Children, Exists, Assignable
<1> QED
    BY <1>2 DEF AllSeen, ProblemInv, View

\* A reconciliation that has seen everything moves the number of assignable environments
\* towards the desired one, and not past it.  A deletion takes at most the surplus away,
\* because it deletes at most as many environments as the surplus, of which some may have
\* been on their way already.
LEMMA ScaleStep ==
    ASSUME EnvInv, ProblemInv, AllSeen, ReconcileProblem
    PROVE  Between(Cardinality(Assignable)', Cardinality(Assignable), problem.desired)
<1> DEFINE n == Cardinality(Assignable)
<1>1. AssignableChildren = Assignable /\ problemCache.desired = problem.desired
    BY AllSeenCounts
<1>2. n \in Nat /\ problem.desired \in Nat /\ IsFiniteSet(Assignable) /\ Assignable \subseteq Envs
    BY EnvSetFinite, MaxReplicasAssumption DEF Assignable, ProblemInv, Problem
<1>3. EnvironmentsChange
    BY ReconcileDoes
<1>4. CASE pe' = pe
    <2>1. Assignable' = Assignable
        BY <1>4 DEF Assignable
    <2> QED
        BY <1>2, <2>1 DEF Between
<1>5. ASSUME n < problem.desired, NEW e \in Envs, pe[e].life = "unborn",
             Store([pe EXCEPT ![e] = Blank("live")])
      PROVE  Between(Cardinality(Assignable)', n, problem.desired)
    <2>1. pe' = [pe EXCEPT ![e] = Blank("live")]
        BY <1>5 DEF Store
    <2>2. pe'[e] = Blank("live") /\ \A d \in Envs \ {e} : pe'[d] = pe[d]
        BY <2>1 DEF EnvInv
    <2>3. pe'[e].life = "live" /\ ~IsTrue(pe'[e].assigned)
        BY <2>2, BlankSound
    <2>4. Assignable' = Assignable \cup {e} /\ e \notin Assignable
        BY <1>5, <2>2, <2>3 DEF Assignable
    <2>5. Cardinality(Assignable') = n + 1
        BY <1>2, <2>4, FS_AddElement
    <2> QED
        BY <1>2, <1>5, <2>5 DEF Between
<1>6. ASSUME problem.desired < n, NEW S \in SUBSET DeletableChildren,
             Cardinality(S) <= n - problem.desired, Deletes(S)
      PROVE  Between(Cardinality(Assignable)', n, problem.desired)
    <2>1. S \subseteq Envs
        BY DEF DeletableChildren, ChildrenThat, Children
    <2>2. IsFiniteSet(S) /\ Cardinality(S) \in Nat
        BY <2>1, EnvSetFinite
    <2>3. pe' = [e \in Envs |-> IF e \in S THEN AfterDelete(pe[e], FALSE) ELSE pe[e]]
        BY <1>6 DEF Deletes, Store
    <2>4. \A e \in S : Exists(pe[e])
        BY <1>6, <2>1 DEF DeletableChildren, ChildrenThat, Children, AllSeen, EnvInv
    <2>5. \A e \in S : pe'[e].life # "live"
        BY <2>1, <2>3, <2>4, DeleteSound DEF EnvInv
    <2>6. Assignable' = Assignable \ S
        BY <2>1, <2>3, <2>5 DEF Assignable
    <2>7. Cardinality(Assignable \ S) = n - Cardinality(Assignable \cap S)
        BY <1>2, FS_Difference
    <2>8. Cardinality(Assignable \cap S) \in Nat /\ Cardinality(Assignable \cap S) <= Cardinality(S)
        BY <2>2, FS_Intersection, FS_CardinalityType
    <2> QED
        BY <1>2, <1>6, <2>2, <2>6, <2>7, <2>8 DEF Between
<1> QED
    BY <1>1, <1>3, <1>4, <1>5, <1>6 DEF EnvironmentsChange

\* A reconciliation does not touch an environment that it sees to be assigned.
LEMMA AssignedStays ==
    ASSUME EnvInv, ReconcileProblem, NEW e \in Envs, <<"manager", e>> \in fresh,
           IsTrue(pe[e].assigned)
    PROVE  pe'[e] = pe[e]
<1>1. EnvironmentsChange
    BY ReconcileDoes
<1>2. pe[e].life # "unborn"
    BY DEF EnvInv, Sound, Ranked, Exists
<1>3. e \notin DeletableChildren
    BY DEF EnvInv, DeletableChildren, ChildrenThat
<1>4. ASSUME NEW d \in Envs, pe[d].life = "unborn", Store([pe EXCEPT ![d] = Blank("live")])
      PROVE  pe'[e] = pe[e]
    BY <1>2, <1>4 DEF Store, EnvInv
<1>5. ASSUME NEW S \in SUBSET DeletableChildren, Deletes(S) PROVE pe'[e] = pe[e]
    BY <1>3, <1>5 DEF Deletes, Store
<1> QED
    BY <1>1, <1>4, <1>5 DEF EnvironmentsChange

\* Both together.
LEMMA ScalingStepHolds ==
    ASSUME EnvInv, ProblemInv
    PROVE  ScalingStep
BY ScaleStep, AssignedStays DEF ScalingStep
-----------------------------------------------------------------------------
(***************************************************************************)
(* Rest.                                                                   *)
(***************************************************************************)

\* A write leaves a copy current only if it leaves the environment alone.
LEMMA StoreSeen ==
    ASSUME NEW new, Store(new), NEW p, NEW e, <<p, e>> \in fresh'
    PROVE  <<p, e>> \in fresh /\ pe'[e] = pe[e]
BY DEF Store

\* What a reconciliation that has seen everything writes to the status is right.
LEMMA AllSeenReplicas ==
    ASSUME EnvInv, ProblemInv, AllSeen
    PROVE  CountReplicas = ActualReplicas
<1>1. \A e \in Envs : cache["manager"][e] = pe[e]
    BY DEF AllSeen, EnvInv
<1>2. Children = ExistingThat(LAMBDA o : TRUE)
    BY <1>1 DEF Children, ExistingThat
<1>3. ChildrenThat(LAMBDA o : IsTrue(o.scheduled)) = ExistingThat(LAMBDA o : IsTrue(o.scheduled))
    BY <1>1 DEF ChildrenThat, Children, ExistingThat
<1>4. ChildrenThat(LAMBDA o : IsTrue(o.ready) /\ ~IsTrue(o.assigned))
          = ExistingThat(LAMBDA o : IsTrue(o.ready) /\ ~IsTrue(o.assigned))
    BY <1>1 DEF ChildrenThat, Children, ExistingThat
<1>5. ChildrenThat(LAMBDA o : IsTrue(o.ready) /\ IsTrue(o.assigned))
          = ExistingThat(LAMBDA o : IsTrue(o.ready) /\ IsTrue(o.assigned))
    BY <1>1 DEF ChildrenThat, Children, ExistingThat
<1> QED
    BY <1>2, <1>3, <1>4, <1>5 DEF CountReplicas, ActualReplicas

\* Rest is a matter of the environments and the Problem as they are stored.
LEMMA RestKept ==
    ASSUME RestsWhenDone,
           AllSeen' /\ <<"manager", "problem">> \notin queue' =>
               /\ AllSeen /\ <<"manager", "problem">> \notin queue
               /\ \A e \in Envs : pe'[e] = pe[e]
               /\ problem' = problem
    PROVE  RestsWhenDone'
<1> SUFFICES ASSUME AllSeen', <<"manager", "problem">> \notin queue'
             PROVE  RestsWhenDone'
    BY DEF RestsWhenDone
<1>1. \A e \in Envs : pe'[e] = pe[e]
    OBVIOUS
<1>2. Assignable' = Assignable /\ Dying' = Dying
    BY <1>1 DEF Assignable, Dying
<1>3. ActualReplicas' = ActualReplicas
    BY <1>1 DEF ActualReplicas, ExistingThat, Exists
<1> QED
    BY <1>2, <1>3 DEF RestsWhenDone

\* A reconciliation after which everything is still seen has changed nothing.
LEMMA SeenAfter ==
    ASSUME EnvInv, ProblemInv, ReconcileProblem, AllSeen'
    PROVE  AllSeen /\ problem' = problem /\ \A e \in Envs : pe'[e] = pe[e]
<1>1. EnvironmentsChange /\ ProblemChange
    BY ReconcileDoes
<1>2. (UNCHANGED <<pe, fresh>>) \/ \E new : Store(new)
    BY <1>1 DEF EnvironmentsChange, Deletes
<1>3. \A e \in Envs : <<"manager", e>> \in fresh /\ pe'[e] = pe[e]
    BY <1>2, StoreSeen DEF AllSeen
<1>4. problemFresh'
    BY DEF AllSeen
<1>5. problemFresh /\ problem' = problem
    BY <1>1, <1>4 DEF ProblemChange, ProblemInv, Problem
<1> QED
    BY <1>3, <1>5 DEF AllSeen

\* A surplus is left alone only if environments that are going were taken for it.
LEMMA SurplusIsDying ==
    ASSUME EnvInv, AllSeen, \A e \in Envs : pe'[e] = pe[e],
           NEW S \in SUBSET DeletableChildren, Deletes(S)
    PROVE  Cardinality(S) <= Cardinality(Dying)
<1>1. \A e \in Envs : cache["manager"][e] = pe[e]
    BY DEF AllSeen, EnvInv
<1>2. \A e \in S : e \in Envs /\ Exists(pe[e]) /\ ~IsTrue(pe[e].assigned)
    BY <1>1 DEF DeletableChildren, ChildrenThat, Children
<1>3. \A e \in S : pe[e] = AfterDelete(pe[e], FALSE)
    BY <1>2 DEF Deletes, Store
<1>4. \A e \in S : pe[e].life # "live"
    BY <1>2, <1>3, DeleteSound DEF EnvInv
<1>5. S \subseteq Dying /\ Dying \subseteq Envs
    BY <1>2, <1>4 DEF Dying, Exists
<1> QED
    BY <1>5, EnvSetFinite, FS_Subset

\* A reconciliation ends without asking for another only when its work is done.
LEMMA ReconcileRests ==
    ASSUME EnvInv, ProblemInv, ReconcileProblem
    PROVE  RestsWhenDone'
<1> DEFINE n == Cardinality(Assignable)
<1> SUFFICES ASSUME "listFails" \notin Events, AllSeen', <<"manager", "problem">> \notin queue',
                    problem'.life = "live"
             PROVE  /\ problem'.replicas = ActualReplicas'
                    /\ problem'.desired <= Cardinality(Assignable)'
                    /\ Cardinality(Assignable)' <= problem'.desired + Cardinality(Dying)'
    BY DEF RestsWhenDone
<1>1. /\ AllSeen /\ problem' = problem /\ \A e \in Envs : pe'[e] = pe[e]
    BY SeenAfter
<1>2. /\ AssignableChildren = Assignable /\ CountReplicas = ActualReplicas
      /\ problemCache.desired = problem.desired /\ problemCache.life = "live"
    BY <1>1, AllSeenCounts, AllSeenReplicas DEF AllSeen, ProblemInv, View
<1>3. Assignable' = Assignable /\ Dying' = Dying /\ ActualReplicas' = ActualReplicas
    BY <1>1 DEF Assignable, Dying, ActualReplicas, ExistingThat, Exists
<1>4. n \in Nat /\ problem.desired \in Nat /\ Cardinality(Dying) \in Nat
    BY EnvSetFinite, MaxReplicasAssumption DEF Assignable, Dying, ProblemInv, Problem
<1>5. <<"manager", "problem">> \in queue
    BY DEF ReconcileProblem
<1>6. ~ListFails /\ ~Requeue
    BY <1>5 DEF ListFails, Requeue
<1>7. ASSUME UpdateProblemStatus PROVE problem.replicas = ActualReplicas
    BY <1>1, <1>2, <1>6, <1>7 DEF UpdateProblemStatus, ProblemInv, Problem
<1>8. UpdateProblemStatus /\ problem.desired <= n /\ n <= problem.desired + Cardinality(Dying)
    <2>1. CASE problem.desired = n /\ UpdateProblemStatus
        BY <1>4, <2>1
    <2>2. CASE problem.desired > n /\ CreateEnvironment
        <3>1. PICK e \in Envs : pe[e].life = "unborn" /\ pe' = [pe EXCEPT ![e] = Blank("live")]
            BY <2>2 DEF CreateEnvironment, Store
        <3>2. pe'[e].life = "live"
            BY <3>1, BlankSound DEF EnvInv
        <3> QED
            BY <1>1, <3>1, <3>2
    <2>3. CASE problem.desired < n /\ DeleteSurplus(n - problem.desired)
        <3>1. PICK doomed \in kSubset(n - problem.desired, DeletableChildren) :
                  Deletes(doomed) /\ UpdateProblemStatus
            BY <1>6, <2>3 DEF DeleteSurplus, Deletes
        <3>2. doomed \in SUBSET DeletableChildren /\ Cardinality(doomed) = n - problem.desired
            BY DEF kSubset
        <3>3. n - problem.desired <= Cardinality(Dying)
            BY <1>1, <3>1, <3>2, SurplusIsDying
        <3> QED
            BY <1>4, <2>3, <3>1, <3>3
    <2> QED
        BY <1>2, <1>6, <2>1, <2>2, <2>3 DEF ReconcileProblem
<1> QED
    BY <1>1, <1>3, <1>7, <1>8
=============================================================================
