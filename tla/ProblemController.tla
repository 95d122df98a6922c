-------------------------- MODULE ProblemController --------------------------
(***************************************************************************)
(* A Problem and the ProblemReconciler of the controller-manager, which    *)
(* keeps the number of its assignable environments at .spec.               *)
(* assignableReplicas, and counts them in the status.                      *)
(***************************************************************************)
EXTENDS KubeAPI, FiniteSetsExt

CONSTANT MaxReplicas     \* bound on .spec.assignableReplicas

ASSUME MaxReplicasAssumption == MaxReplicas \in Nat

VARIABLES
    problem,             \* the stored Problem
    problemCache,        \* what the controller-manager has last seen and reads of it
    problemFresh         \* whether problemCache has the stored resourceVersion

problemVars == <<problem, problemCache, problemFresh>>

Replicas == [total : Nat, scheduled : Nat, assignable : Nat, assigned : Nat]

NoReplicas == [total |-> 0, scheduled |-> 0, assignable |-> 0, assigned |-> 0]

ProblemLives == {"live", "terminating", "gone"}

Problem == [life : ProblemLives, desired : 0..MaxReplicas, replicas : Replicas]

\* The reconciler reads the deletion timestamp and the spec of a Problem; its status
\* it only overwrites.
View(p) == [life |-> p.life, desired |-> p.desired]

ProblemInit ==
    /\ \E n \in 0..MaxReplicas :
           problem = [life |-> "live", desired |-> n, replicas |-> NoReplicas]
    /\ problemCache = View([problem EXCEPT !.life = "gone"])
    /\ problemFresh = FALSE

-----------------------------------------------------------------------------
(***************************************************************************)
(* Reconcile.  The list of children comes from the cache.                  *)
(***************************************************************************)
Children == {e \in Envs : Exists(cache["manager"][e])}

ChildrenThat(P(_)) == {e \in Children : P(cache["manager"][e])}

\* Mutant of AssignableChildren: those being deleted count as well.
AssignableChildrenAndDying == ChildrenThat(LAMBDA o : ~IsTrue(o.assigned))

\* What the reconciler counts against assignableReplicas: neither being deleted
\* nor assigned.
AssignableChildren ==
    ChildrenThat(LAMBDA o : o.life = "live" /\ ~IsTrue(o.assigned))

\* What its loop deletes: the loop does not look at the deletion timestamp.
DeletableChildren == ChildrenThat(LAMBDA o : ~IsTrue(o.assigned))

\* Mutant of CountReplicas: assigned environments count as assignable too.
CountReplicasTwice ==
    [total      |-> Cardinality(Children),
     scheduled  |-> Cardinality(ChildrenThat(LAMBDA o : IsTrue(o.scheduled))),
     assignable |-> Cardinality(ChildrenThat(LAMBDA o : IsTrue(o.ready))),
     assigned   |-> Cardinality(ChildrenThat(LAMBDA o : IsTrue(o.ready) /\ IsTrue(o.assigned)))]

CountReplicas ==
    [total      |-> Cardinality(Children),
     scheduled  |-> Cardinality(ChildrenThat(LAMBDA o : IsTrue(o.scheduled))),
     assignable |-> Cardinality(ChildrenThat(LAMBDA o : IsTrue(o.ready) /\ ~IsTrue(o.assigned))),
     assigned   |-> Cardinality(ChildrenThat(LAMBDA o : IsTrue(o.ready) /\ IsTrue(o.assigned)))]

\* The children cannot be listed: the reconciliation ends, and is not tried again.
ListFails ==
    /\ "listFails" \in Events
    /\ Done("manager", "problem")
    /\ UNCHANGED <<problem, problemFresh>>

\* updateStatus: refused when the cached Problem is not the stored one, and then
\* the key is queued again.
UpdateProblemStatus ==
    \/ ListFails
    \/ IF problemFresh /\ problem.life # "gone"
       THEN /\ problem' = [problem EXCEPT !.replicas = CountReplicas]
            /\ problemFresh' = (problem.replicas = CountReplicas)
            /\ Done("manager", "problem")
       ELSE UNCHANGED <<problem, problemFresh>> /\ Requeue

\* One environment is created per reconciliation, however many are missing.
CreateEnvironment ==
    \E e \in Envs :
        /\ pe[e].life = "unborn"
        /\ Store([pe EXCEPT ![e] = Blank("live")])
        /\ UpdateProblemStatus

\* Mutant of DeleteSurplus: the loop stops one too early.
DeleteSurplusButOne(surplus) ==
    \E doomed \in kSubset(surplus - 1, DeletableChildren) :
        /\ Store([e \in Envs |-> IF e \in doomed THEN AfterDelete(pe[e], FALSE) ELSE pe[e]])
        /\ UpdateProblemStatus

\* Delete the surplus, one call after the other, in the order of the list, which
\* is arbitrary.  A child that is gone by then makes Delete fail, which ends the
\* reconciliation with an error.
DeleteSurplus(surplus) ==
    \E doomed \in kSubset(surplus, DeletableChildren) :
        LET after(S) == [e \in Envs |-> IF e \in S THEN AfterDelete(pe[e], FALSE) ELSE pe[e]]
        IN  IF \A e \in doomed : Exists(pe[e])
            THEN Store(after(doomed)) /\ UpdateProblemStatus
            ELSE /\ \E deleted \in SUBSET {e \in doomed : Exists(pe[e])} : Store(after(deleted))
                 /\ UNCHANGED <<problem, problemFresh>>
                 /\ Requeue

ReconcileProblem ==
    LET desired == problemCache.desired
        assignable == Cardinality(AssignableChildren)
    IN  /\ <<"manager", "problem">> \in queue
        /\ \/ /\ problemCache.life = "gone"
              /\ Done("manager", "problem")
              /\ UNCHANGED <<pe, fresh, problem, problemFresh>>
           \/ /\ problemCache.life = "live"
              /\ ListFails
              /\ UNCHANGED <<pe, fresh>>
           \/ /\ \/ problemCache.life = "terminating"
                 \/ problemCache.life = "live" /\ desired = assignable
              /\ UpdateProblemStatus
              /\ UNCHANGED <<pe, fresh>>
           \/ /\ problemCache.life = "live" /\ desired > assignable
              /\ CreateEnvironment
           \/ /\ problemCache.life = "live" /\ desired < assignable
              /\ DeleteSurplus(assignable - desired)
        /\ UNCHANGED <<cache, problemCache>>

-----------------------------------------------------------------------------
(***************************************************************************)
(* The Problem's other writers, its watch and the garbage collector.       *)
(***************************************************************************)
ScaleProblem ==
    /\ "scale" \in Events
    /\ problem.life = "live"
    /\ \E n \in 0..MaxReplicas \ {problem.desired} : problem' = [problem EXCEPT !.desired = n]
    /\ problemFresh' = FALSE
    /\ UNCHANGED <<problemCache, apiVars>>

\* In the background the Problem goes at once, in the foreground after its children.
DeleteProblem ==
    /\ "deleteProblem" \in Events
    /\ problem.life = "live"
    /\ \E life \in {"terminating", "gone"} : problem' = [problem EXCEPT !.life = life]
    /\ problemFresh' = FALSE
    /\ UNCHANGED <<problemCache, apiVars>>

ObserveProblem ==
    /\ ~problemFresh
    /\ problemCache' = View(problem)
    /\ problemFresh' = TRUE
    /\ queue' = queue \cup {<<"manager", "problem">>}
    /\ UNCHANGED <<problem, pe, cache, fresh>>

\* Mutant of CollectChild: a child without owner reference outlives the Problem.
CollectChildInTime(e) ==
    /\ problem.life = "terminating"
    /\ pe[e].life = "live"
    /\ \E foreground \in BOOLEAN : Store([pe EXCEPT ![e] = AfterDelete(pe[e], foreground)])
    /\ UNCHANGED <<cache, queue>>

\* The garbage collector deletes the children of a Problem that is going or gone.
CollectChild(e) ==
    /\ problem.life # "live"
    /\ pe[e].life = "live"
    /\ \E foreground \in BOOLEAN : Store([pe EXCEPT ![e] = AfterDelete(pe[e], foreground)])
    /\ UNCHANGED <<cache, queue>>

CollectProblem ==
    /\ problem.life = "terminating"
    /\ \A e \in Envs : ~Exists(pe[e])
    /\ problem' = [problem EXCEPT !.life = "gone"]
    /\ problemFresh' = FALSE
    /\ UNCHANGED <<problemCache, apiVars>>

ProblemTypeOK ==
    /\ problem \in Problem
    /\ problemCache \in [life : ProblemLives, desired : 0..MaxReplicas]
    /\ problemFresh \in BOOLEAN

\* The counts in the status of the Problem fit each other, although they are taken
\* from copies of different ages: who is ready is scheduled, and is either
\* assignable or assigned (updateStatus of ProblemReconciler).
CountsAddUp ==
    LET r == problem.replicas IN
    r.assignable + r.assigned <= r.scheduled /\ r.scheduled <= r.total

\* What ProblemReconciler keeps at the desired number.
Assignable == {e \in Envs : pe[e].life = "live" /\ ~IsTrue(pe[e].assigned)}

\* Its cache has the stored version of the Problem and of every environment.
AllSeen == problemFresh /\ \A e \in Envs : <<"manager", e>> \in fresh

\* What the status of the Problem should say.
ExistingThat(P(_)) == {e \in Envs : Exists(pe[e]) /\ P(pe[e])}

ActualReplicas ==
    [total      |-> Cardinality(ExistingThat(LAMBDA o : TRUE)),
     scheduled  |-> Cardinality(ExistingThat(LAMBDA o : IsTrue(o.scheduled))),
     assignable |-> Cardinality(ExistingThat(LAMBDA o : IsTrue(o.ready) /\ ~IsTrue(o.assigned))),
     assigned   |-> Cardinality(ExistingThat(LAMBDA o : IsTrue(o.ready) /\ IsTrue(o.assigned)))]

\* Environments that are going, and will make room for a deletion that they stood for.
Dying == {e \in Envs : pe[e].life = "terminating" /\ ~IsTrue(pe[e].assigned)}

(***************************************************************************)
(* ProblemReconciler rests only when its work is done.  With nothing left  *)
(* to see and its key not queued, the status has the counts of what        *)
(* exists, no environment is missing, and a surplus is one that the loop   *)
(* took environments for that are on their way out: their end will call it *)
(* again.  (A list that fails ends a reconciliation for good.)             *)
(***************************************************************************)
RestsWhenDone ==
    /\ "listFails" \notin Events
    /\ AllSeen /\ <<"manager", "problem">> \notin queue
    /\ problem.life = "live"
    =>
    /\ problem.replicas = ActualReplicas
    /\ problem.desired <= Cardinality(Assignable)
    /\ Cardinality(Assignable) <= problem.desired + Cardinality(Dying)

Between(n, a, b) == (a <= n /\ n <= b) \/ (b <= n /\ n <= a)

(***************************************************************************)
(* A reconciliation that has seen everything brings the number of          *)
(* assignable environments nearer to what the spec asks for, and never     *)
(* past it: although the loop that deletes takes environments into account *)
(* that are being deleted, and the count before it does not, too few may   *)
(* be deleted but not too many.  And an environment that is seen to be     *)
(* assigned is left alone, however old the rest of the list is.            *)
(***************************************************************************)
ScalingStep ==
    ReconcileProblem =>
        /\ AllSeen => Between(Cardinality(Assignable)', Cardinality(Assignable), problem.desired)
        /\ \A e \in Envs :
              <<"manager", e>> \in fresh /\ IsTrue(pe[e].assigned) => pe'[e] = pe[e]
=============================================================================
