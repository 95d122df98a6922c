------------------------------- MODULE Replicas -------------------------------
(***************************************************************************)
(* The ProblemReconciler among many environments.  What the other programs *)
(* make of an environment is summarised: it is served, that is scheduled,  *)
(* deployed and found ready; it is assigned; and it goes away some time    *)
(* after its deletion was asked for.  Netcon has these steps in detail.    *)
(***************************************************************************)
EXTENDS ProblemController

vars == <<apiVars, problemVars>>

Init == APIInit /\ ProblemInit

Watch == Observe("manager") /\ UNCHANGED problemVars

\* All of the status that ProblemReconciler reads changes on the way to Ready, and
\* nclet has its finalizer on the environment from then on.
Serve(e) ==
    /\ pe[e].life = "live"
    /\ pe[e].ready # "Ready"
    /\ \E w \in Workers, password \in Passwords :
          Store([pe EXCEPT ![e] =
              [life |-> "live", finalizers |-> {"nclet"}, worker |-> w, scheduled |-> "Scheduled",
               deployed |-> "Deployed", ready |-> "Ready", assigned |-> "NotAssigned",
               containers |-> "ready", password |-> password]])
    /\ UNCHANGED <<cache, queue, problemVars>>

Assign(e) ==
    /\ "assign" \in Events
    /\ Exists(pe[e]) /\ pe[e].ready = "Ready" /\ pe[e].assigned = "NotAssigned"
    /\ Store([pe EXCEPT ![e].assigned = "Assigned"])
    /\ UNCHANGED <<cache, queue, problemVars>>

Vanish(e) ==
    /\ pe[e].life = "terminating"
    /\ Store([pe EXCEPT ![e] = Blank("gone")])
    /\ UNCHANGED <<cache, queue, problemVars>>

CollectChildOf(e) == CollectChild(e) /\ UNCHANGED problemVars

Next ==
    \/ Watch \/ ObserveProblem \/ ReconcileProblem
    \/ ScaleProblem \/ DeleteProblem \/ CollectProblem
    \/ \E e \in Envs : Serve(e) \/ Assign(e) \/ Vanish(e) \/ CollectChildOf(e)

\* Watches deliver, the work queue is served, environments get ready and go away
\* when they should.
Fairness ==
    /\ WF_vars(Watch) /\ WF_vars(ObserveProblem) /\ WF_vars(ReconcileProblem)
    /\ \A e \in Envs : WF_vars(Serve(e)) /\ WF_vars(Vanish(e)) /\ WF_vars(CollectChildOf(e))

Spec == Init /\ [][Next]_vars /\ Fairness

-----------------------------------------------------------------------------

(***************************************************************************)
(* ProblemReconciler scales towards what the spec asks for, and never past *)
(* it, whenever it has seen everything; and it leaves an environment alone *)
(* that it sees to be assigned.                                            *)
(***************************************************************************)
ScalesTowardsDesired == [][ScalingStep]_vars

\* One more environment is wanted, and all the names of the model have been used.
NamesUsedUp ==
    Cardinality(Assignable) < problem.desired /\ \A e \in Envs : pe[e].life # "unborn"

\* Once the Problem is left alone, the number of its assignable environments
\* becomes and stays what its spec asks for, as long as there are names left to
\* create one: what a stale list made ProblemReconciler create or delete in excess
\* is made good.
ReplicasConverge ==
    \A n \in 0..MaxReplicas :
        <>[](problem.life = "live" /\ problem.desired = n) =>
            <>[](Cardinality(Assignable) = n \/ NamesUsedUp)

\* The status of the Problem ends up with the counts of the environments that
\* exist, although they are taken from a stale list and written with a stale
\* version.
StatusConverges ==
    \A n \in 0..MaxReplicas :
        <>[](problem.life = "live" /\ problem.desired = n) =>
            <>[](problem.replicas = ActualReplicas \/ NamesUsedUp)

\* When the Problem is deleted all its environments go, also those that the
\* reconciler creates afterwards because it has not seen the deletion.  (A Problem
\* that is not live never is again.)
DeletionCascades ==
    <>[](problem.life # "live") => <>[](\A e \in Envs : ~Exists(pe[e]))
=============================================================================
