------------------------------- MODULE Gateway -------------------------------
(***************************************************************************)
(* The gateway, through which the score server takes an environment for a  *)
(* team and gives it back.                                                 *)
(*                                                                         *)
(* Requests run concurrently and share the informer cache of the gateway.  *)
(* A request decides on what it reads there and makes one write, so two    *)
(* requests that overlap are two steps on one stale cache.                 *)
(***************************************************************************)
EXTENDS WorkerRegistry

VARIABLES
    holders,     \* how many requests were answered with e since it was last unassigned
    issued       \* the password they were answered with

gatewayVars == <<holders, issued>>

GatewayInit ==
    /\ holders = [e \in Envs |-> 0]
    /\ issued = [e \in Envs |-> NoPassword]

\* Someone is told how to log in to e.
HandOut(e, o) ==
    /\ holders' = [holders EXCEPT ![e] = @ + 1]
    /\ issued' = [issued EXCEPT ![e] = o.password]

\* Mutant of Acquirable: the Assigned condition is not looked at.
AcquirableWhenReady(o) == Exists(o) /\ ConditionStatus(o.ready) = "True"

\* The loop of AcquireProblemEnvironment looks at these two conditions only.
Acquirable(o) ==
    /\ Exists(o)
    /\ ConditionStatus(o.assigned) = "False"
    /\ ConditionStatus(o.ready) = "True"

\* The first acquirable environment of the list, whose order is arbitrary, is
\* marked as assigned.  The request fails when that is refused, and when the
\* Worker is not found afterwards: by then the environment stays assigned.  The
\* gateway finds the Problem, whose cached copy may be arbitrarily old, and so may
\* its copy of a Worker that was removed or registered again.
AcquireProblemEnvironment(e) ==
    LET selected == cache["gateway"][e]
    IN  /\ Acquirable(selected)
        /\ IF Accepted("gateway", e)
           THEN /\ Store([pe EXCEPT ![e] = StatusOf(pe[e], [selected EXCEPT !.assigned = "Assigned"])])
                /\ \/ HandOut(e, selected)
                   \/ "workerNotFound" \in Events /\ UNCHANGED gatewayVars
           ELSE UNCHANGED <<pe, fresh, gatewayVars>>
        /\ UNCHANGED <<cache, queue>>

\* Any environment may be released by name, with a Delete that has no precondition.
ReleaseProblemEnvironment(e) ==
    /\ "release" \in Events
    /\ Exists(cache["gateway"][e])
    /\ Store([pe EXCEPT ![e] = AfterDelete(pe[e], FALSE)])
    /\ UNCHANGED <<cache, queue, gatewayVars>>

GatewayStep(e) ==
    /\ "gateway" \in Clients
    /\ AcquireProblemEnvironment(e) \/ ReleaseProblemEnvironment(e)

GatewayTypeOK ==
    /\ holders \in [Envs -> Nat]
    /\ issued \in [Envs -> Passwords \cup {NoPassword}]
=============================================================================
