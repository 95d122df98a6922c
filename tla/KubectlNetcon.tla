---------------------------- MODULE KubectlNetcon ----------------------------
(***************************************************************************)
(* The environment commands of the kubectl plugin.  A command reads the    *)
(* environment from the server, checks it, and then writes or deletes it;  *)
(* other programs run in between.  A command that the check refuses has no *)
(* effect and is left out.                                                 *)
(***************************************************************************)
EXTENDS Gateway

\* The checks of assign and unassign.
MayAssign(o) == ConditionStatus(o.ready) = "True" /\ ConditionStatus(o.assigned) = "False"
MayUnassign(o) == IsTrue(o.assigned)

\* assign or unassign has read e and goes on; all it has is what it read.
KubectlGet(e) ==
    /\ "admin" \in Events
    /\ \A f \in Envs : cache["kubectl"][f] = Blank("unborn")
    /\ Exists(pe[e])
    /\ MayAssign(pe[e]) \/ MayUnassign(pe[e])
    /\ cache' = [cache EXCEPT !["kubectl"][e] = pe[e]]
    /\ fresh' = fresh \cup {<<"kubectl", e>>}
    /\ UNCHANGED <<pe, queue, gatewayVars>>

\* The command ends, and the stored objects become "new".
KubectlEnd(e, new) ==
    /\ pe' = new
    /\ cache' = [cache EXCEPT !["kubectl"][e] = Blank("unborn")]
    /\ fresh' = {f \in fresh : f # <<"kubectl", e>> /\ new[f[2]] = pe[f[2]]}
    /\ UNCHANGED queue

\* The status of e written back, with the assigned condition set to reason.
WithAssigned(e, reason) ==
    [pe EXCEPT ![e] = StatusOf(pe[e], [cache["kubectl"][e] EXCEPT !.assigned = reason])]

KubectlAssign(e) ==
    /\ Exists(cache["kubectl"][e])
    /\ MayAssign(cache["kubectl"][e])
    /\ IF Accepted("kubectl", e)
       THEN KubectlEnd(e, WithAssigned(e, "AdminAssigned")) /\ HandOut(e, cache["kubectl"][e])
       ELSE KubectlEnd(e, pe) /\ UNCHANGED gatewayVars

\* Whoever had the environment has it no longer.
KubectlUnassign(e) ==
    /\ Exists(cache["kubectl"][e])
    /\ MayUnassign(cache["kubectl"][e])
    /\ IF Accepted("kubectl", e)
       THEN /\ KubectlEnd(e, WithAssigned(e, "AdminUnassigned"))
            /\ holders' = [holders EXCEPT ![e] = 0]
            /\ UNCHANGED issued
       ELSE KubectlEnd(e, pe) /\ UNCHANGED gatewayVars

\* delete, with foreground propagation.  The check that e is not assigned may be
\* arbitrarily old by then, and --force skips it: e may be in any state.
KubectlDelete(e) ==
    /\ "delete" \in Events
    /\ Exists(pe[e])
    /\ Store([pe EXCEPT ![e] = AfterDelete(pe[e], TRUE)])
    /\ UNCHANGED <<cache, queue, gatewayVars>>

KubectlStep(e) ==
    /\ "kubectl" \in Clients
    /\ KubectlGet(e) \/ KubectlAssign(e) \/ KubectlUnassign(e) \/ KubectlDelete(e)
=============================================================================
