-------------------------------- MODULE Nclet --------------------------------
(***************************************************************************)
(* The ProblemEnvironmentReconciler of nclet, one nclet per Worker: it     *)
(* takes over the environments that are scheduled on its Worker, deploys   *)
(* them, reports their containers, and destroys them on deletion.          *)
(*                                                                         *)
(* A work queue never runs one key twice at a time, and only the nclet of  *)
(* a Worker touches the labs there.  So a change that others make to an    *)
(* environment while its lab is being deployed or destroyed is the same as *)
(* one made just before, which nclet's cache has not seen yet: the work is *)
(* done and the write that follows is refused.                             *)
(***************************************************************************)
EXTENDS KubeAPI, Containerlab

VARIABLE lab     \* lab[w][e]: directory and containers of e on w

NcletInit == lab = [w \in Workers |-> [e \in Envs |-> NoLab]]

\* What the nclet of w reads of e.
SeenBy(w, e) == cache[w][e]

\* Mutant of Mine: .spec.workerName is not looked at.
ScheduledSomewhere(w, e) == Exists(SeenBy(w, e)) /\ IsTrue(SeenBy(w, e).scheduled)

\* The environment is scheduled, and on w.
Mine(w, e) ==
    /\ Exists(SeenBy(w, e))
    /\ IsTrue(SeenBy(w, e).scheduled)
    /\ SeenBy(w, e).worker = w

\* nclet takes e, which is its own and not being deleted.
Serves(w, e) ==
    /\ <<w, e>> \in queue
    /\ Mine(w, e)
    /\ SeenBy(w, e).life = "live"

SetLab(w, e, l) == lab' = [lab EXCEPT ![w][e] = l]

NcletIgnore(w, e) ==
    /\ <<w, e>> \in queue
    /\ \/ ~Mine(w, e)
       \/ SeenBy(w, e).life = "terminating" /\ ~HasFinalizer(SeenBy(w, e))
    /\ Done(w, e)
    /\ UNCHANGED <<pe, cache, fresh, lab>>

AddFinalizer(w, e) ==
    /\ Serves(w, e)
    /\ ~HasFinalizer(SeenBy(w, e))
    /\ Update(w, e, [SeenBy(w, e) EXCEPT !.finalizers = @ \cup {"nclet"}])
    /\ UNCHANGED <<cache, lab>>

\* Mutant of UpdateContainerStatus: no RequeueAfter.
UpdateContainerStatusOnce(w, e, o, reported) ==
    IF reported = o.containers
    THEN UNCHANGED <<pe, fresh>> /\ Done(w, e)
    ELSE UpdateStatus(w, e, [o EXCEPT !.containers =
                                IF reported = "empty" THEN "nil" ELSE reported], FALSE)

\* updateContainerStatus: o, with the conditions set so far, is written only if
\* the containers differ from those it was read with.  An empty list differs from
\* an absent one but is stored as absent.  The key is queued again, for 5 seconds.
UpdateContainerStatus(w, e, o, reported) ==
    IF reported = o.containers
    THEN UNCHANGED <<pe, fresh>> /\ Requeue
    ELSE UpdateStatus(w, e, [o EXCEPT !.containers =
                                IF reported = "empty" THEN "nil" ELSE reported], TRUE)

\* deploy: whatever Deploy returns, the environment counts as deployed.  A lab
\* that is there already counts as one whose deployment failed.
DeployEnvironment(w, e) ==
    /\ Serves(w, e)
    /\ HasFinalizer(SeenBy(w, e))
    /\ ~IsTrue(SeenBy(w, e).deployed)
    /\ \E check \in Check(lab[w][e]) :
          IF check.status = "Init"
          THEN \E l \in Deploy(lab[w][e]) :
                  /\ SetLab(w, e, l)
                  /\ \E c \in Check(l) :
                        UpdateContainerStatus(
                            w, e, [SeenBy(w, e) EXCEPT !.deployed = "Deployed"], c.containers)
          ELSE /\ UpdateStatus(w, e, [SeenBy(w, e) EXCEPT !.deployed = "DeployFailed"], FALSE)
               /\ UNCHANGED lab
    /\ UNCHANGED cache

\* nclet is killed while it deploys e, and starts again.
CrashWhileDeploying(w, e) ==
    /\ "crashDeploying" \in Events
    /\ Serves(w, e)
    /\ HasFinalizer(SeenBy(w, e))
    /\ ~IsTrue(SeenBy(w, e).deployed)
    /\ lab[w][e].directory = "none"
    /\ \E l \in DeploySteps(lab[w][e]) : SetLab(w, e, l)
    /\ Restarted(w)
    /\ UNCHANGED pe

CheckEnvironment(w, e) ==
    /\ Serves(w, e)
    /\ HasFinalizer(SeenBy(w, e))
    /\ IsTrue(SeenBy(w, e).deployed)
    /\ \E c \in Check(lab[w][e]) : UpdateContainerStatus(w, e, SeenBy(w, e), c.containers)
    /\ UNCHANGED <<cache, lab>>

\* Mutant of MustCleanUp: an environment that was not deployed yet is passed over.
MustCleanUpDeployed(w, e) ==
    /\ <<w, e>> \in queue
    /\ Mine(w, e)
    /\ SeenBy(w, e).life = "terminating"
    /\ HasFinalizer(SeenBy(w, e))
    /\ IsTrue(SeenBy(w, e).deployed)

MustCleanUp(w, e) ==
    /\ <<w, e>> \in queue
    /\ Mine(w, e)
    /\ SeenBy(w, e).life = "terminating"
    /\ HasFinalizer(SeenBy(w, e))

GiveUpFinalizer(w, e) == Update(w, e, [SeenBy(w, e) EXCEPT !.finalizers = @ \ {"nclet"}])

\* Mutant of AfterDestroy: the error of Destroy is ignored.
AfterDestroyAnyway(w, e, ok) == GiveUpFinalizer(w, e)

\* A failure is reported, and not tried again; success gives up the finalizer.
AfterDestroy(w, e, ok) ==
    IF ok THEN GiveUpFinalizer(w, e)
    ELSE UpdateStatus(w, e, [SeenBy(w, e) EXCEPT !.ready = "DestroyFailed"], FALSE)

Cleanup(w, e) ==
    /\ MustCleanUp(w, e)
    /\ \E d \in Destroy(lab[w][e]) :
          /\ SetLab(w, e, d.lab)
          /\ AfterDestroy(w, e, d.ok)
    /\ UNCHANGED cache

NcletStep(w, e) ==
    \/ NcletIgnore(w, e)
    \/ AddFinalizer(w, e)
    \/ DeployEnvironment(w, e)
    \/ CheckEnvironment(w, e)
    \/ Cleanup(w, e)

\* handlePasswordAuthentication for a participant of e, on what nclet has cached of it.
LoginAccepted(w, e, password) ==
    /\ Exists(SeenBy(w, e))
    /\ IsTrue(SeenBy(w, e).assigned)
    /\ password = SeenBy(w, e).password

\* The containers of a lab may come up, and may fail later.
ContainersComeUp(w, e) ==
    /\ "containersUp" \in Events
    /\ lab[w][e].containers = "starting"
    /\ SetLab(w, e, [lab[w][e] EXCEPT !.containers = "healthy"])
    /\ UNCHANGED apiVars

ContainerFails(w, e) ==
    /\ "containerFails" \in Events
    /\ lab[w][e].containers = "healthy"
    /\ SetLab(w, e, [lab[w][e] EXCEPT !.containers = "starting"])
    /\ UNCHANGED apiVars

NcletTypeOK == lab \in [Workers -> [Envs -> Lab]]
=============================================================================
