----------------------------- MODULE Containerlab -----------------------------
(***************************************************************************)
(* The ContainerLab driver of nclet: what Check, Deploy and Destroy may    *)
(* return and leave behind, given the lab of an environment on a Worker.   *)
(* clab and the docker daemon are external; each may fail.                 *)
(***************************************************************************)
CONSTANT Faults      \* "inspectFails", "deployFails", "destroyFails": what may fail

\* The working directory with the topology file in it, and the containers.
Lab ==
    [directory  : {"none", "empty", "placed"},
     containers : {"down", "starting", "healthy"}]

NoLab == [directory |-> "none", containers |-> "down"]

\* The container statuses of a result: nil, an empty list, or a list.
Reported == {"nil", "empty", "notReady", "ready"}

Result(status, containers) == [status |-> status, containers |-> containers]

\* Check.  clab inspect may fail, and for a lab without containers it may print
\* something that is not JSON; the docker daemon may fail to describe a container,
\* which is then reported as not ready.
Check(lab) ==
    LET failed == Result("Error", "nil")
        listed == CASE lab.containers = "down"     -> {Result("Deployed", "empty"), failed}
                    [] lab.containers = "starting" -> {Result("Deployed", "notReady")}
                    [] lab.containers = "healthy"  -> {Result("Deployed", "ready")}
    IN  CASE lab.directory = "none"   -> {Result("Init", "nil")}
          [] lab.directory = "empty"  -> {failed}
          [] lab.directory = "placed" ->
                listed \cup IF "inspectFails" \notin Faults THEN {}
                            ELSE IF lab.containers = "down" THEN {failed}
                            ELSE {failed, Result("Deployed", "notReady")}

\* The steps of Deploy, each of which may be the last one that works: nothing,
\* the directory, the files, containers.
DeploySteps(lab) ==
    {lab,
     [lab EXCEPT !.directory = "empty"],
     [lab EXCEPT !.directory = "placed"],
     [directory |-> "placed", containers |-> "starting"]}

\* The labs that Deploy may leave.  The only caller ignores its error.
Deploy(lab) ==
    IF "deployFails" \in Faults THEN DeploySteps(lab)
    ELSE {[directory |-> "placed", containers |-> "starting"]}

\* What Destroy may do, with its error.  Containers are destroyed only when
\* Check reports the lab as deployed; the directory is removed in any case.  Both
\* may fail, and the files may be gone when removing the directory does.
Destroy(lab) ==
    {[ok |-> TRUE,
      lab |-> [directory |-> "none",
               containers |-> IF c.status = "Deployed" THEN "down" ELSE lab.containers]]
        : c \in Check(lab)}
    \cup
    IF "destroyFails" \in Faults /\ lab.directory # "none"
    THEN {[ok |-> FALSE,
           lab |-> [directory |-> d,
                    containers |-> IF c.status = "Deployed" THEN "down" ELSE lab.containers]]
             : c \in Check(lab), d \in {lab.directory, "empty"}}
         \cup {[ok |-> FALSE, lab |-> lab]}
    ELSE {}
=============================================================================
