---------------------------- MODULE MCRemoteAccess ----------------------------
(***************************************************************************)
(* Instances of RemoteAccess for TLC: a topology of a node with SSH and of *)
(* a node for administrators, reached by docker exec.                      *)
(***************************************************************************)
EXTENDS RemoteAccess

CONSTANTS Router, Grader

MCUsers ==
    {[admin |-> FALSE, node |-> NoNode], [admin |-> FALSE, node |-> Grader],
     [admin |-> TRUE, node |-> Grader]}
=============================================================================
