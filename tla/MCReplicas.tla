------------------------------ MODULE MCReplicas ------------------------------
(***************************************************************************)
(* Replicas for TLC.                                                       *)
(***************************************************************************)
EXTENDS Replicas
=============================================================================
