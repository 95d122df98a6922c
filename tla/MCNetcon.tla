------------------------------- MODULE MCNetcon -------------------------------
(***************************************************************************)
(* Netcon for TLC.                                                         *)
(***************************************************************************)
EXTENDS Netcon, TLC

Symmetry == Permutations(Envs) \cup Permutations(Workers) \cup Permutations(Passwords)
=============================================================================
