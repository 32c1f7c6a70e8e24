------------------------------ MODULE MCConnect ------------------------------
(***************************************************************************)
(* Instances of Connect for TLC.                                           *)
(***************************************************************************)
EXTENDS Connect, TLC

Symmetry == Permutations(RequestIDs) \cup Permutations(Paths) \cup Permutations(Runs)
============================================================================
