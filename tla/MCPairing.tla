------------------------------ MODULE MCPairing ------------------------------
(***************************************************************************)
(* An instance of Pairing for TLC.                                         *)
(***************************************************************************)
EXTENDS Pairing, TLC

Symmetry == Permutations(RequestIDs) \cup Permutations(Hashes) \cup Permutations(Codes) \cup Permutations(Devices)
============================================================================
