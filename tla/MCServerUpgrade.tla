-------------------------- MODULE MCServerUpgrade --------------------------
(***************************************************************************)
(* Instances of ServerUpgrade for TLC.                                     *)
(***************************************************************************)
EXTENDS ServerUpgrade
============================================================================
