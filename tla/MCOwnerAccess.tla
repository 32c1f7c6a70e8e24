--------------------------- MODULE MCOwnerAccess ---------------------------
(***************************************************************************)
(* An instance of OwnerAccess for TLC.                                     *)
(***************************************************************************)
EXTENDS OwnerAccess
============================================================================
