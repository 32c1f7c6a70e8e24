--------------------------- MODULE MCClientUpdate ---------------------------
(* Instances of ClientUpdate: plugins bundle versions of their own. *)
EXTENDS ClientUpdate

CONSTANTS b1, b2

(* The first plugin is at the oldest release, the second a release ahead. *)
BundledEach == [p \in Bridges |-> IF p = b1 THEN 1 ELSE 2]
=============================================================================
