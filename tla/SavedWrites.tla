---------------------------- MODULE SavedWrites ----------------------------
(***************************************************************************)
(* What an agent may rely on when it saves memories, whatever happens to   *)
(* its messages, to the embedding model and to the server: a write is      *)
(* applied at most once, applied writes stay, and only applied writes are  *)
(* acknowledged.                                                           *)
(***************************************************************************)
EXTENDS Sequences, Functions

CONSTANT Writes    \* request IDs of writes

VARIABLES
  saved,           \* the writes applied, in order
  acknowledged     \* the writes some agent holds a receipt for

Init == saved = <<>> /\ acknowledged = {}

Save(w) ==
  /\ w \notin Range(saved)
  /\ saved' = Append(saved, w)
  /\ UNCHANGED acknowledged

Acknowledge(w) ==
  /\ w \in Range(saved)
  /\ acknowledged' = acknowledged \cup {w}
  /\ UNCHANGED saved

Next == \E w \in Writes : Save(w) \/ Acknowledge(w)

Spec == Init /\ [][Next]_<<saved, acknowledged>>
============================================================================
