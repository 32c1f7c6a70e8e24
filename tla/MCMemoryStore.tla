--------------------------- MODULE MCMemoryStore ---------------------------
(***************************************************************************)
(* Instances of MemoryStore for TLC.                                       *)
(***************************************************************************)
EXTENDS OwnerActions, TLC

CONSTANT Long   \* texts longer than 80 runes that begin alike

\* A short text is its own title; long texts that begin alike share one.
MCFirstRunes == [c \in Contents |-> IF c \in Long THEN "prefix" ELSE c]

Plain == [title |-> Nil, tags |-> Nil, type |-> Nil]

\* Requests that carry no metadata of their own.
MCPlain == {Plain}

Imported(scope, content, purpose) ==
  [scope |-> scope, key |-> Nil, content |-> content, title |-> MCFirstRunes[content],
   tags |-> "", type |-> "knowledge", purpose |-> purpose, confirmed |-> FALSE,
   provenance |-> OwnSource(CHOOSE a \in Agents : TRUE), archived |-> FALSE,
   revision |-> 1, embedding |-> content]

\* A database with an active handoff in the legacy scope.
MCLegacy == <<Imported(Legacy, CHOOSE c \in Contents : TRUE, "handoff")>>
\* A memory with a title of its own.
MCNamed == <<[Imported("a", CHOOSE c \in Contents : TRUE, "preference") EXCEPT !.title = "named"]>>

Symmetry == Permutations(RequestIDs)
============================================================================
