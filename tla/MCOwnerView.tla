---------------------------- MODULE MCOwnerView ----------------------------
(***************************************************************************)
(* An instance of OwnerView for TLC.                                       *)
(***************************************************************************)
EXTENDS OwnerView

Global == [project |-> Absent, device |-> Absent]
Project == [project |-> "p", device |-> Absent]
Laptop == [project |-> Absent, device |-> "laptop"]

MCScopes == {Global, Project}

Text(purpose, confirmed, size) ==
  [purpose |-> purpose, confirmed |-> confirmed, archived |-> FALSE, size |-> size]

MCSays == {Text("lesson", TRUE, 4), Text("handoff", FALSE, 1),
           [Text("lesson", TRUE, 1) EXCEPT !.archived = TRUE]}

Memory(i, scope, text) == Version(i, scope, text, 0)

\* Global and project memories that compete for the budget; a project, a global and a
\* device's handoff; and confirmed, new and archived memories.
MCWorlds ==
  {<<Memory(1, Global, Text("preference", TRUE, 1)), Memory(2, Global, Text("lesson", TRUE, 2)),
     Memory(3, Project, Text("lesson", TRUE, 2)), Memory(4, Project, Text("decision", TRUE, 1))>>,
   <<Memory(1, Project, Text("handoff", FALSE, 2)), Memory(2, Global, Text("handoff", TRUE, 1)),
     Memory(3, Laptop, Text("handoff", FALSE, 1)), Memory(4, Project, Text("observation", FALSE, 1))>>}

\* Tabs differ in nothing but what they show.
Symmetry == Permutations(Tabs)

MCViews == {[project |-> AllProjects, device |-> Absent, kind |-> "active", purpose |-> Absent],
            [project |-> "p", device |-> "laptop", kind |-> "review", purpose |-> Absent]}

MCReaders == {[project |-> "p", device |-> "laptop"], [project |-> Absent, device |-> "desktop"]}
============================================================================
