--------------------------- MODULE StartupContext ---------------------------
(***************************************************************************)
(* Which memories an agent starts with, and what the owner is shown of     *)
(* that choice: Context and StartupPreview of internal/memory/reader.go.   *)
(*                                                                         *)
(* A row is a current record [id, scope, purpose, confirmed, archived,     *)
(* size, updated]; size counts the bytes of its JSON form in units, and a  *)
(* scope is [project, device], each Absent when it does not restrict.      *)
(* Records in hand are a set; the order they are taken in is given by a    *)
(* list (Ordered), and a page is the set of the records it holds.          *)
(***************************************************************************)
EXTENDS Naturals, SequencesExt

CONSTANTS
  Absent,                 \* no restriction
  MinBudget, MaxBudget,   \* 1024 and 65536 bytes
  MaxDetails              \* 100 omitted records are named at most

ASSUME BudgetAssumption ==
  /\ MinBudget \in Nat /\ MaxBudget \in Nat /\ MinBudget <= MaxBudget
  /\ MaxDetails \in Nat

\* applicableKeys: the scopes that restrict nothing the reader's scope does not.
Applicable(scope, asked) == \A part \in DOMAIN scope : scope[part] \in {Absent, asked[part]}

Rank == [preference |-> 0, decision |-> 1, lesson |-> 2, handoff |-> 3, observation |-> 4]

Newer(r, s) == r.updated > s.updated \/ (r.updated = s.updated /\ r.id > s.id)

\* ORDER BY purpose, updated_at DESC, id DESC.
Before(r, s) == Rank[r.purpose] < Rank[s.purpose] \/ (r.purpose = s.purpose /\ Newer(r, s))

\* Rows in an order: earlier[r] are the ones before r.
Ordered(earlier) ==
  [n \in 1 .. Cardinality(DOMAIN earlier) |-> CHOOSE r \in DOMAIN earlier : Cardinality(earlier[r]) = n - 1]

\* The rows of a query in the order it asks for.
Sorted(rows) == Ordered([r \in rows |-> {s \in rows : Before(s, r)}])

\* scopedRecords: active records in scope.
ScopedRecords(rows, asked) == {r \in rows : ~r.archived /\ Applicable(r.scope, asked)}

IsHandoff(r) == r.purpose = "handoff"
OfProject(r) == r.scope.project # Absent

\* agentContextFilter
Loadable(r) == r.confirmed \/ IsHandoff(r)
Unconfirmed(r) == ~Loadable(r)

\* chooseHandoff: the first handoff of the project, or else the first one.
Chosen(records) ==
  LET handoffs == {r \in records : IsHandoff(r)}
      project  == {r \in handoffs : OfProject(r)}
      best     == IF project # {} THEN project ELSE handoffs
  IN  {r \in best : \A s \in best : ~Before(s, r)}

Selected(records) == {r \in records : IsHandoff(r) => r \in Chosen(records)}
Skipped(records) == records \ Selected(records)

Clamped(budget) ==
  IF budget < MinBudget THEN MinBudget ELSE IF budget > MaxBudget THEN MaxBudget ELSE budget

\* The units that records take together.
SizeOf(records) == Cardinality(UNION {{r} \X (1 .. r.size) : r \in records})

\* boundRecords: in order, whatever still fits.
BoundRecords(order, budget) ==
  LET loaded[n \in 0 .. Len(order)] ==
        IF n = 0 THEN {}
        ELSE LET before == loaded[n - 1]
             IN  before \cup {r \in {order[n]} : SizeOf(before) + r.size <= Clamped(budget)}
  IN  loaded[Len(order)]

\* Global memories give their records in turn with the project's: in every odd round the
\* newest one left, in every even round the oldest.
Round(r, records) ==
  LET group == {s \in records : ~IsHandoff(s) /\ (OfProject(s) <=> OfProject(r))}
      newer == Cardinality({s \in group : Newer(s, r)})
      older == Cardinality({s \in group : Newer(r, s)})
  IN  IF newer <= older THEN 2 * newer + 1 ELSE 2 * older + 2

\* In one round the global memories go first; handoffs come last.
Sooner(t, u) ==
  IF IsHandoff(u.record) THEN ~IsHandoff(t.record) \/ Before(t.record, u.record)
  ELSE /\ ~IsHandoff(t.record)
       /\ t.round < u.round \/ (t.round = u.round /\ ~OfProject(t.record) /\ OfProject(u.record))

\* balanceStartupScopes, of some of the records.
Balanced(some, records) ==
  LET given == {[record |-> r, round |-> Round(r, records)] : r \in some}
      turns == Ordered([t \in given |-> {u \in given : Sooner(u, t)}])
  IN  [n \in DOMAIN turns |-> turns[n].record]

\* Mutant: what does not fit is cut from the sorted list.
BoundStartup_Unbalanced(records, budget) == BoundRecords(Sorted(records), budget)

\* boundStartupRecords: only a page that leaves something out is balanced.
BoundStartup(records, budget) ==
  LET page == BoundRecords(Sorted(records), budget)
  IN  IF page = records THEN page ELSE BoundRecords(Balanced(records, records), budget)

Details(records) == SubSeq(records, 1, IF Len(records) < MaxDetails THEN Len(records) ELSE MaxDetails)

\* Context: what the agent gets, with the number of records left out and the first ones.
Context(rows, asked, budget) ==
  LET records  == {r \in ScopedRecords(rows, asked) : Loadable(r)}
      selected == Selected(records)
      page     == BoundStartup(selected, budget)
      left     == Balanced(selected \ page, selected) \o Sorted(Skipped(records))
  IN  [records |-> page, omitted |-> Len(left), details |-> Details(left)]

Because(reason, records) == [n \in 1 .. Len(records) |-> [record |-> records[n], reason |-> reason]]

\* Mutant: the preview does not choose one handoff.
StartupPreview_AllHandoffs(rows, asked, budget) ==
  LET active   == ScopedRecords(rows, asked)
      eligible == {r \in active : Loadable(r)}
      page     == BoundStartup(eligible, budget)
      left     == Because("over_budget", Sorted(eligible \ page))
                    \o Because("unconfirmed", Sorted({r \in active : Unconfirmed(r)}))
  IN  [records |-> page, left |-> Details(left), total |-> Len(left)]

\* StartupPreview: the owner's view of the same choice, with reasons.
StartupPreview(rows, asked, budget) ==
  LET active   == ScopedRecords(rows, asked)
      eligible == {r \in active : Loadable(r)}
      page     == BoundStartup(Selected(eligible), budget)
      left     == Because("over_budget", Sorted(Selected(eligible) \ page))
                    \o Because("older_handoff", Sorted(Skipped(eligible)))
                    \o Because("unconfirmed", Sorted({r \in active : Unconfirmed(r)}))
  IN  [records |-> page, left |-> Details(left), total |-> Len(left)]

----------------------------------------------------------------------------
\* The owner's preview shows exactly what the agent's context holds; what it counts as
\* left out is the rest of the active memories in scope, and what it names as over
\* budget or as an older handoff is what the agent's context counts as omitted.
Agrees(rows, asked, budget) ==
  LET page    == Context(rows, asked, budget)
      preview == StartupPreview(rows, asked, budget)
      active  == ScopedRecords(rows, asked)
      left    == ToSet(preview.left)
  IN  /\ preview.records = page.records
      /\ preview.total + Cardinality(preview.records) = Cardinality(active)
      /\ preview.total = page.omitted + Cardinality({r \in active : Unconfirmed(r)})
      /\ preview.total <= MaxDetails =>
           /\ ToSet(page.details) = {l.record : l \in {k \in left : k.reason # "unconfirmed"}}
           /\ active = preview.records \cup {l.record : l \in left}

Newest(records) == {r \in records : \A s \in records : r = s \/ Newer(r, s)}

\* An agent's context keeps within its budget, leaves out only what does not fit into
\* the rest, names one handoff and prefers the project's; and neither the project's nor
\* the global memories are crowded out: the newest of each are there if both fit.
Fair(rows, asked, budget) ==
  LET page     == Context(rows, asked, budget).records
      eligible == {r \in rows : ~r.archived /\ Applicable(r.scope, asked) /\ Loadable(r)}
      handoffs == {r \in eligible : IsHandoff(r)}
      best     == IF \E r \in handoffs : OfProject(r) THEN Newest({r \in handoffs : OfProject(r)})
                                                      ELSE Newest(handoffs)
      first    == Newest({r \in eligible : ~IsHandoff(r) /\ ~OfProject(r)})
                    \cup Newest({r \in eligible : ~IsHandoff(r) /\ OfProject(r)})
  IN  /\ page \subseteq eligible
      /\ SizeOf(page) <= Clamped(budget)
      /\ \A r \in (eligible \ handoffs) \cup best :
           r \in page \/ SizeOf(page) + r.size > Clamped(budget)
      /\ page \cap handoffs \subseteq best
      /\ SizeOf(first) <= Clamped(budget) => first \subseteq page
============================================================================
