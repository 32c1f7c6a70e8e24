----------------------------- MODULE OwnerView -----------------------------
(***************************************************************************)
(* The owner's lists: ownerPager (internal/service/owner_pages.go) over    *)
(* the queries of internal/memory/owner_browse.go, while agents go on      *)
(* writing.  The database is read as the VersionedStore that MemoryStore   *)
(* implements.                                                             *)
(*                                                                         *)
(* A list is a snapshot of references (record and revision) in the memory  *)
(* of the server; pages load the records of a snapshot one by one.  The    *)
(* query, the pager's lock and every load are steps of their own.          *)
(***************************************************************************)
EXTENDS StartupContext

CONSTANTS
  Tabs,                   \* browser tabs of the owner
  Worlds,                 \* databases to begin with: sequences of versions
  Says,                   \* what a new version may say: [purpose, confirmed, archived, size]
  Scopes,                 \* scopes of memories
  Views,                  \* lists: [project, device, kind, purpose]
  AllProjects,            \* a list over every project
  Limit, PageBytes,       \* a page's length, and 32768 bytes
  Lifetime,               \* ticks of ten minutes
  MaxLists, MaxRefs,      \* 64 snapshots, 100000 references
  MaxRecords,             \* 50000 references of one snapshot
  MaxChanges,
  Readers, Budgets,       \* scopes and budgets agents start with
  None

Texts == [purpose : DOMAIN Rank, confirmed : BOOLEAN, archived : BOOLEAN, size : Nat]

ScopesInUse == Scopes \cup UNION {{world[i].scope : i \in DOMAIN world} : world \in Worlds}

\* A version of a memory.
Record == [id : Nat, scope : ScopesInUse, purpose : DOMAIN Rank, confirmed : BOOLEAN, archived : BOOLEAN,
           size : Nat, updated : Nat]

\* What a list remembers of a memory.
Reference == [id : Nat, revision : Nat]

ASSUME PagerAssumption ==
  /\ {Limit, PageBytes, Lifetime, MaxLists, MaxRefs, MaxRecords} \subseteq Nat \ {0}
  /\ MaxRecords <= MaxRefs
  /\ Says \subseteq Texts
  /\ \A world \in Worlds : world \in Seq(Record) /\ \A i \in DOMAIN world : world[i].id = i
  /\ Budgets \subseteq Nat
  /\ None \notin Views \X Seq(Reference)

VARIABLES
  versions,   \* versions[i]: the revisions of memory i
  clock,      \* what updated_at is taken from; it may stand still between changes
  lists,      \* the pager's snapshots by key: [view, refs, left]
  tabs,       \* tabs[t]: the list a tab shows and the request under way
  changes

vars == <<versions, clock, lists, tabs, changes>>

IDs == 1 .. Len(versions)
Row(i) == versions[i][Len(versions[i])]
RowsNow == {Row(i) : i \in IDs}
Revision(ref) == versions[ref.id][ref.revision]

Closed == [at |-> "idle", view |-> None, refs |-> <<>>, cursor |-> None, start |-> 0,
           shown |-> <<>>, listed |-> None]

Init ==
  /\ versions \in {[i \in DOMAIN world |-> <<world[i]>>] : world \in Worlds}
  /\ clock = 1
  /\ lists = <<>>
  /\ tabs = [t \in Tabs |-> Closed]
  /\ changes = 0

----------------------------------------------------------------------------
(* Agents and the owner's own actions write *)

Version(i, scope, says, at) ==
  [id |-> i, scope |-> scope, purpose |-> says.purpose, confirmed |-> says.confirmed,
   archived |-> says.archived, size |-> says.size, updated |-> at]

\* A version that says something else; confirmed memories stay confirmed, and a
\* handoff archives the active one of its scope.
Change(i, scope, says) ==
  /\ changes < MaxChanges /\ changes' = changes + 1
  /\ clock' \in {clock, clock + 1}
  /\ i \in IDs => /\ scope = Row(i).scope /\ Row(i).confirmed => says.confirmed
                  /\ Version(i, scope, says, Row(i).updated) # Row(i)
  /\ i \notin IDs => ~says.archived
  /\ LET retired == {j \in IDs \ {i} : /\ says.purpose = "handoff" /\ ~says.archived
                                       /\ IsHandoff(Row(j)) /\ Row(j).scope = scope /\ ~Row(j).archived}
     IN  versions' = [j \in IDs \cup {i} |->
           IF j \notin IDs THEN <<Version(j, scope, says, clock')>>
           ELSE IF j = i THEN Append(versions[j], Version(j, scope, says, clock'))
           ELSE IF j \in retired
             THEN Append(versions[j], [Row(j) EXCEPT !.archived = TRUE, !.updated = clock'])
             ELSE versions[j]]
  /\ UNCHANGED <<lists, tabs>>

----------------------------------------------------------------------------
(* ownerPager.page *)

\* ownerScopePredicate: only what the list restricts too has to agree.
Visible(scope, view) ==
  /\ scope.project = Absent \/ view.project \in {AllProjects, scope.project}
  /\ Absent \in {scope.device, view.device} \/ scope.device = view.device

\* ownerViewFilter
Listed(row, view) ==
  /\ view.purpose \in {Absent, row.purpose}
  /\ row.archived = (view.kind = "archived")
  /\ view.kind = "review" => Unconfirmed(row)

\* BrowseReferences: records and revisions, from one statement.
References(view) ==
  LET found == Sorted({r \in RowsNow : Visible(r.scope, view) /\ Listed(r, view)})
  IN  [n \in 1 .. Len(found) |-> [id |-> found[n].id, revision |-> Len(versions[found[n].id])]]

Unexpired == [key \in {k \in DOMAIN lists : lists[k].left > 0} |-> lists[key]]

\* The references of all snapshots.
RefsIn(kept) == Cardinality(UNION {{key} \X DOMAIN kept[key].refs : key \in DOMAIN kept})

Fits(kept, refs) ==
  Cardinality(DOMAIN kept) < MaxLists /\ RefsIn(kept) + Len(refs) <= MaxRefs

\* The snapshots that may remain: the ones closest to expiry go until there is room.
Evicted(kept, refs) ==
  {rest \in {[key \in keys |-> kept[key]] : keys \in SUBSET DOMAIN kept} :
     LET gone == DOMAIN kept \ DOMAIN rest
     IN  /\ Fits(rest, refs) \/ rest = <<>>
         /\ \A g \in gone, r \in DOMAIN rest : kept[g].left <= kept[r].left
         /\ gone # {} => \E g \in gone :
              /\ \A h \in gone : kept[h].left <= kept[g].left
              /\ ~Fits([key \in DOMAIN rest \cup {g} |-> kept[key]], refs)}

\* Mutant: the key digests the order of the memories, not their revisions.
KeyOf_IDs(view, refs) == <<view, [n \in DOMAIN refs |-> refs[n].id]>>

\* The digest of filters and references.
KeyOf(view, refs) == <<view, refs>>

\* A request without a cursor queries the references; a list that is too long is refused.
List(t, view) ==
  /\ tabs[t].at = "idle"
  /\ LET refs == References(view)
     IN  /\ Len(refs) <= MaxRecords
         /\ tabs' = [tabs EXCEPT ![t] =
              [Closed EXCEPT !.at = "queried", !.view = view, !.refs = refs,
                             !.listed = [n \in DOMAIN refs |-> Revision(refs[n])]]]
  /\ UNCHANGED <<versions, clock, lists, changes>>

\* Under the lock it stores them, unless another request has stored the same ones.
Keep(t) ==
  /\ tabs[t].at = "queried"
  /\ LET refs == tabs[t].refs
         key  == KeyOf(tabs[t].view, refs)
         new  == [view |-> tabs[t].view, refs |-> refs, left |-> Lifetime]
     IN  /\ IF key \in DOMAIN Unexpired
              THEN lists' = Unexpired
              ELSE \E rest \in Evicted(Unexpired, refs) :
                     lists' = [k \in DOMAIN rest \cup {key} |-> IF k = key THEN new ELSE rest[k]]
         /\ tabs' = [tabs EXCEPT ![t].at = "loading", ![t].cursor = key]
  /\ UNCHANGED <<versions, clock, changes>>

\* A request with a cursor goes on with the stored references, if they are still there;
\* if not, the tab has to reload.
Continue(t) ==
  /\ tabs[t].at = "idle" /\ tabs[t].cursor # None
  /\ lists' = Unexpired
  /\ tabs' = [tabs EXCEPT ![t] =
       IF tabs[t].cursor \in DOMAIN Unexpired
         THEN [@ EXCEPT !.at = "loading", !.refs = lists[tabs[t].cursor].refs,
                        !.start = Len(tabs[t].shown)]
         ELSE Closed]
  /\ UNCHANGED <<versions, clock, changes>>

PageSize(tab) == SizeOf({tab.shown[n] : n \in tab.start + 1 .. Len(tab.shown)})

\* There is room on the page for the next record.
HasRoom(tab) ==
  LET offset == Len(tab.shown)
  IN  /\ offset < Len(tab.refs) /\ offset - tab.start < Limit
      /\ PageSize(tab) + Revision(tab.refs[offset + 1]).size <= PageBytes

\* RecordByID with a revision.
Loaded(ref) == Revision(ref)

Load(t) ==
  /\ tabs[t].at = "loading" /\ HasRoom(tabs[t])
  /\ tabs' = [tabs EXCEPT ![t].shown = Append(@, Loaded(tabs[t].refs[Len(tabs[t].shown) + 1]))]
  /\ UNCHANGED <<versions, clock, lists, changes>>

\* A revision that cannot be read ends the list, and so does a record that is larger
\* than a page of its own.
Fails(t) ==
  /\ tabs[t].at = "loading"
  /\ Len(tabs[t].shown) < Len(tabs[t].refs)
  /\ HasRoom(tabs[t]) \/ Len(tabs[t].shown) = tabs[t].start
  /\ tabs' = [tabs EXCEPT ![t] = Closed]
  /\ UNCHANGED <<versions, clock, lists, changes>>

\* The page is sent, with a cursor if there is more.
Send(t) ==
  /\ tabs[t].at = "loading" /\ ~HasRoom(tabs[t])
  /\ tabs[t].start < Len(tabs[t].shown) \/ Len(tabs[t].shown) = Len(tabs[t].refs)
  /\ LET more == Len(tabs[t].shown) < Len(tabs[t].refs)
     IN  tabs' = [tabs EXCEPT ![t].at = "idle", ![t].refs = <<>>,
                              ![t].cursor = IF more THEN @ ELSE None]
  /\ UNCHANGED <<versions, clock, lists, changes>>

\* A restart of the server forgets the snapshots; requests under way end.
Restart ==
  /\ lists # <<>>
  /\ lists' = <<>>
  /\ tabs' = [t \in Tabs |-> IF tabs[t].at = "idle" THEN tabs[t] ELSE Closed]
  /\ UNCHANGED <<versions, clock, changes>>

Tick ==
  /\ \E key \in DOMAIN lists : lists[key].left > 0
  /\ lists' = [key \in DOMAIN lists |-> [lists[key] EXCEPT !.left = IF @ > 0 THEN @ - 1 ELSE 0]]
  /\ UNCHANGED <<versions, clock, tabs, changes>>

Next ==
  \/ \E i \in 1 .. Len(versions) + 1, scope \in Scopes, says \in Says : Change(i, scope, says)
  \/ \E t \in Tabs : \/ \E view \in Views : List(t, view)
                     \/ Keep(t) \/ Continue(t) \/ Load(t) \/ Fails(t) \/ Send(t)
  \/ Restart \/ Tick

Spec == Init /\ [][Next]_vars
----------------------------------------------------------------------------
\* Cursors "load these historical revisions without skipping or duplicating memories
\* that an agent updates between pages": what a tab has put together from its pages is
\* the list as it was when the tab asked for it, as far as it has come, and a tab without
\* a cursor shows all of it; eviction, expiry and restarts end a list, never mix two.
PagesFaithful ==
  \A t \in Tabs : tabs[t].listed # None =>
    LET shown == tabs[t].shown
    IN  /\ IsPrefix(shown, tabs[t].listed)
        /\ tabs[t].at = "idle" /\ tabs[t].cursor = None => shown = tabs[t].listed

\* The preview the owner sees of an agent's start is what the agent gets, whatever was
\* written (Agrees).
PreviewAgrees == \A asked \in Readers, budget \in Budgets : Agrees(RowsNow, asked, budget)

\* Whatever was written, an agent's start spends its budget as documented (Fair).
BudgetWellSpent == \A asked \in Readers, budget \in Budgets : Fair(RowsNow, asked, budget)
============================================================================
