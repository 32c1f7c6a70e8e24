---------------------------- MODULE MemoryStore ----------------------------
(***************************************************************************)
(* The memory database of internal/memory: the tables chunks,              *)
(* memory_revisions and memory_requests, and the three transactions that   *)
(* change them (Writer.Write, Writer.Archive and Writer.Move).             *)
(*                                                                         *)
(* The writer has one connection and begins every transaction IMMEDIATE,   *)
(* so a transaction is one step; any error rolls it back, so a refused     *)
(* request is a stuttering step and its checks are the guard of the        *)
(* action.  Requests arrive in any order, any number of times: clients     *)
(* retry lost answers, and edit from revisions they read long ago.         *)
(*                                                                         *)
(* The operators below take the database as a parameter because Move runs  *)
(* the write and the archive one after the other in a single transaction.  *)
(***************************************************************************)
EXTENDS Naturals

CONSTANTS
  Scopes,          \* keys of memory_scope: one per project, device and platform
  Legacy,          \* the scope of records older than scopes
  DurableScopes,   \* scopes whose project is absent or has a durable identity
  Contents,        \* memory texts (1 to 32768 bytes)
  Titles,          \* titles
  FirstRunes,      \* the title derived from a text: its first 80 runes
  Tags,            \* tag lists ("descriptors")
  Types,           \* memory_type
  Purposes,        \* purposes: "handoff", "preference", "decision", ...
  Keys,            \* preference keys
  Authors,         \* who writes: harness and device of a provenance
  Agents,          \* the authors that are agents
  Metadata,        \* the title, tags and type a request may carry or leave out
  RequestIDs,      \* request IDs chosen by clients
  Vectors,         \* TRUE: requests are served with a model; FALSE: without
  Nil,             \* an absent field (SQL NULL, a nil pointer)
  Blank,           \* a title that is sent but blank
  NoText,          \* an empty content field
  ImportedCount,   \* rows of the database the server was started with
  ImportedRows     \* those rows, which have no history of their own yet

Provenances == [by : Authors, source : {"own", "replaced", "moved"}, ref : Nat]

OwnSource(a) == [by |-> a, source |-> "own", ref |-> 0]

\* A row of chunks; a row of memory_revisions holds the same fields.
Rows == [scope      : Scopes,
         key        : Keys \cup {Nil},
         content    : Contents,
         title      : Titles,
         tags       : Tags,
         type       : Types,
         purpose    : Purposes,
         confirmed  : BOOLEAN,
         provenance : Provenances,
         archived   : BOOLEAN,
         revision   : Nat \ {0},
         embedding  : Contents \cup {Nil}]

\* WriteInput, ArchiveInput and MoveInput without their request ID.
WriteInputs == [op         : {"write"},
                scope      : Scopes,
                content    : Contents \cup {NoText},
                title      : Titles \cup {Nil, Blank},
                tags       : Tags \cup {Nil},
                type       : Types \cup {Nil},
                purpose    : Purposes,
                confirmed  : BOOLEAN,
                provenance : Provenances,
                key        : Keys \cup {Nil},
                id         : Nat \cup {Nil},
                expected   : Nat \cup {Nil},
                restore    : Nat \cup {Nil}]

ArchiveInputs == [op         : {"archive"},
                  scope      : Scopes,
                  id         : Nat,
                  expected   : Nat,
                  archived   : BOOLEAN,
                  provenance : Provenances]

MoveInputs == [op         : {"move"},
               id         : Nat,
               expected   : Nat,
               target     : Scopes,
               provenance : Provenances]

Receipts == [id : Nat \ {0}, revision : Nat \ {0}, deduplicated : BOOLEAN]

\* A move gives its two halves request IDs of their own, by suffix.
Requests == RequestIDs \X {"", ":copy", ":archive"}

ActiveHandoff(row, scope) ==
  row.scope = scope /\ row.purpose = "handoff" /\ ~row.archived

\* The columns of idx_memory_exact: content_hash digests text, title and tags.
Identity(row) ==
  <<row.scope, row.type, row.purpose, row.confirmed, row.content, row.title, row.tags>>

SameIdentity(row, other) == ~row.archived /\ Identity(row) = Identity(other)

ASSUME ConstantsAssumption ==
  /\ Legacy \in Scopes
  /\ DurableScopes \subseteq Scopes \ {Legacy}
  /\ Agents \subseteq Authors
  /\ FirstRunes \in [Contents -> Titles]
  /\ "" \in Tags /\ "knowledge" \in Types
  /\ Metadata \subseteq [title : Titles \cup {Nil, Blank}, tags : Tags \cup {Nil}, type : Types \cup {Nil}]
  /\ Vectors \subseteq BOOLEAN
  /\ Nil \notin Nat \cup Keys \cup Contents \cup Titles \cup Tags \cup Types
  /\ Blank \notin Titles \cup {Nil}
  /\ NoText \notin Contents

\* Rows an earlier release or an import left behind: the unique indexes hold,
\* scopes newer than legacy have one active handoff, nothing was replaced yet.
ASSUME ImportedAssumption ==
  /\ ImportedCount \in Nat
  /\ ImportedRows \in [1 .. ImportedCount -> Rows]
  /\ \A i \in 1 .. ImportedCount :
       /\ ImportedRows[i].revision = 1
       /\ ImportedRows[i].provenance.source = "own"
       /\ ImportedRows[i].embedding \in {Nil, ImportedRows[i].content}
  /\ \A i, j \in 1 .. ImportedCount :
       i # j /\ ImportedRows[i].scope = ImportedRows[j].scope /\ ImportedRows[i].scope # Legacy =>
         /\ ~ (SameIdentity(ImportedRows[i], ImportedRows[j]) /\ ~ImportedRows[j].archived)
         /\ ImportedRows[i].key = ImportedRows[j].key => ImportedRows[i].key = Nil
         /\ ~ (ActiveHandoff(ImportedRows[i], ImportedRows[i].scope) /\ ActiveHandoff(ImportedRows[j], ImportedRows[i].scope))

VARIABLE db   \* [last, chunks, revisions, requests]: the tables

----------------------------------------------------------------------------
(***************************************************************************)
(* The statements the transactions are made of.                            *)
(***************************************************************************)

IDs(d) == 1 .. d.last

\* snapshot: INSERT OR IGNORE of the rows as they stand under their revision.
Snapshot(revisions, rows) ==
  LET pairs == {<<i, rows[i].revision>> : i \in DOMAIN rows}
  IN  [p \in DOMAIN revisions \cup pairs |->
         IF p \in DOMAIN revisions THEN revisions[p] ELSE rows[p[1]]]

\* Mutant: only what the rows become is kept, as if every row had a history.
Revise_NoSnapshotBefore(d, rows) ==
  LET last == IF d.last + 1 \in DOMAIN rows THEN d.last + 1 ELSE d.last
  IN  [last      |-> last,
       chunks    |-> [i \in 1 .. last |-> IF i \in DOMAIN rows THEN rows[i] ELSE d.chunks[i]],
       revisions |-> Snapshot(d.revisions, rows),
       requests  |-> d.requests]

\* Every change of rows: snapshot what they were, store them, snapshot what
\* they are.  An ID above last is the AUTOINCREMENT of an INSERT.
Revise(d, rows) ==
  LET before == [i \in DOMAIN rows \cap IDs(d) |-> d.chunks[i]]
      last   == IF d.last + 1 \in DOMAIN rows THEN d.last + 1 ELSE d.last
  IN  [last      |-> last,
       chunks    |-> [i \in 1 .. last |-> IF i \in DOMAIN rows THEN rows[i] ELSE d.chunks[i]],
       revisions |-> Snapshot(Snapshot(d.revisions, before), rows),
       requests  |-> d.requests]

\* One row to be stored under an ID.
Only(id, row) == [i \in {id} |-> row]

\* acknowledge: the receipt a retry of the request is answered with.
Acknowledge(d, request, input, receipt) ==
  [last      |-> d.last,
   chunks    |-> d.chunks,
   revisions |-> d.revisions,
   requests  |-> [q \in DOMAIN d.requests \cup {request} |->
                    IF q = request THEN [input |-> input, receipt |-> receipt]
                                   ELSE d.requests[q]]]

\* The UPDATE that archives a row or shows it again.
Shown(row, archived, provenance) ==
  [row EXCEPT !.revision = @ + 1, !.archived = archived, !.provenance = provenance]

Replaced(d, ids, replacement, by) ==
  [i \in ids |-> Shown(d.chunks[i], TRUE, [by |-> by.by, source |-> "replaced", ref |-> replacement])]

\* Mutant: handoffs of every scope are retired.
RetireHandoffs_AnyScope(d, scope, replacement, by) ==
  Revise(d, Replaced(d, {i \in IDs(d) \ {replacement} : ActiveHandoff(d.chunks[i], d.chunks[i].scope)},
                     replacement, by))

\* retireHandoffs: the other active handoffs of the scope are archived, with a
\* provenance that names the replacing record.
RetireHandoffs(d, scope, replacement, by) ==
  LET retired == {i \in IDs(d) \ {replacement} : ActiveHandoff(d.chunks[i], scope)}
  IN  Revise(d, Replaced(d, retired, replacement, by))

\* Mutant: the duplicate query forgets the confirmed column.
Exact_AnyConfirmation(d, row, except) ==
  {i \in IDs(d) \ {except} :
     SameIdentity(d.chunks[i], [row EXCEPT !.confirmed = d.chunks[i].confirmed])}

\* The active rows other than `except` that have a row's exact identity.
Exact(d, row, except) ==
  {i \in IDs(d) \ {except} : SameIdentity(d.chunks[i], row)}

\* getInTx with a revision: the row itself or its snapshot, of the same scope.
HasRevision(d, id, revision) ==
  \/ revision = d.chunks[id].revision
  \/ /\ <<id, revision>> \in DOMAIN d.revisions
     /\ d.revisions[<<id, revision>>].revision = revision
     /\ d.revisions[<<id, revision>>].scope = d.chunks[id].scope

RevisionOf(d, id, revision) ==
  IF revision = d.chunks[id].revision THEN d.chunks[id] ELSE d.revisions[<<id, revision>>]

----------------------------------------------------------------------------
(***************************************************************************)
(* writeTx: a new memory, a correction or a restore.                       *)
(***************************************************************************)

Holders(d, scope, key) == {i \in IDs(d) : d.chunks[i].scope = scope /\ d.chunks[i].key = key}

\* The record the request is about: by ID, else by key, else none (a new one).
Selected(d, in) ==
  IF in.id # Nil THEN in.id
  ELSE IF in.key # Nil /\ Holders(d, in.scope, in.key) # {}
       THEN CHOOSE i \in Holders(d, in.scope, in.key) : TRUE
       ELSE Nil

\* A correction keeps a title that was chosen; a derived one follows the text.
CorrectedTitle(d, id, in, content) ==
  IF in.title \in Titles THEN in.title
  ELSE IF in.title = Nil /\ id # Nil /\ d.chunks[id].title # FirstRunes[d.chunks[id].content]
       THEN d.chunks[id].title
       ELSE FirstRunes[content]

\* Mutant: the text of a restore is not taken from the old revision.
TextOf_Sent(d, id, in) ==
  [content |-> in.content,
   title   |-> CorrectedTitle(d, id, in, CHOOSE c \in Contents : TRUE),
   tags    |-> "",
   type    |-> "knowledge",
   purpose |-> in.purpose]

\* What a write says: the old revision of a restore, or what the request sends
\* with the tags and type of the current row where it sends none.
TextOf(d, id, in) ==
  IF in.restore # Nil
  THEN LET prior == RevisionOf(d, id, in.restore)
       IN  [content |-> prior.content, title |-> prior.title, tags |-> prior.tags,
            type |-> prior.type, purpose |-> prior.purpose]
  ELSE [content |-> in.content,
        title   |-> CorrectedTitle(d, id, in, in.content),
        tags    |-> IF in.tags # Nil THEN in.tags ELSE IF id # Nil THEN d.chunks[id].tags ELSE "",
        type    |-> IF in.type # Nil THEN in.type ELSE IF id # Nil THEN d.chunks[id].type ELSE "knowledge",
        purpose |-> in.purpose]

\* Mutant: a correction served without a model keeps the vector of the old text.
EmbeddingOf_Kept(d, id, in, vector) ==
  IF vector # Nil THEN vector ELSE IF id # Nil THEN d.chunks[id].embedding ELSE Nil

\* The UPDATE clears the embedding; a restore without a model copies the old one.
EmbeddingOf(d, id, in, vector) ==
  IF vector # Nil THEN vector
  ELSE IF in.restore # Nil THEN RevisionOf(d, id, in.restore).embedding ELSE Nil

\* The row a write stores.
WrittenRow(d, in, vector) ==
  LET id   == Selected(d, in)
      text == TextOf(d, id, in)
  IN  [scope      |-> in.scope,
       key        |-> IF id = Nil THEN in.key ELSE d.chunks[id].key,
       content    |-> text.content,
       title      |-> text.title,
       tags       |-> text.tags,
       type       |-> text.type,
       purpose    |-> text.purpose,
       confirmed  |-> in.confirmed,
       provenance |-> in.provenance,
       archived   |-> FALSE,
       revision   |-> IF id = Nil THEN 1 ELSE d.chunks[id].revision + 1,
       embedding  |-> EmbeddingOf(d, id, in, vector)]

Deduplicates(d, in, row) == Selected(d, in) = Nil /\ Exact(d, row, 0) # {}

\* Mutants: an edit from an old revision, or one that unconfirms, is accepted.
AtRevision_Stale(d, id, expected) == expected # Nil
KeepsConfirmation_Lost(d, id, in) == TRUE

\* The request was made from the revision that is still the current one.
AtRevision(d, id, expected) == expected = d.chunks[id].revision

\* An observation cannot replace confirmed content.
KeepsConfirmation(d, id, in) == d.chunks[id].confirmed => in.confirmed

\* No check of writeTx fails.  Two requests that would leave a second active
\* memory of the same identity are refused or answered with the first one.
Writable(d, in, vector) ==
  LET id  == Selected(d, in)
      row == WrittenRow(d, in, vector)
  IN  /\ IF id = Nil
         THEN in.expected = Nil /\ in.restore = Nil
         ELSE /\ id \in IDs(d) /\ d.chunks[id].scope = in.scope
              /\ AtRevision(d, id, in.expected)
              /\ KeepsConfirmation(d, id, in)
              /\ in.key # Nil => in.key = d.chunks[id].key
      /\ IF in.restore = Nil
         THEN in.content # NoText
         ELSE in.content = NoText /\ HasRevision(d, id, in.restore)
      /\ IF id = Nil
         THEN \A i \in Exact(d, row, 0) : d.chunks[i].key = in.key
         ELSE Exact(d, row, id) = {}

\* The record a write ends at, and the receipt it is acknowledged with.
WriteReceipt(d, in, row) ==
  IF Deduplicates(d, in, row)
  THEN LET i == CHOOSE j \in Exact(d, row, 0) : TRUE
       IN  [id |-> i, revision |-> d.chunks[i].revision, deduplicated |-> TRUE]
  ELSE [id           |-> IF Selected(d, in) = Nil THEN d.last + 1 ELSE Selected(d, in),
        revision     |-> row.revision,
        deduplicated |-> FALSE]

\* writeTx, once its checks have passed.
WriteTx(d, request, in, vector) ==
  LET row     == WrittenRow(d, in, vector)
      receipt == WriteReceipt(d, in, row)
      written == Revise(d, Only(receipt.id, row))
      settled == IF row.purpose = "handoff"
                 THEN RetireHandoffs(written, in.scope, receipt.id, in.provenance)
                 ELSE written
  IN  Acknowledge(IF receipt.deduplicated THEN d ELSE settled, request, in, receipt)

----------------------------------------------------------------------------
(***************************************************************************)
(* archiveTx: hide a record or show it again, at the revision it was seen. *)
(***************************************************************************)

\* Mutant: a record is shown again beside its duplicate.
Archivable_NoDuplicateCheck(d, in) ==
  /\ in.id \in IDs(d) /\ d.chunks[in.id].scope = in.scope
  /\ AtRevision(d, in.id, in.expected)

\* No check of archiveTx fails: a record is not shown again beside a duplicate.
Archivable(d, in) ==
  /\ in.id \in IDs(d) /\ d.chunks[in.id].scope = in.scope
  /\ AtRevision(d, in.id, in.expected)
  /\ d.chunks[in.id].archived /\ ~in.archived /\ in.scope # Legacy
       => Exact(d, d.chunks[in.id], in.id) = {}

ArchivedRow(d, in) == Shown(d.chunks[in.id], in.archived, in.provenance)

\* Mutant: showing a handoff again leaves the current one active.
ArchiveTx_NoRetire(d, request, in) ==
  Acknowledge(Revise(d, Only(in.id, ArchivedRow(d, in))), request, in,
    [id |-> in.id, revision |-> ArchivedRow(d, in).revision, deduplicated |-> FALSE])

\* archiveTx, once its checks have passed.
ArchiveTx(d, request, in) ==
  LET row     == ArchivedRow(d, in)
      revised == Revise(d, Only(in.id, row))
      settled == IF ~in.archived /\ row.purpose = "handoff"
                 THEN RetireHandoffs(revised, in.scope, in.id, in.provenance)
                 ELSE revised
  IN  Acknowledge(settled, request, in,
        [id |-> in.id, revision |-> row.revision, deduplicated |-> FALSE])

----------------------------------------------------------------------------
(***************************************************************************)
(* Move: a copy at the target, and the original archived with a note that  *)
(* names the copy, in one transaction.                                     *)
(***************************************************************************)

\* Mutant: the title is not carried over, so the copy derives one from its text.
CopyInput_Derived(d, in) ==
  [op         |-> "write",
   scope      |-> in.target,
   content    |-> d.chunks[in.id].content,
   title      |-> Nil,
   tags       |-> d.chunks[in.id].tags,
   type       |-> d.chunks[in.id].type,
   purpose    |-> d.chunks[in.id].purpose,
   confirmed  |-> d.chunks[in.id].confirmed,
   provenance |-> d.chunks[in.id].provenance,
   key        |-> d.chunks[in.id].key,
   id         |-> Nil,
   expected   |-> Nil,
   restore    |-> Nil]

\* The copy is a new memory, or a correction of the archived memory that holds
\* the key at the target (often the place this one came from).
CopyInput(d, in) ==
  LET old    == d.chunks[in.id]
      holder == IF old.key = Nil THEN {} ELSE Holders(d, in.target, old.key)
      id     == IF holder = {} THEN Nil ELSE CHOOSE i \in holder : TRUE
  IN  [op         |-> "write",
       scope      |-> in.target,
       content    |-> old.content,
       title      |-> old.title,
       tags       |-> old.tags,
       type       |-> old.type,
       purpose    |-> old.purpose,
       confirmed  |-> old.confirmed,
       provenance |-> old.provenance,
       key        |-> old.key,
       id         |-> id,
       expected   |-> IF id = Nil THEN Nil ELSE d.chunks[id].revision,
       restore    |-> Nil]

Movable(d, in, vector) ==
  /\ in.id \in IDs(d)
  /\ ~d.chunks[in.id].archived /\ AtRevision(d, in.id, in.expected)
  /\ in.target \in DurableScopes /\ in.target # d.chunks[in.id].scope
  /\ d.chunks[in.id].scope # Legacy
  /\ LET copy == CopyInput(d, in)
     IN  /\ copy.id # Nil => d.chunks[copy.id].archived
         /\ Writable(d, copy, vector)
         /\ ~Deduplicates(d, copy, WrittenRow(d, copy, vector))

\* Mutant: the note names the original.
RetiredInput_NotesItself(d, in, copied) ==
  [op         |-> "archive",
   scope      |-> d.chunks[in.id].scope,
   id         |-> in.id,
   expected   |-> d.chunks[in.id].revision,
   archived   |-> TRUE,
   provenance |-> [by |-> in.provenance.by, source |-> "moved", ref |-> in.id]]

\* The second half of a move: the original, with the note that names the copy.
RetiredInput(d, in, copied) ==
  [op         |-> "archive",
   scope      |-> d.chunks[in.id].scope,
   id         |-> in.id,
   expected   |-> d.chunks[in.id].revision,
   archived   |-> TRUE,
   provenance |-> [by |-> in.provenance.by, source |-> "moved", ref |-> copied.id]]

MoveTx(d, r, in, vector) ==
  LET copy    == CopyInput(d, in)
      receipt == WriteReceipt(d, copy, WrittenRow(d, copy, vector))
      copied  == WriteTx(d, <<r, ":copy">>, copy, vector)
      moved   == ArchiveTx(copied, <<r, ":archive">>, RetiredInput(d, in, receipt))
  IN  Acknowledge(moved, <<r, "">>, in, receipt)

----------------------------------------------------------------------------
(***************************************************************************)
(* The requests.  replay: a request ID that was acknowledged is answered   *)
(* from memory_requests (or refused) and changes nothing.                  *)
(***************************************************************************)

\* Mutant: an acknowledged request is executed again.
Unused_NoReplay(d, r) == TRUE

Unused(d, r) == <<r, "">> \notin DOMAIN d.requests

\* The service embeds the text before the transaction, if it has a model.
VectorsOf(content) == {IF model THEN content ELSE Nil : model \in Vectors}

Write(r, in, vector) ==
  /\ in.scope # Legacy
  /\ in.id = Nil /\ in.expected = Nil => in.scope \in DurableScopes
  /\ Writable(db, in, vector)
  /\ db' = WriteTx(db, <<r, "">>, in, vector)

\* A memory without ID or expected revision, with or without a key.
Save(r) ==
  \E scope \in Scopes, content \in Contents, meta \in Metadata, purpose \in Purposes,
     confirmed \in BOOLEAN, key \in Keys \cup {Nil}, author \in Agents :
    \E vector \in VectorsOf(content) :
      Write(r, [op |-> "write", scope |-> scope, content |-> content, title |-> meta.title,
                tags |-> meta.tags, type |-> meta.type, purpose |-> purpose, confirmed |-> confirmed,
                provenance |-> OwnSource(author), key |-> key,
                id |-> Nil, expected |-> Nil, restore |-> Nil], vector)

\* A correction of record i, selected by ID or by key, at a revision its sender
\* once read, from the scope its sender names.
Correct(r, i) ==
  \E scope \in Scopes, content \in Contents, meta \in Metadata, purpose \in Purposes,
     confirmed \in BOOLEAN, key \in Keys \cup {Nil}, author \in Agents, id \in {i, Nil},
     expected \in 1 .. db.chunks[i].revision :
    \E vector \in VectorsOf(content) :
      Write(r, [op |-> "write", scope |-> scope, content |-> content, title |-> meta.title,
                tags |-> meta.tags, type |-> meta.type, purpose |-> purpose, confirmed |-> confirmed,
                provenance |-> OwnSource(author), key |-> key,
                id |-> id, expected |-> expected, restore |-> Nil], vector)

\* A restore of an earlier revision of record i: only its text is embedded anew.
Restore(r, i) ==
  \E scope \in Scopes, confirmed \in BOOLEAN, author \in Agents,
     expected, revision \in 1 .. db.chunks[i].revision :
    /\ HasRevision(db, i, revision)
    /\ \E purpose \in Purposes, vector \in VectorsOf(RevisionOf(db, i, revision).content) :
         Write(r, [op |-> "write", scope |-> scope, content |-> NoText, title |-> Nil,
                   tags |-> Nil, type |-> Nil, purpose |-> purpose, confirmed |-> confirmed,
                   provenance |-> OwnSource(author), key |-> Nil,
                   id |-> i, expected |-> expected, restore |-> revision], vector)

Archive(r, i) ==
  \E scope \in Scopes, archived \in BOOLEAN, author \in Agents,
     expected \in 1 .. db.chunks[i].revision :
    LET in == [op |-> "archive", scope |-> scope, id |-> i, expected |-> expected,
               archived |-> archived, provenance |-> OwnSource(author)]
    IN  /\ Archivable(db, in)
        /\ db' = ArchiveTx(db, <<r, "">>, in)

Move(r, i) ==
  \E target \in Scopes, author \in Agents, expected \in 1 .. db.chunks[i].revision :
    LET in == [op |-> "move", id |-> i, expected |-> expected, target |-> target,
               provenance |-> OwnSource(author)]
    IN  /\ HasRevision(db, i, expected)
        /\ \E vector \in VectorsOf(RevisionOf(db, i, expected).content) :
             /\ Movable(db, in, vector)
             /\ db' = MoveTx(db, r, in, vector)

Init ==
  db = [last      |-> ImportedCount,
        chunks    |-> ImportedRows,
        revisions |-> [p \in {} |-> Nil],
        requests  |-> [q \in {} |-> Nil]]

Next ==
  \E r \in RequestIDs :
    /\ Unused(db, r)
    /\ \/ Save(r)
       \/ \E i \in IDs(db) : Correct(r, i) \/ Restore(r, i) \/ Archive(r, i) \/ Move(r, i)

Spec == Init /\ [][Next]_db
----------------------------------------------------------------------------
(***************************************************************************)
(* Properties.  Those of a state take the database as a parameter, as the  *)
(* operators above do; the definitions without one are what runs check.    *)
(***************************************************************************)

TypeCorrect(d) ==
  /\ d.last \in Nat
  /\ d.chunks \in [1 .. d.last -> Rows]
  /\ DOMAIN d.revisions \subseteq Nat \X Nat
  /\ \A p \in DOMAIN d.revisions : d.revisions[p] \in Rows
  /\ DOMAIN d.requests \subseteq Requests
  /\ \A q \in DOMAIN d.requests :
       /\ d.requests[q].input \in WriteInputs \cup ArchiveInputs \cup MoveInputs
       /\ d.requests[q].receipt \in Receipts

\* The tables hold well-formed rows, and IDs are dense: AUTOINCREMENT never
\* reuses or skips one, and no statement deletes a row.
TypeOK == TypeCorrect(db)

Stored(d, i, k) == <<i, k>> \in DOMAIN d.revisions

\* A row no transaction touched since the server was given the database.
Untouched(d, i) == i <= ImportedCount /\ d.chunks[i].revision = 1

History(d) ==
  /\ \A p \in DOMAIN d.revisions :
       /\ p[1] \in IDs(d) /\ p[2] \in 1 .. d.chunks[p[1]].revision
       /\ d.revisions[p].revision = p[2]
       /\ d.revisions[p].scope = d.chunks[p[1]].scope
       /\ d.revisions[p].key = d.chunks[p[1]].key
  /\ \A i \in IDs(d) :
       \/ Untouched(d, i)
       \/ \A k \in 1 .. d.chunks[i].revision : Stored(d, i, k)
  /\ \A i \in IDs(d) :
       Stored(d, i, d.chunks[i].revision)
         => d.revisions[<<i, d.chunks[i].revision>>] = d.chunks[i]

\* Every revision a memory ever had stays readable in memory_revisions under
\* its number, in the memory's own scope and under its key, and the newest one
\* is the row itself; only a row that was imported and never changed has none.
HistoryComplete == History(db)

OneHandoff(d) ==
  \A i, j \in IDs(d) :
    i # j /\ d.chunks[i].scope = d.chunks[j].scope /\ d.chunks[i].scope # Legacy
      => ~ (ActiveHandoff(d.chunks[i], d.chunks[i].scope) /\ ActiveHandoff(d.chunks[j], d.chunks[j].scope))

\* docs/memory-view.md: "Handoff: one per exact scope", whichever of saving,
\* correcting, restoring a revision, unarchiving and moving made it active.
OneHandoffPerScope == OneHandoff(db)

ExactOnce(d) ==
  \A i, j \in IDs(d) :
    i # j /\ d.chunks[i].scope # Legacy /\ SameIdentity(d.chunks[i], d.chunks[j]) => d.chunks[j].archived

KeyOnce(d) ==
  \A i, j \in IDs(d) :
    i # j /\ d.chunks[i].scope = d.chunks[j].scope /\ d.chunks[i].scope # Legacy
      => d.chunks[i].key # d.chunks[j].key \/ d.chunks[i].key = Nil

\* The checks of the transactions alone keep two active memories from having the
\* same scope, type, purpose, confirmation, text, title and tags, and two memories,
\* archived ones included, from holding one key of a scope: the unique indexes
\* idx_memory_exact and idx_memory_key never have to refuse a statement.
UniqueIndexes == ExactOnce(db) /\ KeyOnce(db)

Confirmation(d) ==
  \A p, q \in DOMAIN d.revisions :
    p[1] = q[1] /\ p[2] <= q[2] /\ d.revisions[p].confirmed => d.revisions[q].confirmed

\* What the owner confirmed is never replaced by an unconfirmed text: along the
\* history of a memory confirmation is never lost, through corrections, restores
\* of older revisions, archiving and moves onto its key.
ConfirmationKept == Confirmation(db)

\* Who made a version: the requests whose receipt it is.
MadeBy(d, i, k) ==
  {q \in DOMAIN d.requests : /\ ~d.requests[q].receipt.deduplicated
                             /\ d.requests[q].receipt.id = i
                             /\ d.requests[q].receipt.revision = k}

AppliedOnce(d) ==
  \A p \in DOMAIN d.revisions :
    LET made == MadeBy(d, p[1], p[2])
    IN  /\ \A q, s \in made : q[1] = s[1]
        /\ \A q \in made : d.requests[q].input.op # "move" =>
             d.requests[q].input.expected = (IF p[2] = 1 THEN Nil ELSE p[2] - 1)
        /\ \/ made # {}
           \/ d.revisions[p].provenance.source = "replaced"
           \/ p[1] <= ImportedCount /\ p[2] = 1

\* No lost update and no double application: a version was made by exactly one
\* acknowledged request (a move shares its receipt with its copy), by the
\* retirement of a handoff, or was there at the start.  Two clients who edited
\* from the same revision are never both told they succeeded.
EveryVersionAccounted == AppliedOnce(db)

Kept(d) ==
  \A q \in DOMAIN d.requests :
    LET in   == d.requests[q].input
        rc   == d.requests[q].receipt
        made == RevisionOf(d, rc.id, rc.revision)
    IN  /\ rc.id \in IDs(d) /\ HasRevision(d, rc.id, rc.revision)
        /\ in.op # "move" => made.scope = in.scope
        /\ in.op = "archive" => made.archived = in.archived
        /\ in.op = "write" =>
             /\ made.confirmed = in.confirmed
             /\ in.key # Nil => made.key = in.key
             /\ in.restore = Nil => made.content = in.content /\ made.purpose = in.purpose
             /\ in.restore # Nil =>
                  LET prior == d.revisions[<<rc.id, in.restore>>]
                  IN  /\ Stored(d, rc.id, in.restore)
                      /\ <<made.content, made.title, made.tags, made.type, made.purpose>>
                           = <<prior.content, prior.title, prior.tags, prior.type, prior.purpose>>

\* An acknowledged request stays true: the version its receipt names exists for
\* good, in the scope the request named, with the text it sent (or restored), also
\* when the request was answered with an existing memory.
AcknowledgedKept == Kept(db)

Conserved(d) ==
  \A q \in DOMAIN d.requests :
    d.requests[q].input.op = "move" =>
      LET in   == d.requests[q].input
          rc   == d.requests[q].receipt
          from == d.revisions[<<in.id, in.expected>>]
          left == d.revisions[<<in.id, in.expected + 1>>]
          copy == d.revisions[<<rc.id, rc.revision>>]
      IN  /\ Stored(d, in.id, in.expected) /\ Stored(d, in.id, in.expected + 1) /\ Stored(d, rc.id, rc.revision)
          /\ ~from.archived /\ left.archived /\ ~copy.archived /\ copy.scope = in.target
          /\ left.provenance.source = "moved" /\ left.provenance.ref = rc.id
          /\ Identity([copy EXCEPT !.scope = from.scope]) = Identity(from)
          /\ copy.key = from.key /\ copy.provenance = from.provenance

\* docs/memory-view.md: a moved memory has "a copy with the same text, purpose
\* and source" at the target and "the original is archived with a note naming
\* the copy": a memory is neither lost nor doubled by a move.
MoveConserves == Conserved(db)

Notes(d) ==
  \A p \in DOMAIN d.revisions :
    LET v == d.revisions[p]
        n == v.provenance.ref
    IN  v.provenance.source # "own" =>
          /\ v.archived /\ n \in IDs(d) \ {p[1]}
          /\ \E k \in 1 .. d.chunks[n].revision :
               /\ Stored(d, n, k)
               /\ v.provenance.source = "replaced" =>
                    d.revisions[<<n, k>>].purpose = "handoff" /\ d.chunks[n].scope = v.scope
               /\ v.provenance.source = "moved" =>
                    d.revisions[<<n, k>>].content = v.content /\ d.chunks[n].scope # v.scope

\* A note on an archived memory tells the truth: "Replaced by handoff N" names
\* another memory of the same scope that was a handoff, "Moved to memory N" one of
\* another scope with the same text; and an active memory carries no such note.
NotesTruthful == Notes(db)

OwnEmbedding(d) ==
  /\ \A i \in IDs(d) : d.chunks[i].embedding \in {Nil, d.chunks[i].content}
  /\ \A p \in DOMAIN d.revisions : d.revisions[p].embedding \in {Nil, d.revisions[p].content}

\* A vector always belongs to the text it is stored with, in rows and in history,
\* also after restores and moves, whose vectors are computed or copied elsewhere.
EmbeddingOfOwnText == OwnEmbedding(db)

Versions ==
  INSTANCE VersionedStore WITH
    Given    <- [i \in 1 .. ImportedCount |-> <<ImportedRows[i]>>],
    versions <- [i \in IDs(db) |-> [k \in 1 .. db.chunks[i].revision |-> RevisionOf(db, i, k)]],
    receipts <- [q \in DOMAIN db.requests |->
                   [id |-> db.requests[q].receipt.id, revision |-> db.requests[q].receipt.revision]]

\* Read through getInTx, the tables are a VersionedStore: every version a reader
\* could get it can always get again, unchanged, through corrections, restores,
\* retirements and moves, and a receipt names what was the newest version when it
\* was given.
ImplementsVersionedStore == Versions!Spec

\* A row that changes gets the next revision, in a step that acknowledges a
\* request for the row's own scope: no request reaches into another scope.
ChangesOnRequest ==
  [][\A i \in IDs(db) : db'.chunks[i] # db.chunks[i] =>
       /\ db'.chunks[i].revision = db.chunks[i].revision + 1
       /\ \E q \in DOMAIN db'.requests \ DOMAIN db.requests :
            /\ db'.requests[q].input.op # "move"
            /\ db'.requests[q].input.scope = db.chunks[i].scope]_db
============================================================================
