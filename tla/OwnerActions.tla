---------------------------- MODULE OwnerActions ----------------------------
(***************************************************************************)
(* The owner's page (internal/service, visualizer.go) creates, edits,      *)
(* confirms, restores, archives and moves memories.  A handler first reads *)
(* the record the page named, in transactions of its own, builds a request *)
(* from what it read, perhaps waits for the embedding model, and then asks *)
(* the store, which may have changed in between.                           *)
(*                                                                         *)
(* The page sends a change again, with the same request ID, after any      *)
(* answer that was not definite.  The store replays a repeated request     *)
(* only if it is the same one, so what a handler builds must not depend on *)
(* when it runs.  A handler may also be refused before it builds anything. *)
(***************************************************************************)
EXTENDS MemoryStore

CONSTANTS
  Owner,       \* the author of what is done in the memory view
  Preference   \* the purpose of what the owner writes

ASSUME OwnerAssumption == Owner \in Authors /\ Preference \in Purposes

OwnerProvenance == OwnSource(Owner)

\* The page always sends a title; a blank one means: derive it.
SentTitles == ({meta.title : meta \in Metadata} \ {Nil}) \cup {Blank}

\* RecordByID: the owner reads every scope but the legacy one.
Readable(d, i, revision) == d.chunks[i].scope # Legacy /\ HasRevision(d, i, revision)

\* What an update asks for: words that are sent or read, a record's tags and type,
\* or a revision to restore.
Rewording(d, i, expected, words, rest, provenance, restore) ==
  [op         |-> "write",
   scope      |-> d.chunks[i].scope,
   content    |-> words.content,
   title      |-> words.title,
   tags       |-> rest.tags,
   type       |-> rest.type,
   purpose    |-> words.purpose,
   confirmed  |-> TRUE,
   provenance |-> provenance,
   key        |-> d.chunks[i].key,
   id         |-> i,
   expected   |-> expected,
   restore    |-> restore]

\* visualizerUpdate, "edit": tags and type are those of the revision it finds.
EditInput(d, i, expected, found, words) ==
  Rewording(d, i, expected, words, RevisionOf(d, i, found), OwnerProvenance, Nil)

\* Mutant: the words are those of the record as it stands.
ConfirmInput_Current(d, i, expected) ==
  Rewording(d, i, expected, d.chunks[i], d.chunks[i], d.chunks[i].provenance, Nil)

\* visualizerUpdate, "confirm": the revision the owner saw, by its own author.
ConfirmInput(d, i, expected) ==
  LET prior == RevisionOf(d, i, expected)
  IN  Rewording(d, i, expected, prior, prior, prior.provenance, Nil)

\* visualizerUpdate with a revision to restore.
RestoreInput(d, i, expected, revision) ==
  LET words == [content |-> NoText, title |-> Nil, purpose |-> RevisionOf(d, i, revision).purpose]
  IN  Rewording(d, i, expected, words, [tags |-> Nil, type |-> Nil], OwnerProvenance, revision)

\* Mutant: the note on a replaced handoff stays on it when it is shown again.
Archivist_KeepsNote(d, i, expected) == RevisionOf(d, i, expected).provenance

\* Archiving keeps the author: who wrote the revision the owner saw or, if that is
\* a note, the revision before it.
Archivist(d, i, expected) ==
  LET prior == RevisionOf(d, i, expected)
  IN  IF prior.provenance.source = "own" THEN prior.provenance
      ELSE IF expected > 1 /\ HasRevision(d, i, expected - 1)
           THEN RevisionOf(d, i, expected - 1).provenance
           ELSE OwnerProvenance

\* A read of either revision that fails leaves the archiving to the memory view.
Archivists(d, i, expected) == {Archivist(d, i, expected), OwnerProvenance}

\* visualizerArchive.
OwnerArchiveInput(d, i, expected, archived, author) ==
  [op         |-> "archive",
   scope      |-> d.chunks[i].scope,
   id         |-> i,
   expected   |-> expected,
   archived   |-> archived,
   provenance |-> author]

----------------------------------------------------------------------------
(***************************************************************************)
(* The handlers.  Nothing ever changes a revision, a scope or a key, so    *)
(* what a handler has read is a revision the memory had by then, and the   *)
(* page saw the expected one before the handler began.                     *)
(***************************************************************************)

\* What an update may have found when it read the record as it stood, at some moment
\* since the page did.  An update that finds the record archived is refused with 409
\* before it builds a request, be it new or sent again: it changes nothing.
Found(i, expected) ==
  {k \in expected .. db.chunks[i].revision :
     Readable(db, i, k) /\ ~RevisionOf(db, i, k).archived}

OwnerCreate(r) ==
  \E scope \in DurableScopes, content \in Contents, title \in SentTitles :
    \E vector \in VectorsOf(content) :
      Write(r, [op |-> "write", scope |-> scope, content |-> content, title |-> title,
                tags |-> Nil, type |-> Nil, purpose |-> Preference, confirmed |-> TRUE,
                provenance |-> OwnerProvenance, key |-> Nil,
                id |-> Nil, expected |-> Nil, restore |-> Nil], vector)

OwnerEdit(r, i) ==
  \E expected \in 1 .. db.chunks[i].revision :
    \E found \in Found(i, expected),
       words \in [content : Contents, title : SentTitles, purpose : Purposes] :
      \E vector \in VectorsOf(words.content) :
        Write(r, EditInput(db, i, expected, found, words), vector)

OwnerConfirm(r, i) ==
  \E expected \in 1 .. db.chunks[i].revision :
    /\ Found(i, expected) # {} /\ Readable(db, i, expected)
    /\ LET in == ConfirmInput(db, i, expected)
       IN  \E vector \in VectorsOf(in.content) : Write(r, in, vector)

OwnerRestore(r, i) ==
  \E expected, revision \in 1 .. db.chunks[i].revision :
    /\ revision < expected
    /\ Found(i, expected) # {} /\ Readable(db, i, revision)
    /\ \E vector \in VectorsOf(RevisionOf(db, i, revision).content) :
         Write(r, RestoreInput(db, i, expected, revision), vector)

OwnerArchive(r, i) ==
  \E expected \in 1 .. db.chunks[i].revision, archived \in BOOLEAN :
    /\ Readable(db, i, expected)
    /\ \E author \in Archivists(db, i, expected) :
         LET in == OwnerArchiveInput(db, i, expected, archived, author)
         IN  Archivable(db, in) /\ db' = ArchiveTx(db, <<r, "">>, in)

OwnerMove(r, i) ==
  \E expected \in 1 .. db.chunks[i].revision, target \in Scopes :
    LET in == [op |-> "move", id |-> i, expected |-> expected, target |-> target,
               provenance |-> OwnerProvenance]
    IN  /\ Readable(db, i, expected)
        /\ \E vector \in VectorsOf(RevisionOf(db, i, expected).content) :
             Movable(db, in, vector) /\ db' = MoveTx(db, r, in, vector)

OwnerNext ==
  \E r \in RequestIDs :
    /\ Unused(db, r)
    /\ \/ OwnerCreate(r)
       \/ \E i \in IDs(db) : \/ OwnerEdit(r, i) \/ OwnerConfirm(r, i) \/ OwnerRestore(r, i)
                             \/ OwnerArchive(r, i) \/ OwnerMove(r, i)

\* The memories of agents and their owner.
OwnedSpec == Init /\ [][Next \/ OwnerNext]_db

----------------------------------------------------------------------------
\* "An identical retry must generate the same writer fingerprint": when the handler of
\* a repeated confirmation, restore or archiving builds a request, it is the one built
\* before, however the memory has changed in between.  The readings it is built from stay
\* readable and the same.  (It may build none, when it finds the record archived; and an
\* archiving whose reads fail differs, in its author, from one whose reads did not.)
RetriesAlike ==
  [][\A i \in IDs(db) : \A k \in 1 .. db.chunks[i].revision :
       Readable(db, i, k) =>
         /\ Readable(db', i, k)
         /\ ConfirmInput(db', i, k) = ConfirmInput(db, i, k)
         /\ \A archived \in BOOLEAN :
              OwnerArchiveInput(db', i, k, archived, Archivist(db', i, k)) =
                OwnerArchiveInput(db, i, k, archived, Archivist(db, i, k))
         /\ \A expected \in k + 1 .. db.chunks[i].revision :
              RestoreInput(db', i, expected, k) = RestoreInput(db, i, expected, k)]_db
============================================================================
