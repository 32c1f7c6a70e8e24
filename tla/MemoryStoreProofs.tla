------------------------- MODULE MemoryStoreProofs -------------------------
(***************************************************************************)
(* Proofs about MemoryStore, for any scopes, texts, keys, requests and     *)
(* imported rows.                                                          *)
(***************************************************************************)
EXTENDS MemoryStore, TLAPS

\* What every use of Revise gives it: rows of the database with the next
\* revision and their scope, key and confirmation kept, or one new row.
Fits(d, rows) ==
  /\ DOMAIN rows \subseteq 1 .. d.last + 1
  /\ \A i \in DOMAIN rows :
       /\ rows[i] \in Rows
       /\ i \in IDs(d) =>
            /\ rows[i].revision = d.chunks[i].revision + 1
            /\ rows[i].scope = d.chunks[i].scope
            /\ rows[i].key = d.chunks[i].key
            /\ d.chunks[i].confirmed => rows[i].confirmed
       /\ i \notin IDs(d) => rows[i].revision = 1

\* A snapshot adds the rows' current revisions and keeps what was stored.
LEMMA SnapshotDomain ==
  ASSUME NEW revisions, NEW rows
  PROVE  LET new == Snapshot(revisions, rows)
         IN  /\ \A p : p \in DOMAIN new <=>
                         p \in DOMAIN revisions \/ \E i \in DOMAIN rows : p = <<i, rows[i].revision>>
             /\ \A p \in DOMAIN revisions : new[p] = revisions[p]
             /\ \A i \in DOMAIN rows : <<i, rows[i].revision>> \notin DOMAIN revisions
                  => new[<<i, rows[i].revision>>] = rows[i]
  BY DEF Snapshot

\* The four tables after Revise.
LEMMA ReviseTables ==
  ASSUME NEW d, TypeCorrect(d), NEW rows, Fits(d, rows)
  PROVE  LET e == Revise(d, rows)
         IN  /\ e.last \in Nat
             /\ IDs(e) = IDs(d) \cup DOMAIN rows
             /\ e.chunks \in [1 .. e.last -> Rows]
             /\ \A i \in IDs(e) : e.chunks[i] = IF i \in DOMAIN rows THEN rows[i] ELSE d.chunks[i]
             /\ e.requests = d.requests
  <1> DEFINE last == IF d.last + 1 \in DOMAIN rows THEN d.last + 1 ELSE d.last
  <1>1. d.last \in Nat /\ last \in Nat /\ Revise(d, rows).last = last
    BY DEF TypeCorrect, Revise
  <1>2. 1 .. last = (1 .. d.last) \cup DOMAIN rows
    BY <1>1 DEF Fits
  <1>3. \A i \in 1 .. last : (IF i \in DOMAIN rows THEN rows[i] ELSE d.chunks[i]) \in Rows
    BY <1>2 DEF Fits, TypeCorrect
  <1>4. Revise(d, rows).chunks = [i \in 1 .. last |-> IF i \in DOMAIN rows THEN rows[i] ELSE d.chunks[i]]
    BY DEF Revise
  <1>5. Revise(d, rows).requests = d.requests
    BY DEF Revise
  <1> QED BY <1>1, <1>2, <1>3, <1>4, <1>5 DEF IDs

\* What Revise does to the history of a database whose history is complete.
LEMMA ReviseRevisions ==
  ASSUME NEW d, TypeCorrect(d), History(d), NEW rows, Fits(d, rows)
  PROVE  LET e == Revise(d, rows)
         IN  /\ \A p : p \in DOMAIN e.revisions <=>
                         \/ p \in DOMAIN d.revisions
                         \/ \E i \in DOMAIN rows \cap IDs(d) : p = <<i, d.chunks[i].revision>>
                         \/ \E i \in DOMAIN rows : p = <<i, rows[i].revision>>
             /\ \A p \in DOMAIN d.revisions : e.revisions[p] = d.revisions[p]
             /\ \A i \in DOMAIN rows \cap IDs(d) : e.revisions[<<i, d.chunks[i].revision>>] = d.chunks[i]
             /\ \A i \in DOMAIN rows : e.revisions[<<i, rows[i].revision>>] = rows[i]
  <1> DEFINE before == [i \in DOMAIN rows \cap IDs(d) |-> d.chunks[i]]
             mid    == Snapshot(d.revisions, before)
  <1>1. Revise(d, rows).revisions = Snapshot(mid, rows)
    BY DEF Revise
  <1>2. /\ \A p : p \in DOMAIN mid <=>
                    p \in DOMAIN d.revisions \/ \E i \in DOMAIN rows \cap IDs(d) : p = <<i, d.chunks[i].revision>>
        /\ \A p \in DOMAIN d.revisions : mid[p] = d.revisions[p]
        /\ \A i \in DOMAIN rows \cap IDs(d) : mid[<<i, d.chunks[i].revision>>] = d.chunks[i]
    <2>1. DOMAIN before = DOMAIN rows \cap IDs(d) /\ \A i \in DOMAIN before : before[i] = d.chunks[i]
      OBVIOUS
    <2>2. \A i \in DOMAIN before : <<i, d.chunks[i].revision>> \in DOMAIN d.revisions
            => d.revisions[<<i, d.chunks[i].revision>>] = d.chunks[i]
      BY <2>1 DEF History, Stored
    <2> HIDE DEF before
    <2> QED BY <2>1, <2>2, SnapshotDomain
  <1> HIDE DEF mid
  <1>3. \A i \in DOMAIN rows : <<i, rows[i].revision>> \notin DOMAIN mid
    <2> SUFFICES ASSUME NEW i \in DOMAIN rows, <<i, rows[i].revision>> \in DOMAIN mid
                 PROVE  FALSE
      OBVIOUS
    <2>1. CASE i \in IDs(d)
      <3>1. rows[i].revision = d.chunks[i].revision + 1 /\ d.chunks[i].revision \in Nat
        BY <2>1 DEF Fits, TypeCorrect, Rows, IDs
      <3>2. <<i, rows[i].revision>> \notin DOMAIN d.revisions
        BY <3>1 DEF History
      <3> QED BY <3>1, <3>2, <1>2
    <2>2. CASE i \notin IDs(d)
      BY <2>2, <1>2 DEF History
    <2> QED BY <2>1, <2>2
  <1> QED BY <1>1, <1>2, <1>3, SnapshotDomain

\* Revise keeps the tables well-formed.
LEMMA ReviseType ==
  ASSUME NEW d, TypeCorrect(d), History(d), NEW rows, Fits(d, rows)
  PROVE  TypeCorrect(Revise(d, rows))
  <1> DEFINE e == Revise(d, rows)
  <1>1. DOMAIN rows \subseteq Nat /\ \A i \in DOMAIN rows : rows[i] \in Rows /\ rows[i].revision \in Nat
    BY DEF Fits, Rows, TypeCorrect
  <1>2. IDs(d) \subseteq Nat /\ \A i \in IDs(d) : d.chunks[i] \in Rows /\ d.chunks[i].revision \in Nat
    BY DEF Rows, TypeCorrect, IDs
  <1>3. DOMAIN e.revisions \subseteq Nat \X Nat /\ \A p \in DOMAIN e.revisions : e.revisions[p] \in Rows
    <2> SUFFICES ASSUME NEW p \in DOMAIN e.revisions
                 PROVE  p \in Nat \X Nat /\ e.revisions[p] \in Rows
      OBVIOUS
    <2>1. CASE p \in DOMAIN d.revisions
      BY <2>1, ReviseRevisions DEF TypeCorrect
    <2>2. CASE \E i \in DOMAIN rows \cap IDs(d) : p = <<i, d.chunks[i].revision>>
      BY <2>2, <1>1, <1>2, ReviseRevisions
    <2>3. CASE \E i \in DOMAIN rows : p = <<i, rows[i].revision>>
      BY <2>3, <1>1, ReviseRevisions
    <2> QED BY <2>1, <2>2, <2>3, ReviseRevisions
  <1> QED BY <1>3, ReviseTables DEF TypeCorrect

\* Revise keeps the history complete.
LEMMA ReviseHistory ==
  ASSUME NEW d, TypeCorrect(d), History(d), NEW rows, Fits(d, rows)
  PROVE  History(Revise(d, rows))
  <1> DEFINE e == Revise(d, rows)
  <1>1. /\ d.last \in Nat
        /\ \A i \in IDs(d) : d.chunks[i] \in Rows /\ d.chunks[i].revision \in Nat \ {0}
        /\ \A i \in DOMAIN rows : rows[i].revision \in Nat \ {0}
    BY DEF Rows, TypeCorrect, IDs, Fits
  <1>2. \A i \in IDs(e) : e.chunks[i] = IF i \in DOMAIN rows THEN rows[i] ELSE d.chunks[i]
    BY ReviseTables
  <1>3. IDs(e) = IDs(d) \cup DOMAIN rows
    BY ReviseTables
  <1>4. ASSUME NEW p \in DOMAIN e.revisions
        PROVE  /\ p[1] \in IDs(e) /\ p[2] \in 1 .. e.chunks[p[1]].revision
               /\ e.revisions[p].revision = p[2]
               /\ e.revisions[p].scope = e.chunks[p[1]].scope
               /\ e.revisions[p].key = e.chunks[p[1]].key
    <2>1. CASE p \in DOMAIN d.revisions
      <3>1. p[1] \in IDs(d) /\ p[2] \in 1 .. d.chunks[p[1]].revision /\ e.revisions[p] = d.revisions[p]
        BY <2>1, ReviseRevisions DEF History
      <3>2. p[2] \in 1 .. e.chunks[p[1]].revision
        BY <3>1, <1>1, <1>2, <1>3 DEF Fits
      <3> QED BY <2>1, <3>1, <3>2, <1>2, <1>3 DEF Fits, History
    <2>2. CASE \E i \in DOMAIN rows \cap IDs(d) : p = <<i, d.chunks[i].revision>>
      BY <2>2, <1>1, <1>2, <1>3, ReviseRevisions DEF Fits
    <2>3. CASE \E i \in DOMAIN rows : p = <<i, rows[i].revision>>
      BY <2>3, <1>1, <1>2, <1>3, ReviseRevisions
    <2> QED BY <2>1, <2>2, <2>3, ReviseRevisions
  <1>5. ASSUME NEW i \in IDs(e), ~Untouched(e, i), NEW k \in 1 .. e.chunks[i].revision
        PROVE  Stored(e, i, k)
    <2>1. CASE i \notin DOMAIN rows
      BY <2>1, <1>2, <1>3, <1>5, ReviseRevisions DEF History, Stored, Untouched
    <2>2. CASE i \in DOMAIN rows /\ k = rows[i].revision
      BY <2>2, ReviseRevisions DEF Stored
    <2>3. CASE i \in DOMAIN rows /\ k # rows[i].revision
      <3>1. i \in IDs(d) /\ k \in 1 .. d.chunks[i].revision
        BY <2>3, <1>1, <1>2, <1>5 DEF Fits
      <3>2. CASE k = d.chunks[i].revision
        BY <2>3, <3>1, <3>2, ReviseRevisions DEF Stored
      <3>3. CASE k # d.chunks[i].revision
        BY <3>1, <3>3, <1>1, ReviseRevisions DEF History, Stored, Untouched
      <3> QED BY <3>2, <3>3
    <2> QED BY <2>1, <2>2, <2>3
  <1>6. ASSUME NEW i \in IDs(e), Stored(e, i, e.chunks[i].revision)
        PROVE  e.revisions[<<i, e.chunks[i].revision>>] = e.chunks[i]
    <2>1. CASE i \in DOMAIN rows
      BY <2>1, <1>2, ReviseRevisions
    <2>2. CASE i \notin DOMAIN rows
      <3>1. i \in IDs(d) /\ e.chunks[i] = d.chunks[i]
        BY <2>2, <1>2, <1>3
      <3>2. <<i, d.chunks[i].revision>> \in DOMAIN d.revisions
        BY <2>2, <3>1, <1>6, ReviseRevisions DEF Stored
      <3> QED BY <3>1, <3>2, ReviseRevisions DEF History, Stored
    <2> QED BY <2>1, <2>2
  <1> HIDE DEF e
  <1> QED BY <1>4, <1>5, <1>6 DEF History, e

\* A memory with a confirmed version is confirmed now.
LEMMA CurrentConfirmed ==
  ASSUME NEW d, TypeCorrect(d), History(d), Confirmation(d),
         NEW p \in DOMAIN d.revisions, d.revisions[p].confirmed
  PROVE  d.chunks[p[1]].confirmed
  <1> DEFINE i == p[1]
             c == <<i, d.chunks[i].revision>>
  <1>1. i \in IDs(d) /\ p[2] \in 1 .. d.chunks[i].revision /\ p = <<i, p[2]>>
    BY DEF History, TypeCorrect
  <1>2. d.chunks[i].revision \in Nat \ {0}
    BY <1>1 DEF TypeCorrect, Rows, IDs
  <1>3. c \in DOMAIN d.revisions
    <2>1. CASE Untouched(d, i)
      BY <2>1, <1>1 DEF Untouched
    <2>2. CASE ~Untouched(d, i)
      BY <2>2, <1>1, <1>2 DEF History, Stored
    <2> QED BY <2>1, <2>2
  <1>4. d.revisions[c] = d.chunks[i]
    BY <1>1, <1>3 DEF History, Stored
  <1>5. d.revisions[c].confirmed
    BY <1>1, <1>2, <1>3 DEF Confirmation
  <1> QED BY <1>4, <1>5

\* Revise keeps confirmation along every history.
LEMMA ReviseConfirmation ==
  ASSUME NEW d, TypeCorrect(d), History(d), Confirmation(d), NEW rows, Fits(d, rows)
  PROVE  Confirmation(Revise(d, rows))
  <1> DEFINE e == Revise(d, rows)
  <1> SUFFICES ASSUME NEW p \in DOMAIN e.revisions, NEW q \in DOMAIN e.revisions,
                      p[1] = q[1], p[2] <= q[2], e.revisions[p].confirmed
               PROVE  e.revisions[q].confirmed
    BY DEF Confirmation
  <1> DEFINE i == q[1]
  <1>1. \A j \in IDs(d) : d.chunks[j].revision \in Nat
    BY DEF TypeCorrect, Rows, IDs
  <1>2. \A j \in DOMAIN rows : /\ rows[j].revision \in Nat
                               /\ j \in IDs(d) => rows[j].revision = d.chunks[j].revision + 1
    BY DEF Fits, Rows
  <1>3. \A s \in DOMAIN d.revisions : /\ s[1] \in IDs(d) /\ s = <<s[1], s[2]>>
                                      /\ s[2] \in Nat /\ s[2] <= d.chunks[s[1]].revision
    BY <1>1 DEF History, TypeCorrect
  <1>4. CASE q \in DOMAIN d.revisions
    <2>1. CASE p \in DOMAIN d.revisions
      BY <1>4, <2>1, ReviseRevisions DEF Confirmation
    <2>2. CASE \E j \in DOMAIN rows \cap IDs(d) : p = <<j, d.chunks[j].revision>>
      BY <1>1, <1>3, <1>4, <2>2
    <2>3. CASE \E j \in DOMAIN rows : p = <<j, rows[j].revision>>
      BY <1>1, <1>2, <1>3, <1>4, <2>3
    <2> QED BY <2>1, <2>2, <2>3, ReviseRevisions
  <1>5. CASE \E j \in DOMAIN rows \cap IDs(d) : q = <<j, d.chunks[j].revision>>
    <2>1. i \in DOMAIN rows \cap IDs(d) /\ q = <<i, d.chunks[i].revision>> /\ e.revisions[q] = d.chunks[i]
      BY <1>5, ReviseRevisions
    <2>2. CASE p \in DOMAIN d.revisions
      BY <2>1, <2>2, CurrentConfirmed, ReviseRevisions
    <2>3. CASE \E j \in DOMAIN rows \cap IDs(d) : p = <<j, d.chunks[j].revision>>
      BY <2>1, <2>3
    <2>4. CASE \E j \in DOMAIN rows : p = <<j, rows[j].revision>>
      BY <1>1, <1>2, <2>1, <2>4
    <2> QED BY <2>2, <2>3, <2>4, ReviseRevisions
  <1>6. CASE \E j \in DOMAIN rows : q = <<j, rows[j].revision>>
    <2>1. i \in DOMAIN rows /\ q = <<i, rows[i].revision>> /\ e.revisions[q] = rows[i]
      BY <1>6, ReviseRevisions
    <2>2. CASE p \in DOMAIN d.revisions
      BY <1>3, <2>1, <2>2, CurrentConfirmed, ReviseRevisions DEF Fits
    <2>3. CASE \E j \in DOMAIN rows \cap IDs(d) : p = <<j, d.chunks[j].revision>>
      BY <2>1, <2>3, ReviseRevisions DEF Fits
    <2>4. CASE \E j \in DOMAIN rows : p = <<j, rows[j].revision>>
      BY <2>1, <2>4
    <2> QED BY <2>2, <2>3, <2>4, ReviseRevisions
  <1> QED BY <1>4, <1>5, <1>6, ReviseRevisions

----------------------------------------------------------------------------
(***************************************************************************)
(* The inductive invariant.  The parts depend on one another: a row can be *)
(* revised only at the revision its history ends at, and retiring handoffs *)
(* and restoring revisions keep the unique indexes because scopes and keys *)
(* are the same in every version.                                          *)
(***************************************************************************)

Versioned(d) == TypeCorrect(d) /\ History(d) /\ Confirmation(d)

Unique(d) == ExactOnce(d) /\ KeyOnce(d)

Sound(d) == Versioned(d) /\ Unique(d) /\ OneHandoff(d)

\* OneHandoff except for the memory that is about to become the current one.
OthersOneHandoff(d, id) ==
  \A i, j \in IDs(d) \ {id} :
    i # j /\ d.chunks[i].scope = d.chunks[j].scope /\ d.chunks[i].scope # Legacy
      => ~ (ActiveHandoff(d.chunks[i], d.chunks[i].scope) /\ ActiveHandoff(d.chunks[j], d.chunks[j].scope))

\* Revise keeps the versioned part of the invariant.
LEMMA ReviseVersioned ==
  ASSUME NEW d, Versioned(d), NEW rows, Fits(d, rows)
  PROVE  Versioned(Revise(d, rows))
  BY ReviseType, ReviseHistory, ReviseConfirmation DEF Versioned

\* Archiving a row, or showing it again, changes three of its fields.
LEMMA ShownRow ==
  ASSUME NEW c \in Rows, NEW a \in BOOLEAN, NEW s \in Provenances
  PROVE  LET row == Shown(c, a, s)
         IN  /\ row \in Rows
             /\ row.archived = a /\ row.revision = c.revision + 1 /\ row.provenance = s
             /\ row.scope = c.scope /\ row.key = c.key /\ row.confirmed = c.confirmed
             /\ row.purpose = c.purpose /\ Identity(row) = Identity(c)
             /\ row.content = c.content /\ row.embedding = c.embedding
  <1> DEFINE r   == c.revision + 1
             row == [c EXCEPT !.revision = r, !.archived = a, !.provenance = s]
  <1>1. r \in Nat \ {0} /\ Shown(c, a, s) = row
    BY DEF Rows, Shown
  <1> HIDE DEF r
  <1>2. row \in Rows
    BY <1>1 DEF Rows
  <1>3. row.archived = a /\ row.revision = r /\ row.provenance = s
    BY DEF Rows
  <1>4. /\ row.scope = c.scope /\ row.key = c.key /\ row.confirmed = c.confirmed /\ row.purpose = c.purpose
        /\ row.content = c.content /\ row.embedding = c.embedding
        /\ row.type = c.type /\ row.title = c.title /\ row.tags = c.tags
    BY DEF Rows
  <1> HIDE DEF row
  <1>5. Identity(row) = Identity(c)
    BY <1>4 DEF Identity
  <1> QED BY <1>1, <1>2, <1>3, <1>4, <1>5 DEF r

\* Retiring handoffs only archives rows, one revision further.
LEMMA RetireFits ==
  ASSUME NEW d, TypeCorrect(d), NEW ids \in SUBSET IDs(d), NEW n \in Nat, NEW by \in Provenances
  PROVE  Fits(d, Replaced(d, ids, n, by))
  <1>1. d.last \in Nat /\ ids \subseteq 1 .. d.last + 1
    BY DEF TypeCorrect, IDs
  <1>2. ASSUME NEW i \in ids
        PROVE  LET row == Replaced(d, ids, n, by)[i]
               IN  /\ row \in Rows
                   /\ row.revision = d.chunks[i].revision + 1
                   /\ row.scope = d.chunks[i].scope
                   /\ row.key = d.chunks[i].key
                   /\ row.confirmed = d.chunks[i].confirmed
    <2>1. d.chunks[i] \in Rows
      BY DEF TypeCorrect, IDs
    <2> DEFINE note == [by |-> by.by, source |-> "replaced", ref |-> n]
    <2>2. note \in Provenances
      BY DEF Provenances
    <2>3. Replaced(d, ids, n, by)[i] = Shown(d.chunks[i], TRUE, note)
      BY DEF Replaced
    <2> HIDE DEF note
    <2> DEFINE row == Shown(d.chunks[i], TRUE, note)
    <2>4. /\ row \in Rows /\ row.revision = d.chunks[i].revision + 1
          /\ row.scope = d.chunks[i].scope /\ row.key = d.chunks[i].key
          /\ row.confirmed = d.chunks[i].confirmed
      BY <2>1, <2>2, ShownRow
    <2> QED BY <2>3, <2>4
  <1>3. DOMAIN Replaced(d, ids, n, by) = ids
    BY DEF Replaced
  <1> QED BY <1>1, <1>2, <1>3 DEF Fits

\* After retireHandoffs the replacing memory is the only current handoff, and
\* the rest of the invariant is as it was.
LEMMA RetireSound ==
  ASSUME NEW d, Versioned(d), Unique(d), NEW id \in IDs(d), OthersOneHandoff(d, id),
         NEW by \in Provenances
  PROVE  LET e == RetireHandoffs(d, d.chunks[id].scope, id, by)
         IN  /\ Sound(e) /\ IDs(e) = IDs(d) /\ e.requests = d.requests
             /\ \A i \in IDs(d) : d.chunks[i].scope # d.chunks[id].scope => e.chunks[i] = d.chunks[i]
  <1> DEFINE scope   == d.chunks[id].scope
             retired == {i \in IDs(d) \ {id} : ActiveHandoff(d.chunks[i], scope)}
             rows    == Replaced(d, retired, id, by)
             e       == RetireHandoffs(d, scope, id, by)
  <1>1. e = Revise(d, rows)
    BY DEF RetireHandoffs
  <1>2. Fits(d, rows)
    BY RetireFits DEF Versioned, TypeCorrect, IDs
  <1>3. DOMAIN rows = retired
    BY DEF Replaced
  <1>4. /\ IDs(e) = IDs(d) /\ e.requests = d.requests
        /\ \A i \in IDs(e) : e.chunks[i] = IF i \in retired THEN rows[i] ELSE d.chunks[i]
    <2> HIDE DEF rows, e
    <2>1. IDs(e) = IDs(d) \cup DOMAIN rows /\ e.requests = d.requests
      BY <1>1, <1>2, ReviseTables DEF Versioned
    <2>2. \A i \in IDs(e) : e.chunks[i] = IF i \in DOMAIN rows THEN rows[i] ELSE d.chunks[i]
      BY <1>1, <1>2, ReviseTables DEF Versioned
    <2> QED BY <1>3, <2>1, <2>2
  <1>5. Versioned(e)
    BY <1>1, <1>2, ReviseVersioned
  <1>6. \A i \in IDs(e) :
          /\ e.chunks[i].scope = d.chunks[i].scope /\ e.chunks[i].key = d.chunks[i].key
          /\ e.chunks[i].purpose = d.chunks[i].purpose
          /\ Identity(e.chunks[i]) = Identity(d.chunks[i])
          /\ i \in retired => e.chunks[i].archived
          /\ i \notin retired => e.chunks[i].archived = d.chunks[i].archived
    <2> SUFFICES ASSUME NEW i \in IDs(e), i \in retired
                 PROVE  /\ e.chunks[i].scope = d.chunks[i].scope /\ e.chunks[i].key = d.chunks[i].key
                        /\ e.chunks[i].purpose = d.chunks[i].purpose
                        /\ Identity(e.chunks[i]) = Identity(d.chunks[i])
                        /\ e.chunks[i].archived
      BY <1>4
    <2>1. d.chunks[i] \in Rows
      BY <1>4 DEF Versioned, TypeCorrect, IDs
    <2>2. [by |-> by.by, source |-> "replaced", ref |-> id] \in Provenances
      BY DEF Provenances, IDs, Versioned, TypeCorrect
    <2>3. e.chunks[i] = Shown(d.chunks[i], TRUE, [by |-> by.by, source |-> "replaced", ref |-> id])
      BY <1>4 DEF Replaced
    <2> DEFINE c    == d.chunks[i]
               note == [by |-> by.by, source |-> "replaced", ref |-> id]
               row  == Shown(c, TRUE, note)
    <2>4. c \in Rows /\ note \in Provenances /\ e.chunks[i] = row
      BY <2>1, <2>2, <2>3
    <2> HIDE DEF e, rows, retired, note, c
    <2>5. /\ row.scope = c.scope /\ row.key = c.key /\ row.purpose = c.purpose
          /\ Identity(row) = Identity(c) /\ row.archived = TRUE
      BY <2>4, ShownRow
    <2> HIDE DEF row
    <2> QED BY <2>4, <2>5 DEF c
  <1> HIDE DEF e, rows
  <1>7. ExactOnce(e)
    BY <1>4, <1>6 DEF Unique, ExactOnce, SameIdentity
  <1>8. KeyOnce(e)
    BY <1>4, <1>6 DEF Unique, KeyOnce
  <1>9. OneHandoff(e)
    BY <1>4, <1>6 DEF OthersOneHandoff, OneHandoff, ActiveHandoff
  <1>10. \A i \in IDs(d) : d.chunks[i].scope # d.chunks[id].scope => e.chunks[i] = d.chunks[i]
    BY <1>4 DEF ActiveHandoff
  <1> QED BY <1>4, <1>5, <1>7, <1>8, <1>9, <1>10 DEF Sound, Unique, e

\* A row that may be stored: the next version of its memory or a new memory, that
\* no active row duplicates and that takes no key from another.
Puts(d, id, row) ==
  /\ Fits(d, Only(id, row))
  /\ ~row.archived /\ row.scope # Legacy => Exact(d, row, id) = {}
  /\ id \notin IDs(d) => row.key = Nil \/ Holders(d, row.scope, row.key) = {}

\* What every transaction does to the rows: one is stored, and if that made a
\* current handoff, the others of its scope are retired.
Settled(d, id, row, by) ==
  IF row.purpose = "handoff" /\ ~row.archived
  THEN RetireHandoffs(Revise(d, Only(id, row)), row.scope, id, by)
  ELSE Revise(d, Only(id, row))

\* Storing one row that no active row duplicates keeps the invariant, but for
\* the handoffs that are retired next.
LEMMA PutSound ==
  ASSUME NEW d, Sound(d), NEW id, NEW row, Puts(d, id, row)
  PROVE  LET e == Revise(d, Only(id, row))
         IN  /\ Versioned(e) /\ Unique(e) /\ OthersOneHandoff(e, id)
             /\ id \in IDs(e) /\ e.chunks[id] = row /\ IDs(d) \subseteq IDs(e)
             /\ \A i \in IDs(d) \ {id} : e.chunks[i] = d.chunks[i]
             /\ e.requests = d.requests
             /\ row.archived \/ row.purpose # "handoff" => OneHandoff(e)
  <1> DEFINE rows == Only(id, row)
             e    == Revise(d, rows)
  <1>0. /\ Fits(d, rows)
        /\ ~row.archived /\ row.scope # Legacy => Exact(d, row, id) = {}
        /\ id \notin IDs(d) => row.key = Nil \/ Holders(d, row.scope, row.key) = {}
    BY DEF Puts
  <1>1. DOMAIN rows = {id} /\ rows[id] = row
    BY DEF Only
  <1>2. Versioned(d) /\ TypeCorrect(d) /\ Unique(d) /\ OneHandoff(d)
    BY DEF Sound, Versioned
  <1>3. row \in Rows /\ (id \in IDs(d) => row.scope = d.chunks[id].scope /\ row.key = d.chunks[id].key)
    BY <1>0, <1>1 DEF Fits
  <1> HIDE DEF rows
  <1>4. /\ IDs(e) = IDs(d) \cup {id} /\ e.requests = d.requests
        /\ e.chunks[id] = row /\ \A i \in IDs(d) \ {id} : e.chunks[i] = d.chunks[i]
    <2>1. /\ IDs(e) = IDs(d) \cup DOMAIN rows /\ e.requests = d.requests
          /\ \A i \in IDs(e) : e.chunks[i] = IF i \in DOMAIN rows THEN rows[i] ELSE d.chunks[i]
      BY <1>0, <1>2, ReviseTables
    <2> HIDE DEF e
    <2> QED BY <1>1, <2>1
  <1>5. Versioned(e)
    BY <1>0, <1>2, ReviseVersioned
  <1> HIDE DEF e
  <1>6. ExactOnce(e)
    <2> SUFFICES ASSUME NEW i \in IDs(e), NEW j \in IDs(e), i # j, e.chunks[i].scope # Legacy,
                        SameIdentity(e.chunks[i], e.chunks[j]), ~e.chunks[j].archived
                 PROVE  FALSE
      BY DEF ExactOnce
    <2>1. Identity(e.chunks[i]) = Identity(e.chunks[j]) /\ ~e.chunks[i].archived
      BY DEF SameIdentity
    <2>2. e.chunks[i].scope = e.chunks[j].scope
      BY <2>1 DEF Identity
    <2>3. CASE i = id
      BY <2>1, <2>3, <1>0, <1>4 DEF Exact, SameIdentity
    <2>4. CASE j = id
      BY <2>1, <2>2, <2>4, <1>0, <1>4 DEF Exact, SameIdentity
    <2>5. CASE i # id /\ j # id
      BY <2>1, <2>5, <1>2, <1>4 DEF Unique, ExactOnce, SameIdentity
    <2> QED BY <2>3, <2>4, <2>5
  <1>7. KeyOnce(e)
    BY <1>0, <1>2, <1>3, <1>4 DEF Unique, KeyOnce, Holders
  <1>8. OthersOneHandoff(e, id)
    BY <1>2, <1>4 DEF OthersOneHandoff, OneHandoff
  <1>9. row.archived \/ row.purpose # "handoff" => OneHandoff(e)
    BY <1>4, <1>8 DEF OthersOneHandoff, OneHandoff, ActiveHandoff
  <1> QED BY <1>4, <1>5, <1>6, <1>7, <1>8, <1>9 DEF Unique, e, rows

\* Storing a row and retiring what it replaces keeps the invariant, and touches no
\* other scope.
LEMMA SettledSound ==
  ASSUME NEW d, Sound(d), NEW id, NEW row, Puts(d, id, row), NEW by \in Provenances
  PROVE  LET e == Settled(d, id, row, by)
         IN  /\ Sound(e) /\ e.requests = d.requests /\ IDs(d) \subseteq IDs(e)
             /\ \A i \in IDs(d) : d.chunks[i].scope # row.scope => e.chunks[i] = d.chunks[i]
  <1> DEFINE w == Revise(d, Only(id, row))
             e == Settled(d, id, row, by)
  <1>1. /\ Versioned(w) /\ Unique(w) /\ OthersOneHandoff(w, id)
        /\ id \in IDs(w) /\ w.chunks[id] = row /\ IDs(d) \subseteq IDs(w)
        /\ \A i \in IDs(d) \ {id} : w.chunks[i] = d.chunks[i]
        /\ w.requests = d.requests
        /\ row.archived \/ row.purpose # "handoff" => OneHandoff(w)
    BY PutSound
  <1>2. id \in IDs(d) => d.chunks[id].scope = row.scope
    BY DEF Puts, Fits, Only
  <1>3. CASE row.archived \/ row.purpose # "handoff"
    <2>1. e = w
      BY <1>3 DEF Settled
    <2> HIDE DEF e, w
    <2>2. Sound(w)
      BY <1>1, <1>3 DEF Sound
    <2> QED BY <1>1, <1>2, <2>1, <2>2 DEF e
  <1>4. CASE ~ (row.archived \/ row.purpose # "handoff")
    <2>1. e = RetireHandoffs(w, w.chunks[id].scope, id, by)
      BY <1>1, <1>4 DEF Settled
    <2> HIDE DEF e, w
    <2>2. /\ Sound(e) /\ IDs(e) = IDs(w) /\ e.requests = w.requests
          /\ \A i \in IDs(w) : w.chunks[i].scope # w.chunks[id].scope => e.chunks[i] = w.chunks[i]
      BY <1>1, <2>1, RetireSound
    <2>3. \A i \in IDs(d) : d.chunks[i].scope # row.scope => e.chunks[i] = d.chunks[i]
      <3> SUFFICES ASSUME NEW i \in IDs(d), d.chunks[i].scope # row.scope PROVE e.chunks[i] = d.chunks[i]
        OBVIOUS
      <3>1. i # id /\ i \in IDs(w) /\ w.chunks[i] = d.chunks[i] /\ w.chunks[id] = row
        BY <1>1, <1>2
      <3> QED BY <2>2, <3>1
    <2> QED BY <1>1, <2>2, <2>3 DEF e
  <1> QED BY <1>3, <1>4

\* A receipt leaves the other tables alone.
LEMMA AcknowledgeSound ==
  ASSUME NEW d, Sound(d), NEW request \in Requests,
         NEW input \in WriteInputs \cup ArchiveInputs \cup MoveInputs, NEW receipt \in Receipts
  PROVE  LET e == Acknowledge(d, request, input, receipt)
         IN  /\ Sound(e) /\ e.last = d.last /\ e.chunks = d.chunks /\ e.revisions = d.revisions
             /\ DOMAIN e.requests = DOMAIN d.requests \cup {request}
             /\ \A q \in DOMAIN d.requests \ {request} : e.requests[q] = d.requests[q]
  <1> DEFINE e == Acknowledge(d, request, input, receipt)
  <1>1. /\ e.last = d.last /\ e.chunks = d.chunks /\ e.revisions = d.revisions
        /\ DOMAIN e.requests = DOMAIN d.requests \cup {request}
        /\ \A q \in DOMAIN d.requests \ {request} : e.requests[q] = d.requests[q]
        /\ e.requests[request].input = input /\ e.requests[request].receipt = receipt
    BY DEF Acknowledge
  <1> HIDE DEF e
  <1>2. TypeCorrect(e)
    BY <1>1 DEF Sound, Versioned, TypeCorrect
  <1>3. History(e)
    BY <1>1 DEF Sound, Versioned, History, IDs, Stored, Untouched
  <1>4. Confirmation(e)
    BY <1>1 DEF Sound, Versioned, Confirmation
  <1>5. Unique(e)
    BY <1>1 DEF Sound, Unique, ExactOnce, KeyOnce, IDs
  <1>6. OneHandoff(e)
    BY <1>1 DEF Sound, OneHandoff, IDs
  <1> QED BY <1>1, <1>2, <1>3, <1>4, <1>5, <1>6 DEF Sound, Versioned, e

----------------------------------------------------------------------------
(***************************************************************************)
(* The transactions.                                                       *)
(***************************************************************************)

\* A version that getInTx finds is a row.
LEMMA RevisionIsRow ==
  ASSUME NEW d, TypeCorrect(d), NEW id \in IDs(d), NEW k, HasRevision(d, id, k)
  PROVE  RevisionOf(d, id, k) \in Rows
  <1>1. d.chunks[id] \in Rows
    BY DEF TypeCorrect, IDs
  <1> QED BY <1>1 DEF HasRevision, RevisionOf, TypeCorrect

\* What an accepted write says is well-formed.
LEMMA TextType ==
  ASSUME NEW d, TypeCorrect(d), NEW in \in WriteInputs, NEW id,
         id # Nil => id \in IDs(d),
         in.restore # Nil => id \in IDs(d) /\ HasRevision(d, id, in.restore),
         in.restore = Nil => in.content # NoText
  PROVE  LET text == TextOf(d, id, in)
         IN  /\ text.content \in Contents /\ text.title \in Titles /\ text.tags \in Tags
             /\ text.type \in Types /\ text.purpose \in Purposes
  <1>1. CASE in.restore # Nil
    <2>1. RevisionOf(d, id, in.restore) \in Rows
      BY <1>1, RevisionIsRow
    <2> QED BY <1>1, <2>1 DEF TextOf, Rows
  <1>2. CASE in.restore = Nil
    <2>1. in.content \in Contents /\ in.purpose \in Purposes /\ in.title \in Titles \cup {Nil, Blank}
          /\ in.tags \in Tags \cup {Nil} /\ in.type \in Types \cup {Nil}
      BY <1>2 DEF WriteInputs
    <2>2. id # Nil => d.chunks[id] \in Rows
      BY DEF TypeCorrect, IDs
    <2>3. id # Nil => d.chunks[id].title \in Titles /\ d.chunks[id].tags \in Tags /\ d.chunks[id].type \in Types
      BY <2>2 DEF Rows
    <2>4. FirstRunes[in.content] \in Titles /\ "" \in Tags /\ "knowledge" \in Types
      BY <2>1, ConstantsAssumption
    <2>5. CorrectedTitle(d, id, in, in.content) \in Titles
      BY <2>1, <2>3, <2>4 DEF CorrectedTitle
    <2>6. TextOf(d, id, in).content = in.content /\ TextOf(d, id, in).purpose = in.purpose
          /\ TextOf(d, id, in).title = CorrectedTitle(d, id, in, in.content)
          /\ TextOf(d, id, in).tags = (IF in.tags # Nil THEN in.tags ELSE IF id # Nil THEN d.chunks[id].tags ELSE "")
          /\ TextOf(d, id, in).type = (IF in.type # Nil THEN in.type ELSE IF id # Nil THEN d.chunks[id].type ELSE "knowledge")
      BY <1>2 DEF TextOf
    <2> QED BY <2>1, <2>3, <2>4, <2>5, <2>6
  <1> QED BY <1>1, <1>2

\* A row for a new memory, or the next version of the one selected.
Follows(d, in, row, id) ==
  /\ row \in Rows /\ row.scope = in.scope /\ row.archived = FALSE /\ row.confirmed = in.confirmed
  /\ id = Nil => row.revision = 1 /\ row.key = in.key
  /\ id # Nil => /\ id \in IDs(d) /\ row.revision = d.chunks[id].revision + 1
                 /\ row.key = d.chunks[id].key /\ row.scope = d.chunks[id].scope
                 /\ d.chunks[id].confirmed => row.confirmed

\* The row an accepted write stores is well-formed and belongs where it goes.
LEMMA WrittenRowType ==
  ASSUME NEW d, TypeCorrect(d), NEW in \in WriteInputs, NEW vector \in Contents \cup {Nil},
         Writable(d, in, vector)
  PROVE  Follows(d, in, WrittenRow(d, in, vector), Selected(d, in))
  <1> DEFINE row  == WrittenRow(d, in, vector)
             id   == Selected(d, in)
             text == TextOf(d, id, in)
             vec  == EmbeddingOf(d, id, in, vector)
             key  == IF id = Nil THEN in.key ELSE d.chunks[id].key
             rev  == IF id = Nil THEN 1 ELSE d.chunks[id].revision + 1
  <1>1. id # Nil => id \in IDs(d) /\ d.chunks[id].scope = in.scope /\ (d.chunks[id].confirmed => in.confirmed)
    BY DEF Writable, KeepsConfirmation
  <1>2. in.restore # Nil => id \in IDs(d) /\ HasRevision(d, id, in.restore)
    BY DEF Writable
  <1>3. in.restore = Nil => in.content # NoText
    BY DEF Writable
  <1>4. row = [scope |-> in.scope, key |-> key, content |-> text.content, title |-> text.title,
               tags |-> text.tags, type |-> text.type, purpose |-> text.purpose,
               confirmed |-> in.confirmed, provenance |-> in.provenance, archived |-> FALSE,
               revision |-> rev, embedding |-> vec]
    BY DEF WrittenRow
  <1> HIDE DEF row, id, text
  <1>5. /\ text.content \in Contents /\ text.title \in Titles /\ text.tags \in Tags
        /\ text.type \in Types /\ text.purpose \in Purposes
    BY <1>1, <1>2, <1>3, TextType DEF text
  <1>6. vec \in Contents \cup {Nil}
    <2>1. in.restore # Nil => RevisionOf(d, id, in.restore).embedding \in Contents \cup {Nil}
      BY <1>2, RevisionIsRow DEF Rows
    <2> QED BY <2>1 DEF EmbeddingOf
  <1>7. id # Nil => d.chunks[id].key \in Keys \cup {Nil} /\ d.chunks[id].revision \in Nat
    BY <1>1 DEF TypeCorrect, IDs, Rows
  <1>8. key \in Keys \cup {Nil} /\ rev \in Nat \ {0}
    BY <1>7 DEF WriteInputs
  <1>9. in.scope \in Scopes /\ in.confirmed \in BOOLEAN /\ in.provenance \in Provenances
    BY DEF WriteInputs
  <1> HIDE DEF vec, rev, key
  <1>10. row \in Rows
    BY <1>4, <1>5, <1>6, <1>8, <1>9 DEF Rows
  <1>11. row.scope = in.scope /\ row.archived = FALSE /\ row.confirmed = in.confirmed /\ row.key = key /\ row.revision = rev
    BY <1>4
  <1> QED BY <1>1, <1>10, <1>11 DEF Follows, row, id, rev, key

\* writeTx, unless it answers with a duplicate, stores one row.
LEMMA WritePuts ==
  ASSUME NEW d, Sound(d), NEW request, NEW in \in WriteInputs,
         NEW vector \in Contents \cup {Nil}, Writable(d, in, vector),
         ~Deduplicates(d, in, WrittenRow(d, in, vector))
  PROVE  LET row == WrittenRow(d, in, vector)
             rc  == WriteReceipt(d, in, row)
         IN  /\ WriteTx(d, request, in, vector)
                  = Acknowledge(Settled(d, rc.id, row, in.provenance), request, in, rc)
             /\ Puts(d, rc.id, row)
             /\ rc = [id |-> rc.id, revision |-> row.revision, deduplicated |-> FALSE]
             /\ rc \in Receipts
             /\ rc.id \in IDs(d) <=> Selected(d, in) # Nil
             /\ rc.id \in IDs(d) => rc.id = Selected(d, in)
  <1> DEFINE row == WrittenRow(d, in, vector)
             sel == Selected(d, in)
             rc  == WriteReceipt(d, in, row)
             id  == IF sel = Nil THEN d.last + 1 ELSE sel
  <1>1. Versioned(d) /\ TypeCorrect(d) /\ d.last \in Nat
    BY DEF Sound, Versioned, TypeCorrect
  <1>2. /\ row \in Rows /\ row.scope = in.scope /\ row.archived = FALSE
        /\ sel = Nil => row.revision = 1 /\ row.key = in.key
        /\ sel # Nil => /\ sel \in IDs(d) /\ row.revision = d.chunks[sel].revision + 1
                        /\ row.key = d.chunks[sel].key /\ row.scope = d.chunks[sel].scope
                        /\ d.chunks[sel].confirmed => row.confirmed
    <2>1. Follows(d, in, row, sel)
      BY <1>1, WrittenRowType
    <2> HIDE DEF row, sel
    <2> QED BY <2>1 DEF Follows
  <1>3. rc = [id |-> id, revision |-> row.revision, deduplicated |-> FALSE]
    BY DEF WriteReceipt
  <1>4. WriteTx(d, request, in, vector) = Acknowledge(Settled(d, rc.id, row, in.provenance), request, in, rc)
    BY <1>2, <1>3 DEF WriteTx, Settled
  <1>5. id \in Nat \ {0} /\ (sel # Nil <=> id \in IDs(d)) /\ (sel = Nil => id = d.last + 1)
    BY <1>1, <1>2 DEF IDs
  <1> HIDE DEF row, sel
  <1>6. row.revision \in Nat \ {0}
    BY <1>2 DEF Rows
  <1>7. rc \in Receipts /\ rc.id = id
    BY <1>3, <1>5, <1>6 DEF Receipts
  <1>8. Fits(d, Only(id, row))
    BY <1>1, <1>2, <1>5 DEF Fits, IDs, Only
  <1>9. Exact(d, row, id) = {}
    <2>1. CASE sel = Nil
      BY <2>1, <1>5 DEF Deduplicates, Exact, sel, row, IDs
    <2>2. CASE sel # Nil
      BY <2>2 DEF Writable, row, sel
    <2> QED BY <2>1, <2>2
  <1>10. id \notin IDs(d) => row.key = Nil \/ Holders(d, row.scope, row.key) = {}
    <2> SUFFICES ASSUME sel = Nil, in.key # Nil PROVE Holders(d, in.scope, in.key) = {}
      BY <1>2, <1>5
    <2>1. in.id = Nil
      BY DEF sel, Selected
    <2>2. \A i \in Holders(d, in.scope, in.key) : i \in Nat
      BY <1>1 DEF Holders, IDs
    <2> QED BY <2>1, <2>2, ConstantsAssumption DEF sel, Selected
  <1>11. Puts(d, rc.id, row)
    BY <1>7, <1>8, <1>9, <1>10 DEF Puts
  <1>12. rc = [id |-> rc.id, revision |-> row.revision, deduplicated |-> FALSE]
    BY <1>3, <1>7
  <1> HIDE DEF rc
  <1> QED BY <1>4, <1>5, <1>7, <1>11, <1>12 DEF rc, row, sel

\* writeTx that finds a duplicate names it and stores only the receipt.
LEMMA WriteDuplicate ==
  ASSUME NEW d, TypeCorrect(d), NEW request, NEW in, NEW vector,
         Deduplicates(d, in, WrittenRow(d, in, vector))
  PROVE  LET row == WrittenRow(d, in, vector)
             rc  == WriteReceipt(d, in, row)
         IN  /\ WriteTx(d, request, in, vector) = Acknowledge(d, request, in, rc)
             /\ rc \in Receipts /\ rc.deduplicated
             /\ rc.id \in IDs(d) /\ rc.revision = d.chunks[rc.id].revision
             /\ rc.id \in Exact(d, row, 0)
  <1> DEFINE row == WrittenRow(d, in, vector)
             rc  == WriteReceipt(d, in, row)
             x   == CHOOSE j \in Exact(d, row, 0) : TRUE
  <1>1. x \in Exact(d, row, 0) /\ x \in IDs(d)
    BY DEF Deduplicates, Exact
  <1>2. rc = [id |-> x, revision |-> d.chunks[x].revision, deduplicated |-> TRUE]
    BY DEF WriteReceipt
  <1>3. WriteTx(d, request, in, vector) = Acknowledge(d, request, in, rc)
    BY <1>2 DEF WriteTx
  <1> HIDE DEF x
  <1>4. d.chunks[x].revision \in Nat \ {0} /\ x \in Nat \ {0}
    BY <1>1 DEF TypeCorrect, IDs, Rows
  <1>5. rc \in Receipts /\ rc.deduplicated /\ rc.id = x /\ rc.revision = d.chunks[x].revision
    BY <1>2, <1>4 DEF Receipts
  <1> HIDE DEF rc
  <1> QED BY <1>1, <1>3, <1>5 DEF rc

\* writeTx keeps the invariant.
LEMMA WriteSound ==
  ASSUME NEW d, Sound(d), NEW request \in Requests, NEW in \in WriteInputs,
         NEW vector \in Contents \cup {Nil}, Writable(d, in, vector)
  PROVE  LET e  == WriteTx(d, request, in, vector)
             rc == WriteReceipt(d, in, WrittenRow(d, in, vector))
         IN  /\ Sound(e) /\ rc \in Receipts
             /\ DOMAIN e.requests = DOMAIN d.requests \cup {request}
             /\ \A q \in DOMAIN d.requests \ {request} : e.requests[q] = d.requests[q]
             /\ \A i \in IDs(d) : i \in IDs(e) /\ (d.chunks[i].scope # in.scope => e.chunks[i] = d.chunks[i])
  <1> DEFINE row  == WrittenRow(d, in, vector)
             rc   == WriteReceipt(d, in, row)
             base == IF Deduplicates(d, in, row) THEN d ELSE Settled(d, rc.id, row, in.provenance)
  <1>1. WriteTx(d, request, in, vector) = Acknowledge(base, request, in, rc) /\ rc \in Receipts
    BY WritePuts, WriteDuplicate DEF Sound, Versioned
  <1>2. /\ Sound(base) /\ base.requests = d.requests /\ IDs(d) \subseteq IDs(base)
        /\ \A i \in IDs(d) : d.chunks[i].scope # in.scope => base.chunks[i] = d.chunks[i]
    <2>1. CASE Deduplicates(d, in, row)
      BY <2>1
    <2>2. CASE ~Deduplicates(d, in, row)
      <3>1. Puts(d, rc.id, row) /\ in.provenance \in Provenances /\ base = Settled(d, rc.id, row, in.provenance)
        BY <2>2, WritePuts DEF WriteInputs
      <3>2. row.scope = in.scope
        BY DEF WrittenRow
      <3> HIDE DEF row, rc, base
      <3> QED BY <3>1, <3>2, SettledSound
    <2> QED BY <2>1, <2>2
  <1> HIDE DEF base, rc, row
  <1> QED BY <1>1, <1>2, AcknowledgeSound DEF rc, row, IDs

\* archiveTx stores one row.
LEMMA ArchivePuts ==
  ASSUME NEW d, Sound(d), NEW request, NEW in \in ArchiveInputs, Archivable(d, in)
  PROVE  LET row == ArchivedRow(d, in)
             rc  == [id |-> in.id, revision |-> row.revision, deduplicated |-> FALSE]
         IN  /\ ArchiveTx(d, request, in)
                  = Acknowledge(Settled(d, in.id, row, in.provenance), request, in, rc)
             /\ Puts(d, in.id, row) /\ rc \in Receipts
             /\ row \in Rows /\ row.archived = in.archived /\ row.provenance = in.provenance
             /\ row.scope = in.scope /\ row.revision = d.chunks[in.id].revision + 1
             /\ row.content = d.chunks[in.id].content /\ row.embedding = d.chunks[in.id].embedding
             /\ Identity(row) = Identity(d.chunks[in.id])
  <1> DEFINE id  == in.id
             row == ArchivedRow(d, in)
             rc  == [id |-> in.id, revision |-> row.revision, deduplicated |-> FALSE]
  <1>1. Versioned(d) /\ TypeCorrect(d) /\ d.last \in Nat /\ Unique(d)
    BY DEF Sound, Versioned, TypeCorrect
  <1>2. id \in IDs(d) /\ d.chunks[id].scope = in.scope /\ d.chunks[id] \in Rows
    BY <1>1 DEF Archivable, TypeCorrect, IDs
  <1>3. in.archived \in BOOLEAN /\ in.provenance \in Provenances
    BY DEF ArchiveInputs
  <1>4. /\ row \in Rows /\ row.archived = in.archived /\ row.revision = d.chunks[id].revision + 1
        /\ row.scope = d.chunks[id].scope /\ row.key = d.chunks[id].key /\ row.provenance = in.provenance
        /\ row.content = d.chunks[id].content /\ row.embedding = d.chunks[id].embedding
        /\ row.confirmed = d.chunks[id].confirmed /\ Identity(row) = Identity(d.chunks[id])
    BY <1>2, <1>3, ShownRow DEF ArchivedRow
  <1>5. ArchiveTx(d, request, in) = Acknowledge(Settled(d, in.id, row, in.provenance), request, in, rc)
    BY <1>2, <1>4 DEF ArchiveTx, Settled
  <1> HIDE DEF row
  <1>6. Fits(d, Only(id, row))
    BY <1>1, <1>2, <1>4 DEF Fits, Only, IDs
  <1>7. ~row.archived /\ row.scope # Legacy => Exact(d, row, id) = {}
    <2> SUFFICES ASSUME ~in.archived, in.scope # Legacy, NEW i \in IDs(d) \ {id},
                        ~d.chunks[i].archived, Identity(d.chunks[i]) = Identity(d.chunks[id])
                 PROVE  FALSE
      BY <1>2, <1>4 DEF Exact, SameIdentity
    <2>1. CASE d.chunks[id].archived
      BY <2>1 DEF Archivable, Exact, SameIdentity
    <2>2. CASE ~d.chunks[id].archived
      <3>1. d.chunks[i].scope = in.scope
        BY <1>2 DEF Identity
      <3> QED BY <2>2, <3>1, <1>1, <1>2 DEF Unique, ExactOnce, SameIdentity
    <2> QED BY <2>1, <2>2
  <1>8. Puts(d, id, row)
    BY <1>2, <1>6, <1>7 DEF Puts
  <1>9. rc \in Receipts
    BY <1>1, <1>2, <1>4 DEF Receipts, Rows, IDs
  <1> QED BY <1>2, <1>4, <1>5, <1>8, <1>9 DEF row

\* archiveTx keeps the invariant.
LEMMA ArchiveSound ==
  ASSUME NEW d, Sound(d), NEW request \in Requests, NEW in \in ArchiveInputs, Archivable(d, in)
  PROVE  LET e == ArchiveTx(d, request, in)
         IN  /\ Sound(e)
             /\ DOMAIN e.requests = DOMAIN d.requests \cup {request}
             /\ \A q \in DOMAIN d.requests \ {request} : e.requests[q] = d.requests[q]
  <1> DEFINE row  == ArchivedRow(d, in)
             rc   == [id |-> in.id, revision |-> row.revision, deduplicated |-> FALSE]
             base == Settled(d, in.id, row, in.provenance)
  <1>1. ArchiveTx(d, request, in) = Acknowledge(base, request, in, rc) /\ rc \in Receipts
    BY ArchivePuts
  <1>2. Puts(d, in.id, row) /\ in.provenance \in Provenances
    BY ArchivePuts DEF ArchiveInputs
  <1> HIDE DEF row, rc
  <1>3. Sound(base) /\ base.requests = d.requests
    BY <1>2, SettledSound
  <1> HIDE DEF base
  <1> QED BY <1>1, <1>3, AcknowledgeSound

\* The copy a move writes is a well-formed request.
LEMMA CopyInputType ==
  ASSUME NEW d, TypeCorrect(d), NEW in \in MoveInputs, in.id \in IDs(d)
  PROVE  CopyInput(d, in) \in WriteInputs /\ CopyInput(d, in).scope = in.target
  <1> DEFINE old    == d.chunks[in.id]
             holder == IF old.key = Nil THEN {} ELSE Holders(d, in.target, old.key)
             id     == IF holder = {} THEN Nil ELSE CHOOSE i \in holder : TRUE
             exp    == IF id = Nil THEN Nil ELSE d.chunks[id].revision
  <1>1. CopyInput(d, in)
          = [op |-> "write", scope |-> in.target, content |-> old.content, title |-> old.title,
             tags |-> old.tags, type |-> old.type, purpose |-> old.purpose, confirmed |-> old.confirmed,
             provenance |-> old.provenance, key |-> old.key, id |-> id, expected |-> exp, restore |-> Nil]
    BY DEF CopyInput
  <1>2. old \in Rows
    BY DEF TypeCorrect, IDs
  <1>3. /\ old.content \in Contents /\ old.title \in Titles /\ old.tags \in Tags /\ old.type \in Types
        /\ old.purpose \in Purposes /\ old.confirmed \in BOOLEAN /\ old.provenance \in Provenances
        /\ old.key \in Keys \cup {Nil}
    BY <1>2 DEF Rows
  <1> HIDE DEF old
  <1>4. holder \subseteq IDs(d)
    BY DEF Holders
  <1> HIDE DEF holder
  <1>5. id = Nil \/ id \in IDs(d)
    BY <1>4
  <1> HIDE DEF id
  <1>6. id \in Nat \cup {Nil} /\ exp \in Nat \cup {Nil}
    BY <1>5 DEF TypeCorrect, IDs, Rows
  <1> HIDE DEF exp
  <1>7. in.target \in Scopes
    BY DEF MoveInputs
  <1> QED BY <1>1, <1>3, <1>6, <1>7 DEF WriteInputs

\* Move keeps the invariant: its two halves do, one after the other.
LEMMA MoveSound ==
  ASSUME NEW d, Sound(d), NEW r \in RequestIDs, NEW in \in MoveInputs,
         NEW vector \in Contents \cup {Nil}, Movable(d, in, vector)
  PROVE  Sound(MoveTx(d, r, in, vector))
  <1> DEFINE copy   == CopyInput(d, in)
             rc     == WriteReceipt(d, copy, WrittenRow(d, copy, vector))
             copied == WriteTx(d, <<r, ":copy">>, copy, vector)
             away   == RetiredInput(d, in, rc)
             moved  == ArchiveTx(copied, <<r, ":archive">>, away)
  <1>1. MoveTx(d, r, in, vector) = Acknowledge(moved, <<r, "">>, in, rc)
    BY DEF MoveTx
  <1>2. <<r, "">> \in Requests /\ <<r, ":copy">> \in Requests /\ <<r, ":archive">> \in Requests
    BY DEF Requests
  <1>3. /\ in.id \in IDs(d) /\ in.target # d.chunks[in.id].scope
        /\ Writable(d, copy, vector)
    BY DEF Movable
  <1>4. copy \in WriteInputs /\ copy.scope = in.target
    BY <1>3, CopyInputType DEF Sound, Versioned
  <1> HIDE DEF copy
  <1>5. /\ Sound(copied) /\ rc \in Receipts
        /\ in.id \in IDs(copied) /\ copied.chunks[in.id] = d.chunks[in.id]
    BY <1>2, <1>3, <1>4, WriteSound
  <1> HIDE DEF copied, rc
  <1>6. d.chunks[in.id] \in Rows
    BY <1>3 DEF Sound, Versioned, TypeCorrect, IDs
  <1>7. [by |-> in.provenance.by, source |-> "moved", ref |-> rc.id] \in Provenances
    BY <1>5 DEF MoveInputs, Provenances, Receipts
  <1>8. away \in ArchiveInputs
    BY <1>6, <1>7 DEF RetiredInput, ArchiveInputs, MoveInputs, Rows
  <1>9. Archivable(copied, away)
    BY <1>5 DEF Archivable, RetiredInput, AtRevision
  <1> HIDE DEF away
  <1>10. Sound(moved)
    BY <1>2, <1>5, <1>8, <1>9, ArchiveSound
  <1> HIDE DEF moved
  <1>11. in \in WriteInputs \cup ArchiveInputs \cup MoveInputs
    OBVIOUS
  <1>12. Sound(Acknowledge(moved, <<r, "">>, in, rc))
    BY <1>2, <1>5, <1>10, <1>11, AcknowledgeSound
  <1> QED BY <1>1, <1>12

----------------------------------------------------------------------------
(***************************************************************************)
(* The specification: the imported database is sound and every request     *)
(* keeps it sound.                                                         *)
(***************************************************************************)

\* A database as it was imported satisfies the invariant.
LEMMA InitSound ==
  ASSUME Init
  PROVE  Sound(db)
  <1>1. /\ db.last = ImportedCount /\ db.chunks = ImportedRows
        /\ DOMAIN db.revisions = {} /\ DOMAIN db.requests = {}
    BY DEF Init
  <1>2. TypeCorrect(db)
    BY <1>1, ImportedAssumption DEF TypeCorrect
  <1>3. History(db)
    BY <1>1, ImportedAssumption DEF History, Stored, Untouched, IDs
  <1>4. Confirmation(db)
    BY <1>1 DEF Confirmation
  <1>5. ExactOnce(db)
    <2> SUFFICES ASSUME NEW i \in IDs(db), NEW j \in IDs(db), i # j, db.chunks[i].scope # Legacy,
                        SameIdentity(db.chunks[i], db.chunks[j]), ~db.chunks[j].archived
                 PROVE  FALSE
      BY DEF ExactOnce
    <2>1. db.chunks[i].scope = db.chunks[j].scope
      BY DEF SameIdentity, Identity
    <2> QED BY <1>1, <2>1, ImportedAssumption DEF IDs
  <1>6. KeyOnce(db)
    BY <1>1, ImportedAssumption DEF KeyOnce, IDs
  <1>7. OneHandoff(db)
    BY <1>1, ImportedAssumption DEF OneHandoff, IDs, ActiveHandoff
  <1> QED BY <1>2, <1>3, <1>4, <1>5, <1>6, <1>7 DEF Sound, Versioned, Unique

\* The provenance a request carries.
LEMMA OwnSourceType ==
  ASSUME NEW author \in Authors
  PROVE  OwnSource(author) \in Provenances
  BY DEF OwnSource, Provenances

\* The vector a request is served with is of the text it stores, or absent.
Embeds(d, in, vector) == vector \in {Nil, TextOf(d, Selected(d, in), in).content}

\* The three kinds of steps, each a transaction on a well-formed request.
Writes(d, e, r) ==
  \E in \in WriteInputs, vector \in Contents \cup {Nil} :
    /\ in.provenance.source = "own" /\ Embeds(d, in, vector)
    /\ Writable(d, in, vector) /\ e = WriteTx(d, <<r, "">>, in, vector)

Archives(d, e, r) ==
  \E in \in ArchiveInputs :
    in.provenance.source = "own" /\ Archivable(d, in) /\ e = ArchiveTx(d, <<r, "">>, in)

Moves(d, e, r) ==
  \E in \in MoveInputs, vector \in Contents \cup {Nil} :
    /\ vector \in {Nil, d.chunks[in.id].content}
    /\ Movable(d, in, vector) /\ e = MoveTx(d, r, in, vector)

\* A write that sends its text is embedded from it.
LEMMA SentText ==
  ASSUME NEW d, NEW in, in.restore = Nil, NEW content \in Contents, in.content = content,
         NEW vector \in VectorsOf(content)
  PROVE  Embeds(d, in, vector) /\ vector \in Contents \cup {Nil}
  <1>1. TextOf(d, Selected(d, in), in).content = content
    BY DEF TextOf
  <1> QED BY <1>1 DEF Embeds, VectorsOf

\* Every step is of one of the three kinds.
LEMMA StepKinds ==
  ASSUME TypeCorrect(db), Next
  PROVE  \E r \in RequestIDs :
           Unused(db, r) /\ (Writes(db, db', r) \/ Archives(db, db', r) \/ Moves(db, db', r))
  <1>0. \A i \in IDs(db) : i \in Nat /\ db.chunks[i].revision \in Nat /\ db.chunks[i].content \in Contents
    BY DEF TypeCorrect, IDs, Rows
  <1>n. Nil \notin Nat
    BY ConstantsAssumption
  <1>o. \A author \in Agents : OwnSource(author) \in Provenances
    BY OwnSourceType, ConstantsAssumption
  <1>1. ASSUME NEW r \in RequestIDs, Save(r) PROVE Writes(db, db', r)
    <2>1. PICK scope \in Scopes, content \in Contents, meta \in Metadata, purpose \in Purposes,
               confirmed \in BOOLEAN, key \in Keys \cup {Nil}, author \in Agents :
            \E vector \in VectorsOf(content) :
              Write(r, [op |-> "write", scope |-> scope, content |-> content, title |-> meta.title,
                        tags |-> meta.tags, type |-> meta.type, purpose |-> purpose, confirmed |-> confirmed,
                        provenance |-> OwnSource(author), key |-> key,
                        id |-> Nil, expected |-> Nil, restore |-> Nil], vector)
      BY <1>1 DEF Save
    <2>2. meta.title \in Titles \cup {Nil, Blank} /\ meta.tags \in Tags \cup {Nil} /\ meta.type \in Types \cup {Nil}
      BY ConstantsAssumption
    <2> DEFINE in == [op |-> "write", scope |-> scope, content |-> content, title |-> meta.title,
                      tags |-> meta.tags, type |-> meta.type, purpose |-> purpose, confirmed |-> confirmed,
                      provenance |-> OwnSource(author), key |-> key,
                      id |-> Nil, expected |-> Nil, restore |-> Nil]
    <2>3. PICK vector \in VectorsOf(content) : Write(r, in, vector)
      BY <2>1
    <2>4. in \in WriteInputs /\ in.restore = Nil /\ in.content = content /\ in.provenance.source = "own"
      BY <2>2, <1>o DEF WriteInputs, OwnSource
    <2> HIDE DEF in
    <2> QED BY <2>3, <2>4, SentText DEF Write, Writes
  <1>2. ASSUME NEW r \in RequestIDs, NEW i \in IDs(db), Correct(r, i) PROVE Writes(db, db', r)
    <2>1. PICK scope \in Scopes, content \in Contents, meta \in Metadata, purpose \in Purposes,
               confirmed \in BOOLEAN, key \in Keys \cup {Nil}, author \in Agents, id \in {i, Nil},
               expected \in 1 .. db.chunks[i].revision :
            \E vector \in VectorsOf(content) :
              Write(r, [op |-> "write", scope |-> scope, content |-> content, title |-> meta.title,
                        tags |-> meta.tags, type |-> meta.type, purpose |-> purpose, confirmed |-> confirmed,
                        provenance |-> OwnSource(author), key |-> key,
                        id |-> id, expected |-> expected, restore |-> Nil], vector)
      BY <1>2 DEF Correct
    <2>2. meta.title \in Titles \cup {Nil, Blank} /\ meta.tags \in Tags \cup {Nil} /\ meta.type \in Types \cup {Nil}
      BY ConstantsAssumption
    <2>3. id \in Nat \cup {Nil} /\ expected \in Nat \cup {Nil}
      BY <1>0
    <2> DEFINE in == [op |-> "write", scope |-> scope, content |-> content, title |-> meta.title,
                      tags |-> meta.tags, type |-> meta.type, purpose |-> purpose, confirmed |-> confirmed,
                      provenance |-> OwnSource(author), key |-> key,
                      id |-> id, expected |-> expected, restore |-> Nil]
    <2>4. PICK vector \in VectorsOf(content) : Write(r, in, vector)
      BY <2>1
    <2>5. in \in WriteInputs /\ in.restore = Nil /\ in.content = content /\ in.provenance.source = "own"
      BY <2>2, <2>3, <1>o DEF WriteInputs, OwnSource
    <2> HIDE DEF in
    <2> QED BY <2>4, <2>5, SentText DEF Write, Writes
  <1>3. ASSUME NEW r \in RequestIDs, NEW i \in IDs(db), Restore(r, i) PROVE Writes(db, db', r)
    <2>1. PICK scope \in Scopes, confirmed \in BOOLEAN, author \in Agents,
               expected \in 1 .. db.chunks[i].revision, revision \in 1 .. db.chunks[i].revision :
            /\ HasRevision(db, i, revision)
            /\ \E purpose \in Purposes, vector \in VectorsOf(RevisionOf(db, i, revision).content) :
                 Write(r, [op |-> "write", scope |-> scope, content |-> NoText, title |-> Nil,
                           tags |-> Nil, type |-> Nil, purpose |-> purpose, confirmed |-> confirmed,
                           provenance |-> OwnSource(author), key |-> Nil,
                           id |-> i, expected |-> expected, restore |-> revision], vector)
      BY <1>3 DEF Restore
    <2>2. i \in Nat \cup {Nil} /\ expected \in Nat \cup {Nil} /\ revision \in Nat \cup {Nil} /\ revision # Nil /\ i # Nil
      BY <1>0, <1>n
    <2> DEFINE text == RevisionOf(db, i, revision).content
    <2>3. text \in Contents
      BY <2>1, RevisionIsRow DEF Rows
    <2>4. PICK purpose \in Purposes, vector \in VectorsOf(text) :
            Write(r, [op |-> "write", scope |-> scope, content |-> NoText, title |-> Nil,
                      tags |-> Nil, type |-> Nil, purpose |-> purpose, confirmed |-> confirmed,
                      provenance |-> OwnSource(author), key |-> Nil,
                      id |-> i, expected |-> expected, restore |-> revision], vector)
      BY <2>1
    <2> DEFINE in == [op |-> "write", scope |-> scope, content |-> NoText, title |-> Nil,
                      tags |-> Nil, type |-> Nil, purpose |-> purpose, confirmed |-> confirmed,
                      provenance |-> OwnSource(author), key |-> Nil,
                      id |-> i, expected |-> expected, restore |-> revision]
    <2>5. in \in WriteInputs /\ in.provenance.source = "own" /\ in.id = i /\ in.restore = revision
      BY <2>2, <1>o DEF WriteInputs, OwnSource
    <2>6. Write(r, in, vector)
      BY <2>4
    <2> HIDE DEF in
    <2>7. Selected(db, in) = i
      BY <2>2, <2>5 DEF Selected
    <2>8. TextOf(db, i, in).content = text
      BY <2>2, <2>5 DEF TextOf
    <2> HIDE DEF text
    <2>9. Embeds(db, in, vector) /\ vector \in Contents \cup {Nil}
      BY <2>3, <2>7, <2>8 DEF Embeds, VectorsOf
    <2> QED BY <2>5, <2>6, <2>9 DEF Write, Writes
  <1>4. ASSUME NEW r \in RequestIDs, NEW i \in IDs(db), Archive(r, i) PROVE Archives(db, db', r)
    <2>1. PICK scope \in Scopes, archived \in BOOLEAN, author \in Agents,
               expected \in 1 .. db.chunks[i].revision :
            LET in == [op |-> "archive", scope |-> scope, id |-> i, expected |-> expected,
                       archived |-> archived, provenance |-> OwnSource(author)]
            IN  Archivable(db, in) /\ db' = ArchiveTx(db, <<r, "">>, in)
      BY <1>4 DEF Archive
    <2> DEFINE in == [op |-> "archive", scope |-> scope, id |-> i, expected |-> expected,
                      archived |-> archived, provenance |-> OwnSource(author)]
    <2>2. OwnSource(author) \in Provenances /\ i \in Nat /\ expected \in Nat
      BY <1>0, <1>o
    <2>3. in \in ArchiveInputs /\ in.provenance.source = "own"
      BY <2>2 DEF ArchiveInputs, OwnSource
    <2>4. Archivable(db, in) /\ db' = ArchiveTx(db, <<r, "">>, in)
      BY <2>1
    <2> HIDE DEF in
    <2> QED BY <1>4, <2>3, <2>4 DEF Archive, Archives
  <1>5. ASSUME NEW r \in RequestIDs, NEW i \in IDs(db), Move(r, i) PROVE Moves(db, db', r)
    <2>1. PICK target \in Scopes, author \in Agents, expected \in 1 .. db.chunks[i].revision :
            LET in == [op |-> "move", id |-> i, expected |-> expected, target |-> target,
                       provenance |-> OwnSource(author)]
            IN  /\ HasRevision(db, i, expected)
                /\ \E vector \in VectorsOf(RevisionOf(db, i, expected).content) :
                     Movable(db, in, vector) /\ db' = MoveTx(db, r, in, vector)
      BY <1>5 DEF Move
    <2> DEFINE in == [op |-> "move", id |-> i, expected |-> expected, target |-> target,
                      provenance |-> OwnSource(author)]
    <2>2. OwnSource(author) \in Provenances /\ i \in Nat /\ expected \in Nat
      BY <1>0, <1>o
    <2>3. in \in MoveInputs /\ in.id = i /\ in.expected = expected
      BY <2>2 DEF MoveInputs
    <2>4. PICK vector \in VectorsOf(RevisionOf(db, i, expected).content) :
            Movable(db, in, vector) /\ db' = MoveTx(db, r, in, vector)
      BY <2>1
    <2> HIDE DEF in
    <2>5. expected = db.chunks[i].revision
      BY <2>3, <2>4 DEF Movable, AtRevision
    <2>6. vector \in {Nil, db.chunks[in.id].content} /\ vector \in Contents \cup {Nil}
      BY <1>0, <2>3, <2>5 DEF RevisionOf, VectorsOf
    <2> QED BY <1>5, <2>3, <2>4, <2>6 DEF Move, Moves
  <1> QED BY <1>1, <1>2, <1>3, <1>4, <1>5 DEF Next

\* Every step keeps the invariant.
LEMMA NextSound ==
  ASSUME Sound(db), [Next]_db
  PROVE  Sound(db)'
  <1>1. CASE UNCHANGED db
    BY <1>1
  <1>2. CASE Next
    <2>1. PICK r \in RequestIDs : Writes(db, db', r) \/ Archives(db, db', r) \/ Moves(db, db', r)
      BY <1>2, StepKinds DEF Sound, Versioned
    <2>2. <<r, "">> \in Requests
      BY DEF Requests
    <2>3. ASSUME Writes(db, db', r) PROVE Sound(db')
      <3>1. PICK in \in WriteInputs, vector \in Contents \cup {Nil} :
              Writable(db, in, vector) /\ db' = WriteTx(db, <<r, "">>, in, vector)
        BY <2>3 DEF Writes
      <3> QED BY <2>2, <3>1, WriteSound
    <2>4. ASSUME Archives(db, db', r) PROVE Sound(db')
      <3>1. PICK in \in ArchiveInputs : Archivable(db, in) /\ db' = ArchiveTx(db, <<r, "">>, in)
        BY <2>4 DEF Archives
      <3> QED BY <2>2, <3>1, ArchiveSound
    <2>5. ASSUME Moves(db, db', r) PROVE Sound(db')
      <3>1. PICK in \in MoveInputs, vector \in Contents \cup {Nil} :
              Movable(db, in, vector) /\ db' = MoveTx(db, r, in, vector)
        BY <2>5 DEF Moves
      <3> QED BY <3>1, MoveSound
    <2> QED BY <2>1, <2>3, <2>4, <2>5
  <1> QED BY <1>1, <1>2

\* The inductive invariant holds in every reachable database.
THEOREM Soundness == Spec => []Sound(db)
  <1>1. Init => Sound(db)
    BY InitSound
  <1>2. Sound(db) /\ [Next]_db => Sound(db)'
    BY NextSound
  <1> QED BY <1>1, <1>2, PTL DEF Spec

\* The tables stay well-formed under every sequence of requests.
THEOREM TypeCorrectness == Spec => []TypeOK
  <1>1. Sound(db) => TypeOK
    BY DEF Sound, Versioned, TypeOK
  <1> QED BY <1>1, Soundness, PTL

\* No version of a memory is ever lost: the history is complete in every
\* reachable database, however often rows were corrected, restored or moved.
THEOREM CompleteHistory == Spec => []HistoryComplete
  <1>1. Sound(db) => HistoryComplete
    BY DEF Sound, Versioned, HistoryComplete
  <1> QED BY <1>1, Soundness, PTL

\* A scope never has two active handoffs, for any number of requests.
THEOREM SingleHandoff == Spec => []OneHandoffPerScope
  <1>1. Sound(db) => OneHandoffPerScope
    BY DEF Sound, OneHandoffPerScope
  <1> QED BY <1>1, Soundness, PTL

\* The duplicate checks and the selection by key, in the transactions, keep what
\* both unique indexes enforce, so no index turns a request into an internal error.
THEOREM UniqueRows == Spec => []UniqueIndexes
  <1>1. Sound(db) => UniqueIndexes
    BY DEF Sound, Unique, UniqueIndexes
  <1> QED BY <1>1, Soundness, PTL

\* Confirmation is never lost along the history of a memory.
THEOREM KeptConfirmation == Spec => []ConfirmationKept
  <1>1. Sound(db) => ConfirmationKept
    BY DEF Sound, Versioned, ConfirmationKept
  <1> QED BY <1>1, Soundness, PTL
============================================================================
