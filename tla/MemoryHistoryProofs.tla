------------------------ MODULE MemoryHistoryProofs ------------------------
(***************************************************************************)
(* Proofs that MemoryStore keeps its promises about the past, for any      *)
(* scopes, texts, keys, requests and imported rows: what was acknowledged, *)
(* moved, embedded or noted stays true, every version was made once, and   *)
(* the tables implement a VersionedStore.  And that all of it holds as     *)
(* well when the owner's handlers (OwnerActions) work beside the agents.   *)
(*                                                                         *)
(* Every transaction stores one row and may retire handoffs (Settled).     *)
(* Effects says what that leaves in the tables, Persists what a reader     *)
(* keeps from it; every promise follows from these two.                    *)
(***************************************************************************)
EXTENDS OwnerActions, MemoryStoreProofs, Sequences

\* The tables after the rows were revised.
Effects(d, e, rows) ==
  /\ e.last \in Nat /\ e.requests = d.requests
  /\ IDs(e) = IDs(d) \cup DOMAIN rows
  /\ \A i \in IDs(e) : e.chunks[i] = IF i \in DOMAIN rows THEN rows[i] ELSE d.chunks[i]
  /\ \A p : p \in DOMAIN e.revisions <=>
              \/ p \in DOMAIN d.revisions
              \/ \E i \in DOMAIN rows \cap IDs(d) : p = <<i, d.chunks[i].revision>>
              \/ \E i \in DOMAIN rows : p = <<i, rows[i].revision>>
  /\ \A p \in DOMAIN d.revisions : e.revisions[p] = d.revisions[p]
  /\ \A i \in DOMAIN rows \cap IDs(d) : e.revisions[<<i, d.chunks[i].revision>>] = d.chunks[i]
  /\ \A i \in DOMAIN rows : e.revisions[<<i, rows[i].revision>>] = rows[i]

\* Everything a reader could get can still be got.
Persists(d, e) ==
  /\ IDs(d) \subseteq IDs(e)
  /\ \A p \in DOMAIN d.revisions : p \in DOMAIN e.revisions /\ e.revisions[p] = d.revisions[p]
  /\ \A i \in IDs(d) :
       /\ e.chunks[i].scope = d.chunks[i].scope
       /\ d.chunks[i].revision <= e.chunks[i].revision
       /\ \A k : HasRevision(d, i, k) =>
            HasRevision(e, i, k) /\ RevisionOf(e, i, k) = RevisionOf(d, i, k)

\* Types of what the proofs below read.
LEMMA SoundTypes ==
  ASSUME NEW d, Sound(d)
  PROVE  /\ Versioned(d) /\ TypeCorrect(d) /\ History(d) /\ d.last \in Nat
         /\ \A i \in IDs(d) : i \in Nat \ {0} /\ d.chunks[i] \in Rows /\ d.chunks[i].revision \in Nat \ {0}
         /\ \A p \in DOMAIN d.revisions : /\ p = <<p[1], p[2]>> /\ p[1] \in IDs(d) /\ d.revisions[p] \in Rows
                                          /\ p[2] \in Nat \ {0} /\ p[2] <= d.chunks[p[1]].revision
  <1>1. Versioned(d) /\ TypeCorrect(d) /\ History(d)
    BY DEF Sound, Versioned
  <1>2. d.last \in Nat /\ d.chunks \in [1 .. d.last -> Rows] /\ DOMAIN d.revisions \subseteq Nat \X Nat
        /\ \A p \in DOMAIN d.revisions : d.revisions[p] \in Rows
    BY <1>1 DEF TypeCorrect
  <1>3. \A i \in IDs(d) : i \in Nat \ {0} /\ d.chunks[i] \in Rows
    BY <1>2 DEF IDs
  <1>4. \A v \in Rows : v.revision \in Nat \ {0}
    BY DEF Rows
  <1>5. ASSUME NEW p \in DOMAIN d.revisions
        PROVE  /\ p = <<p[1], p[2]>> /\ p[1] \in IDs(d)
               /\ p[2] \in Nat \ {0} /\ p[2] <= d.chunks[p[1]].revision
    <2>1. p = <<p[1], p[2]>>
      BY <1>2
    <2>2. p[1] \in IDs(d) /\ p[2] \in 1 .. d.chunks[p[1]].revision
      BY <1>1 DEF History
    <2>3. d.chunks[p[1]].revision \in Nat
      BY <1>3, <1>4, <2>2
    <2> QED BY <2>1, <2>2, <2>3
  <1> QED BY <1>1, <1>2, <1>3, <1>4, <1>5

\* Revise has these effects.
LEMMA ReviseEffects ==
  ASSUME NEW d, Versioned(d), NEW rows, Fits(d, rows)
  PROVE  Effects(d, Revise(d, rows), rows)
  BY ReviseTables, ReviseRevisions DEF Versioned, Effects

\* The rows a transaction changes: the one it stores and the handoffs it retires.
Retired(d, id, row) ==
  {i \in IDs(d) \ {id} : row.purpose = "handoff" /\ ~row.archived /\ ActiveHandoff(d.chunks[i], row.scope)}

\* The note on a retired handoff.
Note(id, by) == [by |-> by.by, source |-> "replaced", ref |-> id]

Touched(d, id, row, by) ==
  [i \in {id} \cup Retired(d, id, row) |-> IF i = id THEN row ELSE Shown(d.chunks[i], TRUE, Note(id, by))]

\* A note names the memory it is about.
LEMMA NoteType ==
  ASSUME NEW id \in Nat, NEW by \in Provenances
  PROVE  Note(id, by) \in Provenances /\ Note(id, by).source = "replaced" /\ Note(id, by).ref = id
  BY DEF Note, Provenances

\* The effects of a transaction.
LEMMA SettledEffects ==
  ASSUME NEW d, Sound(d), NEW id, NEW row, Puts(d, id, row), NEW by \in Provenances
  PROVE  LET e    == Settled(d, id, row, by)
             rows == Touched(d, id, row, by)
         IN  Fits(d, rows) /\ Effects(d, e, rows) /\ Sound(e)
  <1> DEFINE e    == Settled(d, id, row, by)
             w    == Revise(d, Only(id, row))
             rows == Touched(d, id, row, by)
             gone == Retired(d, id, row)
             note == Note(id, by)
  <1>1. Sound(e)
    BY SettledSound
  <1>2. DOMAIN Only(id, row) = {id} /\ Only(id, row)[id] = row /\ Fits(d, Only(id, row))
    BY DEF Only, Puts
  <1>3. id \in Nat /\ id \in 1 .. d.last + 1 /\ gone \subseteq IDs(d)
    BY <1>2, SoundTypes DEF Fits, Retired
  <1>4. /\ DOMAIN rows = {id} \cup gone /\ rows[id] = row
        /\ \A i \in gone : i # id /\ rows[i] = Shown(d.chunks[i], TRUE, note)
    BY DEF Touched, Retired
  <1> HIDE DEF rows
  <1>5. Fits(d, rows)
    <2>1. DOMAIN rows \subseteq 1 .. d.last + 1
      BY <1>3, <1>4, SoundTypes DEF IDs
    <2>2. ASSUME NEW i \in DOMAIN rows
          PROVE  /\ rows[i] \in Rows
                 /\ i \in IDs(d) => /\ rows[i].revision = d.chunks[i].revision + 1
                                    /\ rows[i].scope = d.chunks[i].scope
                                    /\ rows[i].key = d.chunks[i].key
                                    /\ d.chunks[i].confirmed => rows[i].confirmed
                 /\ i \notin IDs(d) => rows[i].revision = 1
      <3>1. CASE i = id
        BY <3>1, <1>2, <1>4 DEF Fits
      <3>2. CASE i # id
        <4>1. i \in IDs(d) /\ rows[i] = Shown(d.chunks[i], TRUE, note)
          BY <3>2, <1>3, <1>4
        <4>2. note \in Provenances
          BY <1>3, NoteType
        <4> HIDE DEF note
        <4> DEFINE c == d.chunks[i]
                   r == Shown(c, TRUE, note)
        <4>3. c \in Rows /\ rows[i] = r
          BY <4>1, SoundTypes
        <4> HIDE DEF c
        <4>4. /\ r \in Rows /\ r.revision = c.revision + 1
              /\ r.scope = c.scope /\ r.key = c.key /\ r.confirmed = c.confirmed
          BY <4>2, <4>3, ShownRow
        <4> HIDE DEF r
        <4> QED BY <4>1, <4>3, <4>4 DEF c
      <3> QED BY <3>1, <3>2
    <2> QED BY <2>1, <2>2 DEF Fits
  <1>6. Effects(d, w, Only(id, row)) /\ Versioned(w)
    BY <1>2, ReviseEffects, ReviseVersioned, SoundTypes
  <1> HIDE DEF w, gone, note
  <1>7. CASE ~ (row.purpose = "handoff" /\ ~row.archived)
    <2>1. e = w /\ gone = {}
      BY <1>7 DEF Settled, Retired, w, gone
    <2>2. rows = Only(id, row)
      BY <1>4, <2>1 DEF rows, Touched, Only, gone, note
    <2> QED BY <1>1, <1>5, <1>6, <2>1, <2>2 DEF rows
  <1>8. CASE row.purpose = "handoff" /\ ~row.archived
    <2> DEFINE back == Replaced(w, gone, id, by)
    <2>1. /\ IDs(w) = IDs(d) \cup {id} /\ w.requests = d.requests
          /\ w.chunks[id] = row /\ \A i \in IDs(d) \ {id} : w.chunks[i] = d.chunks[i]
      BY <1>2, <1>6 DEF Effects
    <2>2. gone = {i \in IDs(w) \ {id} : ActiveHandoff(w.chunks[i], row.scope)}
      BY <1>8, <2>1 DEF gone, Retired
    <2>3. e = Revise(w, back)
      BY <1>8, <2>2 DEF Settled, RetireHandoffs, w
    <2>4. DOMAIN back = gone /\ \A i \in gone : back[i] = rows[i]
      <3>1. DOMAIN back = gone /\ \A i \in gone : back[i] = Shown(w.chunks[i], TRUE, note)
        BY DEF Replaced, Note, note
      <3> HIDE DEF back
      <3> QED BY <1>3, <1>4, <2>1, <3>1
    <2>5. Fits(w, back)
      <3>1. gone \in SUBSET IDs(w) /\ TypeCorrect(w)
        BY <1>3, <1>6, <2>1 DEF Versioned
      <3> QED BY <1>3, <3>1, RetireFits
    <2> HIDE DEF back
    <2>6. Effects(w, e, back)
      BY <1>6, <2>3, <2>5, ReviseEffects
    <2> HIDE DEF e
    <2>7. e.last \in Nat /\ e.requests = d.requests /\ IDs(e) = IDs(d) \cup DOMAIN rows
      BY <1>3, <1>4, <2>1, <2>4, <2>6 DEF Effects
    <2>8. \A i \in IDs(e) : e.chunks[i] = IF i \in DOMAIN rows THEN rows[i] ELSE d.chunks[i]
      BY <1>3, <1>4, <2>1, <2>4, <2>6 DEF Effects
    <2>9. \A p : p \in DOMAIN e.revisions <=>
                   \/ p \in DOMAIN w.revisions
                   \/ \E i \in gone : p = <<i, d.chunks[i].revision>>
                   \/ \E i \in gone : p = <<i, rows[i].revision>>
      <3>1. \A p : p \in DOMAIN e.revisions <=>
                     \/ p \in DOMAIN w.revisions
                     \/ \E i \in DOMAIN back \cap IDs(w) : p = <<i, w.chunks[i].revision>>
                     \/ \E i \in DOMAIN back : p = <<i, back[i].revision>>
        BY <2>6 DEF Effects
      <3>2. \A i \in gone : i \in IDs(w) /\ w.chunks[i] = d.chunks[i] /\ back[i] = rows[i]
        BY <1>3, <1>4, <2>1, <2>4
      <3> QED BY <2>4, <3>1, <3>2
    <2>10. \A p : p \in DOMAIN w.revisions <=>
                    \/ p \in DOMAIN d.revisions
                    \/ id \in IDs(d) /\ p = <<id, d.chunks[id].revision>>
                    \/ p = <<id, row.revision>>
      BY <1>2, <1>6 DEF Effects
    <2>11. \A p : p \in DOMAIN e.revisions <=>
                    \/ p \in DOMAIN d.revisions
                    \/ \E i \in DOMAIN rows \cap IDs(d) : p = <<i, d.chunks[i].revision>>
                    \/ \E i \in DOMAIN rows : p = <<i, rows[i].revision>>
      BY <1>3, <1>4, <2>9, <2>10
    <2>12. \A p \in DOMAIN w.revisions : e.revisions[p] = w.revisions[p]
      BY <2>6 DEF Effects
    <2>13. \A p \in DOMAIN d.revisions : e.revisions[p] = d.revisions[p]
      BY <1>6, <2>10, <2>12 DEF Effects
    <2>14. /\ id \in IDs(d) => e.revisions[<<id, d.chunks[id].revision>>] = d.chunks[id]
           /\ e.revisions[<<id, row.revision>>] = row
      BY <1>2, <1>6, <2>10, <2>12 DEF Effects
    <2>15. \A i \in gone : /\ e.revisions[<<i, d.chunks[i].revision>>] = d.chunks[i]
                           /\ e.revisions[<<i, rows[i].revision>>] = rows[i]
      BY <1>3, <1>4, <2>1, <2>4, <2>6 DEF Effects
    <2>16. /\ \A i \in DOMAIN rows \cap IDs(d) : e.revisions[<<i, d.chunks[i].revision>>] = d.chunks[i]
           /\ \A i \in DOMAIN rows : e.revisions[<<i, rows[i].revision>>] = rows[i]
      BY <1>4, <2>14, <2>15
    <2>17. Effects(d, e, rows)
      BY <2>7, <2>8, <2>11, <2>13, <2>16 DEF Effects
    <2> QED BY <1>1, <1>5, <2>17 DEF e, rows
  <1> QED BY <1>7, <1>8

\* Whatever was revised, readers keep what they could read.
LEMMA EffectsPersist ==
  ASSUME NEW d, Sound(d), NEW rows, Fits(d, rows), NEW e, Effects(d, e, rows)
  PROVE  Persists(d, e)
  <1>1. \A p \in DOMAIN d.revisions : p \in DOMAIN e.revisions /\ e.revisions[p] = d.revisions[p]
    BY DEF Effects
  <1>2. IDs(d) \subseteq IDs(e)
    BY DEF Effects
  <1>3. ASSUME NEW i \in IDs(d)
        PROVE  /\ e.chunks[i].scope = d.chunks[i].scope
               /\ d.chunks[i].revision <= e.chunks[i].revision
               /\ \A k : HasRevision(d, i, k) =>
                    HasRevision(e, i, k) /\ RevisionOf(e, i, k) = RevisionOf(d, i, k)
    <2>1. d.chunks[i].revision \in Nat
      BY SoundTypes
    <2>2. CASE i \notin DOMAIN rows
      <3>1. e.chunks[i] = d.chunks[i]
        BY <1>2, <2>2 DEF Effects
      <3> QED BY <1>1, <2>1, <3>1 DEF HasRevision, RevisionOf
    <2>3. CASE i \in DOMAIN rows
      <3>1. /\ e.chunks[i].revision = d.chunks[i].revision + 1
            /\ e.chunks[i].scope = d.chunks[i].scope
        BY <1>2, <2>3 DEF Effects, Fits
      <3>2. <<i, d.chunks[i].revision>> \in DOMAIN e.revisions /\ e.revisions[<<i, d.chunks[i].revision>>] = d.chunks[i]
        BY <2>3 DEF Effects
      <3>3. ASSUME NEW k, HasRevision(d, i, k)
            PROVE  HasRevision(e, i, k) /\ RevisionOf(e, i, k) = RevisionOf(d, i, k)
        <4>1. CASE k = d.chunks[i].revision
          BY <4>1, <2>1, <3>1, <3>2 DEF HasRevision, RevisionOf
        <4>2. CASE k # d.chunks[i].revision
          <5>1. <<i, k>> \in DOMAIN d.revisions /\ d.revisions[<<i, k>>].revision = k
                /\ d.revisions[<<i, k>>].scope = d.chunks[i].scope
            BY <3>3, <4>2 DEF HasRevision
          <5>2. k \in Nat /\ k <= d.chunks[i].revision
            BY <5>1, SoundTypes
          <5> QED BY <1>1, <2>1, <3>1, <4>2, <5>1, <5>2 DEF HasRevision, RevisionOf
        <4> QED BY <4>1, <4>2
      <3> QED BY <2>1, <3>1, <3>3
    <2> QED BY <2>2, <2>3
  <1> QED BY <1>1, <1>2, <1>3 DEF Persists

\* A handoff that was retired because the row stored under id became current.
IsRetired(old, new, id, row) ==
  /\ ~old.archived /\ new.archived = TRUE /\ new.revision = old.revision + 1
  /\ new.provenance.source = "replaced" /\ new.provenance.ref = id
  /\ new.scope = old.scope /\ old.scope = row.scope /\ row.purpose = "handoff" /\ ~row.archived
  /\ new.content = old.content /\ new.embedding = old.embedding

\* What a transaction that stores a row under id changes.
Change(d, e, id, row) ==
  /\ Persists(d, e)
  /\ IDs(e) = IDs(d) \cup {id} /\ e.chunks[id] = row
  /\ e.last = IF id \in IDs(d) THEN d.last ELSE d.last + 1
  /\ Stored(e, id, row.revision) /\ e.revisions[<<id, row.revision>>] = row
  /\ id \in IDs(d) => /\ row.revision = d.chunks[id].revision + 1
                      /\ Stored(e, id, d.chunks[id].revision)
                      /\ e.revisions[<<id, d.chunks[id].revision>>] = d.chunks[id]
  /\ id \notin IDs(d) => row.revision = 1 /\ id = d.last + 1
  /\ \A i \in IDs(d) \ {id} : e.chunks[i] = d.chunks[i] \/ IsRetired(d.chunks[i], e.chunks[i], id, row)
  /\ \A p \in DOMAIN e.revisions :
       \/ p \in DOMAIN d.revisions
       \/ /\ p \notin DOMAIN d.revisions /\ p = <<p[1], p[2]>> /\ p[1] \in IDs(d)
          /\ Untouched(d, p[1]) /\ p[2] = 1 /\ e.revisions[p] = d.chunks[p[1]]
       \/ p = <<id, row.revision>>
       \/ /\ p[1] \in IDs(d) \ {id} /\ p[2] = d.chunks[p[1]].revision + 1
          /\ e.revisions[p] = e.chunks[p[1]] /\ IsRetired(d.chunks[p[1]], e.chunks[p[1]], id, row)

\* A retired row is one.
LEMMA RetiredRow ==
  ASSUME NEW old \in Rows, NEW note \in Provenances, NEW row,
         ActiveHandoff(old, row.scope), row.purpose = "handoff", ~row.archived, note.source = "replaced"
  PROVE  IsRetired(old, Shown(old, TRUE, note), note.ref, row)
  <1> DEFINE new == Shown(old, TRUE, note)
  <1>1. /\ new.archived = TRUE /\ new.revision = old.revision + 1 /\ new.provenance = note
        /\ new.scope = old.scope /\ new.content = old.content /\ new.embedding = old.embedding
    <2>1. TRUE \in BOOLEAN
      OBVIOUS
    <2> HIDE DEF new
    <2>2. new \in Rows /\ new.archived = TRUE /\ new.revision = old.revision + 1 /\ new.provenance = note
          /\ new.scope = old.scope /\ new.content = old.content /\ new.embedding = old.embedding
      BY <2>1, ShownRow DEF new
    <2> QED BY <2>2
  <1>2. old.scope = row.scope /\ ~old.archived
    BY DEF ActiveHandoff
  <1> HIDE DEF new
  <1> QED BY <1>1, <1>2 DEF IsRetired, new

\* Every transaction is such a change.
LEMMA SettledChange ==
  ASSUME NEW d, Sound(d), NEW id, NEW row, Puts(d, id, row), NEW by \in Provenances
  PROVE  Change(d, Settled(d, id, row, by), id, row)
  <1> DEFINE e    == Settled(d, id, row, by)
             rows == Touched(d, id, row, by)
             gone == Retired(d, id, row)
             note == Note(id, by)
  <1>1. Fits(d, rows) /\ Effects(d, e, rows) /\ Sound(e)
    BY SettledEffects
  <1>2. /\ DOMAIN rows = {id} \cup gone /\ rows[id] = row /\ id \notin gone /\ gone \subseteq IDs(d)
        /\ \A i \in gone : i # id /\ rows[i] = Shown(d.chunks[i], TRUE, note)
        /\ \A i \in gone : row.purpose = "handoff" /\ ~row.archived /\ ActiveHandoff(d.chunks[i], row.scope)
    BY DEF Touched, Retired
  <1>3. id \in Nat /\ id \in 1 .. d.last + 1
    BY <1>1, <1>2, SoundTypes DEF Fits
  <1>4. note \in Provenances /\ note.source = "replaced" /\ note.ref = id
    BY <1>3, NoteType
  <1> HIDE DEF rows, e, gone, note
  <1>5. \A i \in gone : IsRetired(d.chunks[i], rows[i], id, row)
    <2> SUFFICES ASSUME NEW i \in gone PROVE IsRetired(d.chunks[i], rows[i], id, row)
      OBVIOUS
    <2> DEFINE c == d.chunks[i]
    <2>1. /\ c \in Rows /\ rows[i] = Shown(c, TRUE, note) /\ ActiveHandoff(c, row.scope)
          /\ row.purpose = "handoff" /\ ~row.archived
      BY <1>2, SoundTypes
    <2> HIDE DEF c
    <2>2. IsRetired(c, Shown(c, TRUE, note), note.ref, row)
      BY <1>4, <2>1, RetiredRow
    <2> QED BY <1>4, <2>1, <2>2 DEF c
  <1>6. Persists(d, e)
    BY <1>1, EffectsPersist
  <1>7. IDs(e) = IDs(d) \cup {id} /\ e.chunks[id] = row
    BY <1>1, <1>2 DEF Effects
  <1>8. d.last \in Nat /\ e.last \in Nat /\ (id \notin IDs(d) => id = d.last + 1)
    BY <1>1, <1>3, SoundTypes DEF IDs
  <1>9. e.last = IF id \in IDs(d) THEN d.last ELSE d.last + 1
    <2>1. \A x \in Nat : x \in 1 .. e.last <=> x \in 1 .. d.last \/ x = id
      BY <1>7 DEF IDs
    <2> QED BY <1>3, <1>8, <2>1 DEF IDs
  <1>10. Stored(e, id, row.revision) /\ e.revisions[<<id, row.revision>>] = row
    BY <1>1, <1>2 DEF Effects, Stored
  <1>11. id \in IDs(d) => /\ row.revision = d.chunks[id].revision + 1
                          /\ Stored(e, id, d.chunks[id].revision)
                          /\ e.revisions[<<id, d.chunks[id].revision>>] = d.chunks[id]
    BY <1>1, <1>2 DEF Effects, Fits, Stored
  <1>12. id \notin IDs(d) => row.revision = 1 /\ id = d.last + 1
    BY <1>1, <1>2, <1>8 DEF Fits
  <1>13. \A i \in IDs(d) \ {id} : e.chunks[i] = d.chunks[i] \/ IsRetired(d.chunks[i], e.chunks[i], id, row)
    BY <1>1, <1>2, <1>5, <1>7 DEF Effects
  <1>14. ASSUME NEW p \in DOMAIN e.revisions, p \notin DOMAIN d.revisions
         PROVE  \/ /\ p = <<p[1], p[2]>> /\ p[1] \in IDs(d)
                   /\ Untouched(d, p[1]) /\ p[2] = 1 /\ e.revisions[p] = d.chunks[p[1]]
                \/ p = <<id, row.revision>>
                \/ /\ p[1] \in IDs(d) \ {id} /\ p[2] = d.chunks[p[1]].revision + 1
                   /\ e.revisions[p] = e.chunks[p[1]] /\ IsRetired(d.chunks[p[1]], e.chunks[p[1]], id, row)
    <2>1. \/ \E i \in DOMAIN rows \cap IDs(d) : p = <<i, d.chunks[i].revision>>
          \/ \E i \in DOMAIN rows : p = <<i, rows[i].revision>>
      BY <1>1, <1>14 DEF Effects
    <2>2. ASSUME NEW i \in DOMAIN rows \cap IDs(d), p = <<i, d.chunks[i].revision>>
          PROVE  /\ p = <<p[1], p[2]>> /\ p[1] \in IDs(d)
                 /\ Untouched(d, p[1]) /\ p[2] = 1 /\ e.revisions[p] = d.chunks[p[1]]
      <3>1. ~Stored(d, i, d.chunks[i].revision) /\ d.chunks[i].revision \in Nat \ {0}
        BY <1>14, <2>2, SoundTypes DEF Stored
      <3>2. Untouched(d, i)
        BY <3>1, SoundTypes DEF History
      <3>3. e.revisions[p] = d.chunks[i]
        BY <1>1, <2>2 DEF Effects
      <3> QED BY <2>2, <3>2, <3>3 DEF Untouched
    <2>3. ASSUME NEW i \in DOMAIN rows, i # id, p = <<i, rows[i].revision>>
          PROVE  /\ p[1] \in IDs(d) \ {id} /\ p[2] = d.chunks[p[1]].revision + 1
                 /\ e.revisions[p] = e.chunks[p[1]] /\ IsRetired(d.chunks[p[1]], e.chunks[p[1]], id, row)
      <3>1. i \in gone /\ i \in IDs(d) /\ e.chunks[i] = rows[i] /\ e.revisions[p] = rows[i]
        BY <1>1, <1>2, <1>7, <2>3 DEF Effects
      <3>2. IsRetired(d.chunks[i], rows[i], id, row) /\ rows[i].revision = d.chunks[i].revision + 1
        BY <1>5, <3>1 DEF IsRetired
      <3> QED BY <2>3, <3>1, <3>2
    <2>4. CASE p = <<id, rows[id].revision>>
      BY <1>2, <2>4
    <2> QED BY <2>1, <2>2, <2>3, <2>4
  <1> QED BY <1>6, <1>7, <1>9, <1>10, <1>11, <1>12, <1>13, <1>14 DEF Change, e


----------------------------------------------------------------------------
(***************************************************************************)
(* The promises, one by one: what a change must bring along to keep each.  *)
(***************************************************************************)

\* The row a change stores belongs to the text it has a vector of.
LEMMA ChangeEmbedding ==
  ASSUME NEW d, Sound(d), OwnEmbedding(d), NEW e, NEW id, NEW row, Change(d, e, id, row),
         row.embedding \in {Nil, row.content}
  PROVE  OwnEmbedding(e)
  <1>1. ASSUME NEW i \in IDs(e) PROVE e.chunks[i].embedding \in {Nil, e.chunks[i].content}
    <2>1. CASE i = id
      BY <2>1 DEF Change
    <2>2. CASE i \in IDs(d) \ {id}
      BY <2>2 DEF Change, IsRetired, OwnEmbedding
    <2> QED BY <2>1, <2>2 DEF Change
  <1>2. ASSUME NEW p \in DOMAIN e.revisions PROVE e.revisions[p].embedding \in {Nil, e.revisions[p].content}
    <2>1. CASE p \in DOMAIN d.revisions
      BY <2>1 DEF Change, Persists, OwnEmbedding
    <2>2. CASE p[1] \in IDs(d) /\ e.revisions[p] = d.chunks[p[1]]
      BY <2>2 DEF OwnEmbedding
    <2>3. CASE p = <<id, row.revision>>
      BY <2>3 DEF Change
    <2>4. CASE p[1] \in IDs(d) \ {id} /\ e.revisions[p] = e.chunks[p[1]]
      BY <2>4, <1>1 DEF Change
    <2> QED BY <2>1, <2>2, <2>3, <2>4 DEF Change
  <1> QED BY <1>1, <1>2 DEF OwnEmbedding

\* A note that tells the truth about version v of memory i.
NoteTrue(d, i, v) ==
  LET n == v.provenance.ref
  IN  /\ v.archived /\ n \in IDs(d) \ {i}
      /\ \E k \in 1 .. d.chunks[n].revision :
           /\ Stored(d, n, k)
           /\ v.provenance.source = "replaced" =>
                d.revisions[<<n, k>>].purpose = "handoff" /\ d.chunks[n].scope = v.scope
           /\ v.provenance.source = "moved" =>
                d.revisions[<<n, k>>].content = v.content /\ d.chunks[n].scope # v.scope

\* Rows without a history and active rows carry no note, and so does the version
\* before a note.
NotesCurrent(d) ==
  /\ ImportedCount <= d.last
  /\ \A i \in IDs(d) : Untouched(d, i) \/ ~d.chunks[i].archived => d.chunks[i].provenance.source = "own"
  /\ \A p, q \in DOMAIN d.revisions :
       q[1] = p[1] /\ q[2] + 1 = p[2] /\ d.revisions[p].provenance.source # "own"
         => d.revisions[q].provenance.source = "own"

\* A note stays true.
LEMMA NotePersists ==
  ASSUME NEW d, Sound(d), NEW e, Sound(e), Persists(d, e), NEW i, NEW v, NoteTrue(d, i, v)
  PROVE  NoteTrue(e, i, v)
  <1> DEFINE n == v.provenance.ref
  <1>1. v.archived /\ n \in IDs(d) \ {i} /\ n \in IDs(e)
    BY DEF NoteTrue, Persists
  <1>2. PICK k \in 1 .. d.chunks[n].revision :
          /\ Stored(d, n, k)
          /\ v.provenance.source = "replaced" =>
               d.revisions[<<n, k>>].purpose = "handoff" /\ d.chunks[n].scope = v.scope
          /\ v.provenance.source = "moved" =>
               d.revisions[<<n, k>>].content = v.content /\ d.chunks[n].scope # v.scope
    BY DEF NoteTrue
  <1> HIDE DEF n
  <1>3. Stored(e, n, k) /\ e.revisions[<<n, k>>] = d.revisions[<<n, k>>] /\ e.chunks[n].scope = d.chunks[n].scope
    BY <1>1, <1>2 DEF Persists, Stored
  <1>4. d.chunks[n].revision \in Nat /\ e.chunks[n].revision \in Nat /\ d.chunks[n].revision <= e.chunks[n].revision
    BY <1>1, SoundTypes DEF Persists
  <1>5. k \in 1 .. e.chunks[n].revision
    BY <1>4
  <1> QED BY <1>1, <1>2, <1>3, <1>5 DEF NoteTrue, n

\* Notes stay true, and a change adds none that is not.
LEMMA ChangeNotes ==
  ASSUME NEW d, Sound(d), Notes(d), NotesCurrent(d), NEW e, Sound(e), NEW id, NEW row,
         Change(d, e, id, row), row.provenance.source = "own" \/ NoteTrue(d, id, row),
         row.provenance.source = "own" \/ id \notin IDs(d) \/ ~d.chunks[id].archived
  PROVE  Notes(e) /\ NotesCurrent(e)
  <1>1. Persists(d, e)
    BY DEF Change
  <1>2. ASSUME NEW i \in IDs(d) \ {id}, IsRetired(d.chunks[i], e.chunks[i], id, row)
        PROVE  NoteTrue(e, i, e.chunks[i])
    <2> DEFINE v == e.chunks[i]
               n == v.provenance.ref
               k == row.revision
    <2>1. v.archived /\ n = id /\ id \in IDs(e) \ {i} /\ v.provenance.source = "replaced"
          /\ v.scope = row.scope /\ row.purpose = "handoff"
      BY <1>2 DEF IsRetired, Change
    <2>2. e.chunks[id] = row /\ Stored(e, id, k) /\ e.revisions[<<id, k>>] = row
      BY DEF Change
    <2>3. k \in 1 .. e.chunks[id].revision
      BY <2>1, <2>2, SoundTypes
    <2> HIDE DEF v, n, k
    <2> QED BY <2>1, <2>2, <2>3 DEF NoteTrue, v, n
  <1>3. ASSUME NEW p \in DOMAIN e.revisions, e.revisions[p].provenance.source # "own"
        PROVE  NoteTrue(e, p[1], e.revisions[p])
    <2>1. CASE p \in DOMAIN d.revisions
      <3>1. e.revisions[p] = d.revisions[p]
        BY <2>1, <1>1 DEF Persists
      <3>2. NoteTrue(d, p[1], d.revisions[p])
        BY <1>3, <2>1, <3>1 DEF Notes, NoteTrue
      <3> QED BY <1>1, <3>1, <3>2, NotePersists
    <2>2. CASE p[1] \in IDs(d) /\ Untouched(d, p[1]) /\ p[2] = 1 /\ e.revisions[p] = d.chunks[p[1]]
      BY <1>3, <2>2 DEF NotesCurrent
    <2>3. CASE p = <<id, row.revision>>
      <3>1. e.revisions[p] = row /\ p[1] = id
        BY <2>3 DEF Change
      <3> QED BY <1>1, <1>3, <3>1, NotePersists
    <2>4. CASE /\ p[1] \in IDs(d) \ {id} /\ e.revisions[p] = e.chunks[p[1]]
               /\ IsRetired(d.chunks[p[1]], e.chunks[p[1]], id, row)
      BY <2>4, <1>2
    <2> QED BY <2>1, <2>2, <2>3, <2>4 DEF Change
  <1>4. Notes(e)
    BY <1>3 DEF Notes, NoteTrue
  <1>5. ImportedCount <= e.last
    BY SoundTypes, ImportedAssumption DEF NotesCurrent, Change
  <1>6. ASSUME NEW i \in IDs(e), Untouched(e, i) \/ ~e.chunks[i].archived
        PROVE  e.chunks[i].provenance.source = "own"
    <2>1. CASE i \in IDs(d) \ {id} /\ e.chunks[i] = d.chunks[i]
      BY <1>6, <2>1 DEF NotesCurrent, Untouched
    <2>2. CASE i \in IDs(d) \ {id} /\ IsRetired(d.chunks[i], e.chunks[i], id, row)
      <3>1. d.chunks[i].revision \in Nat \ {0}
        BY <2>2, SoundTypes
      <3>2. e.chunks[i].revision # 1 /\ e.chunks[i].archived
        BY <2>2, <3>1 DEF IsRetired
      <3> QED BY <1>6, <3>2 DEF Untouched
    <2>3. CASE i = id
      <3>1. e.chunks[i] = row
        BY <2>3 DEF Change
      <3>2. CASE ~row.archived
        BY <3>1, <3>2 DEF NoteTrue
      <3>3. CASE id \in IDs(d)
        <4>1. row.revision # 1
          BY <3>3, SoundTypes DEF Change
        <4> QED BY <1>6, <3>1, <3>2, <4>1 DEF Untouched
      <3>4. CASE id \notin IDs(d)
        <4>1. ~ (i <= ImportedCount)
          BY <2>3, <3>4, SoundTypes, ImportedAssumption DEF Change, NotesCurrent
        <4> QED BY <1>6, <3>1, <3>2, <4>1 DEF Untouched
      <3> QED BY <3>3, <3>4
    <2> QED BY <2>1, <2>2, <2>3 DEF Change
  <1>7. ASSUME NEW p \in DOMAIN e.revisions, NEW q \in DOMAIN e.revisions,
               q[1] = p[1], q[2] + 1 = p[2], e.revisions[p].provenance.source # "own"
        PROVE  e.revisions[q].provenance.source = "own"
    <2>1. /\ p = <<p[1], p[2]>> /\ q = <<q[1], q[2]>> /\ q[2] \in Nat \ {0} /\ p[2] \in Nat \ {0}
          /\ p[2] <= e.chunks[p[1]].revision
      BY SoundTypes
    <2>2. CASE p \in DOMAIN d.revisions
      <3>1. /\ p[1] \in IDs(d) /\ p[2] <= d.chunks[p[1]].revision /\ d.chunks[p[1]].revision \in Nat
            /\ e.revisions[p] = d.revisions[p]
        BY <2>2, <1>1, SoundTypes DEF Persists
      <3>2. q \in DOMAIN d.revisions
        <4>1. q # <<id, row.revision>>
          BY <1>7, <2>1, <3>1 DEF Change
        <4>2. q[2] # d.chunks[q[1]].revision + 1
          BY <1>7, <2>1, <3>1
        <4>3. ~Untouched(d, q[1])
          BY <1>7, <2>1, <3>1 DEF Untouched
        <4> QED BY <4>1, <4>2, <4>3 DEF Change
      <3> QED BY <1>1, <1>7, <2>2, <3>1, <3>2 DEF NotesCurrent, Persists
    <2>3. CASE p[1] \in IDs(d) /\ Untouched(d, p[1]) /\ p[2] = 1 /\ e.revisions[p] = d.chunks[p[1]]
      BY <1>7, <2>3 DEF NotesCurrent
    <2>4. CASE p = <<id, row.revision>>
      <3>1. e.revisions[p] = row /\ p[1] = id /\ p[2] = row.revision
        BY <2>4 DEF Change
      <3>2. id \in IDs(d)
        BY <1>7, <2>1, <3>1 DEF Change
      <3>3. ~d.chunks[id].archived /\ d.chunks[id].provenance.source = "own" /\ d.chunks[id].revision \in Nat
        BY <1>7, <3>1, <3>2, SoundTypes DEF NotesCurrent
      <3>4. q[2] = d.chunks[id].revision
        BY <1>7, <2>1, <3>1, <3>2, <3>3 DEF Change
      <3> QED BY <1>7, <2>1, <3>1, <3>2, <3>3, <3>4 DEF Change
    <2>5. CASE /\ p[1] \in IDs(d) \ {id} /\ p[2] = d.chunks[p[1]].revision + 1
               /\ IsRetired(d.chunks[p[1]], e.chunks[p[1]], id, row)
      <3> DEFINE i == p[1]
                 k == d.chunks[i].revision
      <3>1. i \in IDs(d) /\ k \in Nat /\ d.chunks[i].provenance.source = "own" /\ e.chunks[i].revision # k
        BY <2>5, SoundTypes DEF NotesCurrent, IsRetired
      <3>2. q = <<i, k>>
        BY <1>7, <2>1, <2>5, <3>1
      <3>3. RevisionOf(e, i, k) = d.chunks[i]
        BY <1>1, <3>1 DEF Persists, HasRevision, RevisionOf
      <3> HIDE DEF i, k
      <3> QED BY <3>1, <3>2, <3>3 DEF RevisionOf
    <2> QED BY <2>2, <2>3, <2>4, <2>5 DEF Change
  <1> QED BY <1>4, <1>5, <1>6, <1>7 DEF NotesCurrent


\* AcknowledgedKept and MoveConserves, for one request.
KeptFor(d, in, rc) ==
  LET made == RevisionOf(d, rc.id, rc.revision)
  IN  /\ rc.id \in IDs(d) /\ HasRevision(d, rc.id, rc.revision)
      /\ in.op # "move" => made.scope = in.scope
      /\ in.op = "archive" => made.archived = in.archived
      /\ in.op = "write" =>
           /\ made.confirmed = in.confirmed
           /\ in.key # Nil => made.key = in.key
           /\ in.restore = Nil => made.content = in.content /\ made.purpose = in.purpose
           /\ in.restore # Nil =>
                LET prior == d.revisions[<<rc.id, in.restore>>]
                IN  /\ Stored(d, rc.id, in.restore)
                    /\ <<made.content, made.title, made.tags, made.type, made.purpose>>
                         = <<prior.content, prior.title, prior.tags, prior.type, prior.purpose>>

ConservedFor(d, in, rc) ==
  in.op = "move" =>
    LET from == d.revisions[<<in.id, in.expected>>]
        left == d.revisions[<<in.id, in.expected + 1>>]
        copy == d.revisions[<<rc.id, rc.revision>>]
    IN  /\ Stored(d, in.id, in.expected) /\ Stored(d, in.id, in.expected + 1) /\ Stored(d, rc.id, rc.revision)
        /\ ~from.archived /\ left.archived /\ ~copy.archived /\ copy.scope = in.target
        /\ left.provenance.source = "moved" /\ left.provenance.ref = rc.id
        /\ Identity([copy EXCEPT !.scope = from.scope]) = Identity(from)
        /\ copy.key = from.key /\ copy.provenance = from.provenance

\* Both stay true as long as versions persist.
LEMMA KeptPersists ==
  ASSUME NEW d, NEW e, Persists(d, e), NEW in, NEW rc, KeptFor(d, in, rc)
  PROVE  KeptFor(e, in, rc)
  <1>1. rc.id \in IDs(d) /\ HasRevision(d, rc.id, rc.revision)
    BY DEF KeptFor
  <1>2. /\ rc.id \in IDs(e) /\ HasRevision(e, rc.id, rc.revision)
        /\ RevisionOf(e, rc.id, rc.revision) = RevisionOf(d, rc.id, rc.revision)
    BY <1>1 DEF Persists
  <1>3. Stored(d, rc.id, in.restore) => /\ Stored(e, rc.id, in.restore)
                                        /\ e.revisions[<<rc.id, in.restore>>] = d.revisions[<<rc.id, in.restore>>]
    BY DEF Persists, Stored
  <1> QED BY <1>2, <1>3 DEF KeptFor

LEMMA ConservedPersists ==
  ASSUME NEW d, NEW e, Persists(d, e), NEW in, NEW rc, ConservedFor(d, in, rc)
  PROVE  ConservedFor(e, in, rc)
  <1>1. ASSUME NEW i, NEW k, Stored(d, i, k)
        PROVE  Stored(e, i, k) /\ e.revisions[<<i, k>>] = d.revisions[<<i, k>>]
    BY <1>1 DEF Persists, Stored
  <1> QED BY <1>1 DEF ConservedFor

\* A receipt that is not of a duplicate names a version of the history.
Receipted(d) ==
  \A q \in DOMAIN d.requests : ~d.requests[q].receipt.deduplicated =>
    Stored(d, d.requests[q].receipt.id, d.requests[q].receipt.revision)

\* What a change adds to the requests.
Adds(d, e, request, in, rc) ==
  /\ request \notin DOMAIN d.requests
  /\ DOMAIN e.requests = DOMAIN d.requests \cup {request}
  /\ \A q \in DOMAIN d.requests : e.requests[q] = d.requests[q]
  /\ e.requests[request].input = in /\ e.requests[request].receipt = rc

\* A receipt for the version that was just made: nobody else made it.
LEMMA ChangeApplied ==
  ASSUME NEW d, Sound(d), AppliedOnce(d), Receipted(d), NEW e, NEW id, NEW row, Change(d, e, id, row),
         NEW request, NEW in, NEW rc, Adds(d, e, request, in, rc),
         rc.id = id, rc.revision = row.revision, ~rc.deduplicated,
         in.op # "move" => in.expected = (IF row.revision = 1 THEN Nil ELSE row.revision - 1)
  PROVE  AppliedOnce(e) /\ Receipted(e)
  <1>1. ASSUME NEW i, NEW k PROVE MadeBy(e, i, k) = MadeBy(d, i, k) \cup (IF i = id /\ k = row.revision THEN {request} ELSE {})
    BY DEF MadeBy, Adds
  <1>2. ASSUME NEW i, NEW k, ~ (i = id /\ k = row.revision) PROVE MadeBy(e, i, k) = MadeBy(d, i, k)
    BY <1>2 DEF MadeBy, Adds
  <1>3. ASSUME NEW i, NEW k, <<i, k>> \notin DOMAIN d.revisions PROVE MadeBy(d, i, k) = {}
    BY <1>3 DEF MadeBy, Receipted, Stored
  <1>4. <<id, row.revision>> \notin DOMAIN d.revisions
    <2>1. CASE id \in IDs(d)
      BY <2>1, SoundTypes DEF Change
    <2>2. CASE id \notin IDs(d)
      BY <2>2, SoundTypes
    <2> QED BY <2>1, <2>2
  <1>5. ASSUME NEW p \in DOMAIN e.revisions
        PROVE  LET made == MadeBy(e, p[1], p[2])
               IN  /\ \A q, s \in made : q[1] = s[1]
                   /\ \A q \in made : e.requests[q].input.op # "move" =>
                        e.requests[q].input.expected = (IF p[2] = 1 THEN Nil ELSE p[2] - 1)
                   /\ \/ made # {}
                      \/ e.revisions[p].provenance.source = "replaced"
                      \/ p[1] <= ImportedCount /\ p[2] = 1
    <2>1. CASE p \in DOMAIN d.revisions
      <3>1. p = <<p[1], p[2]>> /\ e.revisions[p] = d.revisions[p]
        BY <2>1, SoundTypes DEF Change, Persists
      <3>2. ~ (p[1] = id /\ p[2] = row.revision)
        <4>1. p[1] = id /\ p[2] = row.revision => <<p[1], p[2]>> = <<id, row.revision>>
          OBVIOUS
        <4>2. <<p[1], p[2]>> \in DOMAIN d.revisions
          BY <2>1, <3>1
        <4> QED BY <1>4, <4>1, <4>2
      <3>4. MadeBy(e, p[1], p[2]) = MadeBy(d, p[1], p[2])
        BY <1>2, <3>2
      <3>3. \A q \in MadeBy(d, p[1], p[2]) : e.requests[q] = d.requests[q]
        BY DEF MadeBy, Adds
      <3> QED BY <2>1, <3>1, <3>3, <3>4 DEF AppliedOnce
    <2>2. CASE p \notin DOMAIN d.revisions /\ p = <<p[1], p[2]>> /\ p[1] \in IDs(d) /\ Untouched(d, p[1]) /\ p[2] = 1
      <3>1. MadeBy(d, p[1], p[2]) = {}
        BY <1>3, <2>2
      <3>2. ~ (p[1] = id /\ p[2] = row.revision)
        BY <2>2 DEF Change, Untouched
      <3>3. MadeBy(e, p[1], p[2]) = {}
        BY <1>1, <3>1, <3>2
      <3> QED BY <2>2, <3>3 DEF Untouched
    <2>3. CASE p = <<id, row.revision>>
      <3>1. MadeBy(e, p[1], p[2]) = {request} /\ e.requests[request].input = in /\ p[2] = row.revision
        BY <1>1, <1>3, <1>4, <2>3 DEF Adds
      <3> QED BY <3>1
    <2>4. CASE /\ p[1] \in IDs(d) \ {id} /\ p[2] = d.chunks[p[1]].revision + 1
               /\ e.revisions[p] = e.chunks[p[1]] /\ IsRetired(d.chunks[p[1]], e.chunks[p[1]], id, row)
      <3>1. <<p[1], p[2]>> \notin DOMAIN d.revisions
        BY <2>4, SoundTypes
      <3>2. MadeBy(e, p[1], p[2]) = {}
        BY <1>1, <1>3, <2>4, <3>1
      <3> QED BY <2>4, <3>2 DEF IsRetired
    <2> QED BY <2>1, <2>2, <2>3, <2>4 DEF Change
  <1>6. Receipted(e)
    <2> SUFFICES ASSUME NEW q \in DOMAIN e.requests, ~e.requests[q].receipt.deduplicated
                 PROVE  Stored(e, e.requests[q].receipt.id, e.requests[q].receipt.revision)
      BY DEF Receipted
    <2>1. CASE q = request
      BY <2>1 DEF Adds, Change
    <2>2. CASE q \in DOMAIN d.requests
      BY <2>2 DEF Adds, Change, Persists, Receipted, Stored
    <2> QED BY <2>1, <2>2 DEF Adds
  <1> QED BY <1>5, <1>6 DEF AppliedOnce

\* A receipt that changes nothing: of a duplicate, or of a move for its copy.
LEMMA ReceiptApplied ==
  ASSUME NEW d, AppliedOnce(d), Receipted(d), NEW e, e.revisions = d.revisions,
         NEW request, NEW in, NEW rc, Adds(d, e, request, in, rc),
         \/ rc.deduplicated
         \/ /\ in.op = "move" /\ Stored(d, rc.id, rc.revision)
            /\ \E s \in MadeBy(d, rc.id, rc.revision) : s[1] = request[1]
  PROVE  AppliedOnce(e) /\ Receipted(e)
  <1>1. ASSUME NEW i, NEW k
        PROVE  MadeBy(e, i, k) = MadeBy(d, i, k) \cup
                 (IF ~rc.deduplicated /\ i = rc.id /\ k = rc.revision THEN {request} ELSE {})
    BY DEF MadeBy, Adds
  <1>2. ASSUME NEW p \in DOMAIN e.revisions
        PROVE  LET made == MadeBy(e, p[1], p[2])
               IN  /\ \A q, s \in made : q[1] = s[1]
                   /\ \A q \in made : e.requests[q].input.op # "move" =>
                        e.requests[q].input.expected = (IF p[2] = 1 THEN Nil ELSE p[2] - 1)
                   /\ \/ made # {}
                      \/ e.revisions[p].provenance.source = "replaced"
                      \/ p[1] <= ImportedCount /\ p[2] = 1
    <2>1. \A q \in MadeBy(d, p[1], p[2]) : e.requests[q] = d.requests[q]
      BY DEF MadeBy, Adds
    <2>2. /\ \A q, s \in MadeBy(d, p[1], p[2]) : q[1] = s[1]
          /\ \A q \in MadeBy(d, p[1], p[2]) : d.requests[q].input.op # "move" =>
               d.requests[q].input.expected = (IF p[2] = 1 THEN Nil ELSE p[2] - 1)
          /\ \/ MadeBy(d, p[1], p[2]) # {}
             \/ e.revisions[p].provenance.source = "replaced"
             \/ p[1] <= ImportedCount /\ p[2] = 1
      BY DEF AppliedOnce
    <2>3. CASE MadeBy(e, p[1], p[2]) = MadeBy(d, p[1], p[2])
      BY <2>1, <2>2, <2>3
    <2>4. CASE ~rc.deduplicated /\ p[1] = rc.id /\ p[2] = rc.revision
      <3>1. MadeBy(e, p[1], p[2]) = MadeBy(d, p[1], p[2]) \cup {request}
        BY <1>1, <2>4
      <3>2. e.requests[request].input.op = "move"
        BY <2>4 DEF Adds
      <3>3. \A s \in MadeBy(d, p[1], p[2]) : s[1] = request[1]
        BY <2>2, <2>4
      <3> QED BY <2>1, <2>2, <3>1, <3>2, <3>3
    <2> QED BY <1>1, <2>3, <2>4
  <1>3. Receipted(e)
    BY DEF Receipted, Adds, Stored
  <1> QED BY <1>2, <1>3 DEF AppliedOnce

\* The two promises for one request more.
LEMMA AddsKept ==
  ASSUME NEW d, Kept(d), NEW e, Persists(d, e), NEW request, NEW in, NEW rc,
         Adds(d, e, request, in, rc), KeptFor(e, in, rc)
  PROVE  Kept(e)
  <1>1. \A q \in DOMAIN d.requests : KeptFor(d, d.requests[q].input, d.requests[q].receipt)
    BY DEF Kept, KeptFor
  <1>2. \A q \in DOMAIN d.requests : KeptFor(e, d.requests[q].input, d.requests[q].receipt)
    BY <1>1, KeptPersists
  <1>3. \A q \in DOMAIN e.requests : KeptFor(e, e.requests[q].input, e.requests[q].receipt)
    BY <1>2 DEF Adds
  <1> QED BY <1>3 DEF Kept, KeptFor

LEMMA AddsConserved ==
  ASSUME NEW d, Conserved(d), NEW e, Persists(d, e), NEW request, NEW in, NEW rc,
         Adds(d, e, request, in, rc), ConservedFor(e, in, rc)
  PROVE  Conserved(e)
  <1>1. \A q \in DOMAIN d.requests : ConservedFor(d, d.requests[q].input, d.requests[q].receipt)
    BY DEF Conserved, ConservedFor
  <1>2. \A q \in DOMAIN d.requests : ConservedFor(e, d.requests[q].input, d.requests[q].receipt)
    BY <1>1, ConservedPersists
  <1>3. \A q \in DOMAIN e.requests : ConservedFor(e, e.requests[q].input, e.requests[q].receipt)
    BY <1>2 DEF Adds
  <1> QED BY <1>3 DEF Conserved, ConservedFor

----------------------------------------------------------------------------
(***************************************************************************)
(* All promises together, and what a step does to them.                    *)
(***************************************************************************)

Promise(d) ==
  /\ Sound(d) /\ OwnEmbedding(d) /\ Notes(d) /\ NotesCurrent(d)
  /\ Kept(d) /\ AppliedOnce(d) /\ Receipted(d) /\ Conserved(d)

\* From d to e, requests were acknowledged and rows moved on by one revision.
Advances(d, e) ==
  /\ Persists(d, e)
  /\ e.last \in {d.last, d.last + 1}
  /\ \A i \in IDs(e) \ IDs(d) : e.chunks[i].revision = 1
  /\ \A i \in IDs(d) : e.chunks[i] # d.chunks[i] =>
       /\ e.chunks[i].revision = d.chunks[i].revision + 1
       /\ \E q \in DOMAIN e.requests \ DOMAIN d.requests :
            e.requests[q].input.op # "move" /\ e.requests[q].input.scope = d.chunks[i].scope
  /\ \A q \in DOMAIN d.requests : q \in DOMAIN e.requests /\ e.requests[q] = d.requests[q]
  /\ DOMAIN e.requests \ DOMAIN d.requests # {}
  /\ \A q \in DOMAIN e.requests \ DOMAIN d.requests :
       /\ e.requests[q].receipt.id \in IDs(e)
       /\ e.requests[q].receipt.revision = e.chunks[e.requests[q].receipt.id].revision

\* A change that is acknowledged keeps every promise.
LEMMA ChangePromise ==
  ASSUME NEW d, Promise(d), NEW e, Sound(e), NEW id, NEW row, Change(d, e, id, row),
         NEW request, NEW in, NEW rc, Adds(d, e, request, in, rc),
         rc.id = id, rc.revision = row.revision, ~rc.deduplicated,
         in.op # "move", in.expected = (IF row.revision = 1 THEN Nil ELSE row.revision - 1),
         row.embedding \in {Nil, row.content},
         row.provenance.source = "own" \/ NoteTrue(d, id, row),
         row.provenance.source = "own" \/ id \notin IDs(d) \/ ~d.chunks[id].archived,
         KeptFor(e, in, rc)
  PROVE  Promise(e)
  <1>1. Persists(d, e)
    BY DEF Change
  <1>2. OwnEmbedding(e)
    BY ChangeEmbedding DEF Promise
  <1>3. Notes(e) /\ NotesCurrent(e)
    BY ChangeNotes DEF Promise
  <1>4. AppliedOnce(e) /\ Receipted(e)
    BY ChangeApplied DEF Promise
  <1>5. Kept(e)
    BY <1>1, AddsKept DEF Promise
  <1>6. ConservedFor(e, in, rc)
    BY DEF ConservedFor
  <1>7. Conserved(e)
    BY <1>1, <1>6, AddsConserved DEF Promise
  <1> QED BY <1>2, <1>3, <1>4, <1>5, <1>7 DEF Promise

\* It moves rows on by one revision, in the scope of the request.
LEMMA ChangeAdvances ==
  ASSUME NEW d, Sound(d), NEW e, NEW id, NEW row, Change(d, e, id, row),
         NEW request, NEW in, NEW rc, Adds(d, e, request, in, rc),
         rc.id = id, rc.revision = row.revision, in.op # "move",
         in.scope = row.scope, id \in IDs(d) => d.chunks[id].scope = row.scope
  PROVE  Advances(d, e)
  <1>1. DOMAIN e.requests \ DOMAIN d.requests = {request} /\ e.requests[request].input = in
        /\ e.requests[request].receipt = rc
    BY DEF Adds
  <1>2. ASSUME NEW i \in IDs(d), e.chunks[i] # d.chunks[i]
        PROVE  e.chunks[i].revision = d.chunks[i].revision + 1 /\ d.chunks[i].scope = in.scope
    BY <1>2 DEF Change, IsRetired
  <1>3. \A i \in IDs(e) \ IDs(d) : e.chunks[i].revision = 1
    BY DEF Change
  <1>4. e.last \in {d.last, d.last + 1} /\ Persists(d, e) /\ id \in IDs(e) /\ e.chunks[id] = row
    BY DEF Change
  <1>5. \A q \in DOMAIN d.requests : q \in DOMAIN e.requests /\ e.requests[q] = d.requests[q]
    BY DEF Adds
  <1> QED BY <1>1, <1>2, <1>3, <1>4, <1>5 DEF Advances

\* The same tables with one more receipt.
SameTables(d, e) == e.last = d.last /\ e.chunks = d.chunks /\ e.revisions = d.revisions

LEMMA SamePersists ==
  ASSUME NEW d, Sound(d), NEW e, SameTables(d, e)
  PROVE  Persists(d, e)
  BY SoundTypes DEF SameTables, Persists, IDs, HasRevision, RevisionOf

LEMMA ReceiptPromise ==
  ASSUME NEW d, Promise(d), NEW e, Sound(e), SameTables(d, e),
         NEW request, NEW in, NEW rc, Adds(d, e, request, in, rc),
         \/ rc.deduplicated
         \/ /\ in.op = "move" /\ Stored(d, rc.id, rc.revision)
            /\ \E s \in MadeBy(d, rc.id, rc.revision) : s[1] = request[1],
         KeptFor(e, in, rc), ConservedFor(e, in, rc)
  PROVE  Promise(e)
  <1>1. Persists(d, e)
    BY SamePersists DEF Promise
  <1>2. OwnEmbedding(e) /\ Notes(e) /\ NotesCurrent(e)
    <2>1. OwnEmbedding(d) /\ Notes(d) /\ NotesCurrent(d)
      BY DEF Promise
    <2>2. e.last = d.last /\ e.chunks = d.chunks /\ e.revisions = d.revisions /\ IDs(e) = IDs(d)
      BY DEF SameTables, IDs
    <2>3. OwnEmbedding(e)
      BY <2>1, <2>2 DEF OwnEmbedding
    <2>4. Notes(e)
      <3>1. ASSUME NEW p \in DOMAIN e.revisions, e.revisions[p].provenance.source # "own"
            PROVE  NoteTrue(e, p[1], e.revisions[p])
        <4>1. NoteTrue(d, p[1], e.revisions[p])
          <5>1. p \in DOMAIN d.revisions /\ e.revisions[p] = d.revisions[p]
                /\ d.revisions[p].provenance.source # "own"
            BY <2>2, <3>1
          <5> QED BY <2>1, <5>1 DEF Notes, NoteTrue
        <4>2. Sound(d)
          BY DEF Promise
        <4> QED BY <1>1, <4>1, <4>2, NotePersists
      <3> QED BY <3>1 DEF Notes, NoteTrue
    <2>5. NotesCurrent(e)
      BY <2>1, <2>2 DEF NotesCurrent, Untouched
    <2> QED BY <2>3, <2>4, <2>5
  <1>3. AppliedOnce(e) /\ Receipted(e)
    BY ReceiptApplied DEF Promise, SameTables
  <1>4. Kept(e) /\ Conserved(e)
    BY <1>1, AddsKept, AddsConserved DEF Promise
  <1> QED BY <1>2, <1>3, <1>4 DEF Promise

LEMMA ReceiptAdvances ==
  ASSUME NEW d, Sound(d), NEW w, w = d \/ Advances(d, w), NEW e, SameTables(w, e),
         NEW request, NEW in, NEW rc, Adds(w, e, request, in, rc),
         rc.id \in IDs(w), rc.revision = w.chunks[rc.id].revision
  PROVE  Advances(d, e)
  <1>1. IDs(e) = IDs(w) /\ e.last = w.last /\ e.chunks = w.chunks /\ e.revisions = w.revisions
    BY DEF SameTables, IDs
  <1>2. Persists(d, w)
    BY SamePersists DEF Advances, SameTables
  <1>3. Persists(d, e)
    BY <1>1, <1>2 DEF Persists, HasRevision, RevisionOf
  <1>4. \A q \in DOMAIN w.requests : q \in DOMAIN e.requests /\ e.requests[q] = w.requests[q]
    BY DEF Adds
  <1>5. DOMAIN e.requests = DOMAIN w.requests \cup {request} /\ e.requests[request].receipt = rc
        /\ request \notin DOMAIN w.requests
    BY DEF Adds
  <1>6. rc.id \in IDs(e) /\ rc.revision = e.chunks[rc.id].revision
    BY <1>1
  <1>7. DOMAIN d.requests \subseteq DOMAIN w.requests
        /\ \A q \in DOMAIN d.requests : w.requests[q] = d.requests[q]
    BY DEF Advances
  <1>8. e.last \in {d.last, d.last + 1}
    BY <1>1 DEF Advances
  <1>9. \A i \in IDs(e) \ IDs(d) : e.chunks[i].revision = 1
    BY <1>1 DEF Advances
  <1>10. ASSUME NEW i \in IDs(d), e.chunks[i] # d.chunks[i]
         PROVE  /\ e.chunks[i].revision = d.chunks[i].revision + 1
                /\ \E q \in DOMAIN e.requests \ DOMAIN d.requests :
                     e.requests[q].input.op # "move" /\ e.requests[q].input.scope = d.chunks[i].scope
    <2>1. w.chunks[i] # d.chunks[i]
      BY <1>1, <1>10
    <2>2. /\ w.chunks[i].revision = d.chunks[i].revision + 1
          /\ \E q \in DOMAIN w.requests \ DOMAIN d.requests :
               w.requests[q].input.op # "move" /\ w.requests[q].input.scope = d.chunks[i].scope
      BY <2>1 DEF Advances
    <2>3. PICK q \in DOMAIN w.requests \ DOMAIN d.requests :
            w.requests[q].input.op # "move" /\ w.requests[q].input.scope = d.chunks[i].scope
      BY <2>2
    <2>4. q \in DOMAIN e.requests /\ e.requests[q] = w.requests[q]
      BY <1>4
    <2> QED BY <1>1, <2>2, <2>3, <2>4
  <1>11. \A q \in DOMAIN d.requests : q \in DOMAIN e.requests /\ e.requests[q] = d.requests[q]
    BY <1>4, <1>7
  <1>12. DOMAIN e.requests \ DOMAIN d.requests # {}
    BY <1>5, <1>7
  <1>13. ASSUME NEW q \in DOMAIN e.requests \ DOMAIN d.requests
         PROVE  /\ e.requests[q].receipt.id \in IDs(e)
                /\ e.requests[q].receipt.revision = e.chunks[e.requests[q].receipt.id].revision
    <2>1. CASE q = request
      BY <1>5, <1>6, <2>1
    <2>2. CASE q \in DOMAIN w.requests
      <3>1. e.requests[q] = w.requests[q] /\ q \in DOMAIN w.requests \ DOMAIN d.requests
        BY <1>4, <2>2
      <3>2. /\ w.requests[q].receipt.id \in IDs(w)
            /\ w.requests[q].receipt.revision = w.chunks[w.requests[q].receipt.id].revision
        BY <3>1 DEF Advances
      <3> QED BY <1>1, <3>1, <3>2
    <2> QED BY <1>5, <2>1, <2>2
  <1> QED BY <1>3, <1>8, <1>9, <1>10, <1>11, <1>12, <1>13 DEF Advances

\* An acknowledgement stores the request and its receipt, and nothing else.
LEMMA AcknowledgeAdds ==
  ASSUME NEW d, Sound(d), NEW request \in Requests, request \notin DOMAIN d.requests,
         NEW in \in WriteInputs \cup ArchiveInputs \cup MoveInputs, NEW rc \in Receipts
  PROVE  LET e == Acknowledge(d, request, in, rc)
         IN  Sound(e) /\ SameTables(d, e) /\ Adds(d, e, request, in, rc)
  <1> DEFINE e == Acknowledge(d, request, in, rc)
  <1>1. Sound(e)
    BY AcknowledgeSound
  <1>2. SameTables(d, e) /\ DOMAIN e.requests = DOMAIN d.requests \cup {request}
        /\ \A q \in DOMAIN d.requests \cup {request} :
             e.requests[q] = IF q = request THEN [input |-> in, receipt |-> rc] ELSE d.requests[q]
    BY DEF Acknowledge, SameTables
  <1> HIDE DEF e
  <1>3. Adds(d, e, request, in, rc)
    BY <1>2 DEF Adds
  <1> QED BY <1>1, <1>2, <1>3 DEF e

\* A transaction and its acknowledgement are a change that adds a request.
LEMMA SettledAdds ==
  ASSUME NEW d, Sound(d), NEW id, NEW row, Puts(d, id, row), NEW by \in Provenances,
         NEW request \in Requests, request \notin DOMAIN d.requests,
         NEW in \in WriteInputs \cup ArchiveInputs \cup MoveInputs, NEW rc \in Receipts
  PROVE  LET e == Acknowledge(Settled(d, id, row, by), request, in, rc)
         IN  Sound(e) /\ Change(d, e, id, row) /\ Adds(d, e, request, in, rc)
  <1> DEFINE s == Settled(d, id, row, by)
             e == Acknowledge(s, request, in, rc)
  <1>1. Sound(s) /\ s.requests = d.requests
    BY SettledSound
  <1>2. Change(d, s, id, row)
    BY SettledChange
  <1> HIDE DEF s
  <1>3. Sound(e) /\ SameTables(s, e) /\ Adds(s, e, request, in, rc)
    BY <1>1, AcknowledgeAdds
  <1> HIDE DEF e
  <1>4. Change(d, e, id, row)
    BY <1>2, <1>3 DEF Change, SameTables, Persists, IDs, Stored, HasRevision, RevisionOf
  <1>5. Adds(d, e, request, in, rc)
    BY <1>1, <1>3 DEF Adds
  <1> QED BY <1>3, <1>4, <1>5 DEF e, s

----------------------------------------------------------------------------
(***************************************************************************)
(* The transactions.                                                       *)
(***************************************************************************)

\* What the row a write stores has from its request.
Says(d, in, row, id) ==
  /\ row.scope = in.scope /\ row.archived = FALSE /\ row.confirmed = in.confirmed
  /\ row.provenance = in.provenance
  /\ in.key # Nil => row.key = in.key
  /\ row.embedding \in {Nil, row.content}
  /\ in.expected = (IF row.revision = 1 THEN Nil ELSE row.revision - 1)
  /\ in.restore = Nil => row.content = in.content /\ row.purpose = in.purpose
  /\ in.restore # Nil =>
       LET prior == RevisionOf(d, id, in.restore)
       IN  /\ id \in IDs(d) /\ HasRevision(d, id, in.restore)
           /\ <<row.content, row.title, row.tags, row.type, row.purpose>>
                = <<prior.content, prior.title, prior.tags, prior.type, prior.purpose>>

\* A version that can be read belongs to the text it has a vector of.
LEMMA OwnVersion ==
  ASSUME NEW d, OwnEmbedding(d), NEW id \in IDs(d), NEW k, HasRevision(d, id, k)
  PROVE  RevisionOf(d, id, k).embedding \in {Nil, RevisionOf(d, id, k).content}
  BY DEF OwnEmbedding, HasRevision, RevisionOf

LEMMA WriteSays ==
  ASSUME NEW d, Sound(d), OwnEmbedding(d), NEW in \in WriteInputs,
         NEW vector \in Contents \cup {Nil}, Writable(d, in, vector), Embeds(d, in, vector)
  PROVE  Says(d, in, WrittenRow(d, in, vector), Selected(d, in))
  <1> DEFINE row  == WrittenRow(d, in, vector)
             id   == Selected(d, in)
             text == TextOf(d, id, in)
             vec  == EmbeddingOf(d, id, in, vector)
  <1>1. /\ row.scope = in.scope /\ row.archived = FALSE /\ row.confirmed = in.confirmed
        /\ row.provenance = in.provenance /\ row.embedding = vec
        /\ row.content = text.content /\ row.title = text.title /\ row.tags = text.tags
        /\ row.type = text.type /\ row.purpose = text.purpose
        /\ row.key = (IF id = Nil THEN in.key ELSE d.chunks[id].key)
        /\ row.revision = (IF id = Nil THEN 1 ELSE d.chunks[id].revision + 1)
    BY DEF WrittenRow
  <1>2. vector \in {Nil, text.content}
    BY DEF Embeds
  <1> HIDE DEF row
  <1>3. /\ id = Nil => in.expected = Nil /\ in.restore = Nil
        /\ id # Nil => /\ id \in IDs(d) /\ in.expected = d.chunks[id].revision
                       /\ in.key # Nil => in.key = d.chunks[id].key
        /\ in.restore # Nil => HasRevision(d, id, in.restore)
    BY DEF Writable, AtRevision
  <1>4. in.restore = Nil => text.content = in.content /\ text.purpose = in.purpose
    BY DEF TextOf
  <1>5. in.restore # Nil =>
          LET prior == RevisionOf(d, id, in.restore)
          IN  /\ text.content = prior.content /\ text.title = prior.title /\ text.tags = prior.tags
              /\ text.type = prior.type /\ text.purpose = prior.purpose
    BY DEF TextOf
  <1> HIDE DEF text
  <1>6. vec \in {Nil, text.content}
    <2>1. CASE vector # Nil \/ in.restore = Nil
      BY <1>2, <2>1 DEF EmbeddingOf
    <2>2. CASE vector = Nil /\ in.restore # Nil
      <3>1. id \in IDs(d) /\ HasRevision(d, id, in.restore)
        BY <1>3, <2>2
      <3>2. vec = RevisionOf(d, id, in.restore).embedding
        BY <2>2 DEF EmbeddingOf
      <3> QED BY <1>5, <2>2, <3>1, <3>2, OwnVersion
    <2> QED BY <2>1, <2>2
  <1> HIDE DEF vec, id
  <1>7. id # Nil => d.chunks[id].revision \in Nat \ {0}
    BY <1>3, SoundTypes
  <1>8. in.expected = (IF row.revision = 1 THEN Nil ELSE row.revision - 1)
    BY <1>1, <1>3, <1>7
  <1> QED BY <1>1, <1>3, <1>4, <1>5, <1>6, <1>8 DEF Says, row, id

\* An acknowledged write keeps every promise.  Without a duplicate it is a change
\* to the record of its receipt.
LEMMA WritePromise ==
  ASSUME NEW d, Promise(d), NEW request \in Requests, request \notin DOMAIN d.requests,
         NEW in \in WriteInputs, NEW vector \in Contents \cup {Nil},
         Writable(d, in, vector), Embeds(d, in, vector), in.provenance.source = "own"
  PROVE  LET e   == WriteTx(d, request, in, vector)
             row == WrittenRow(d, in, vector)
             rc  == WriteReceipt(d, in, row)
         IN  /\ Promise(e) /\ Advances(d, e) /\ Adds(d, e, request, in, rc)
             /\ rc \in Receipts
             /\ ~Deduplicates(d, in, row) => /\ Change(d, e, rc.id, row) /\ ~rc.deduplicated
                                             /\ rc.revision = row.revision
  <1> DEFINE e   == WriteTx(d, request, in, vector)
             row == WrittenRow(d, in, vector)
             sel == Selected(d, in)
             rc  == WriteReceipt(d, in, row)
  <1>1. Sound(d) /\ OwnEmbedding(d) /\ TypeCorrect(d)
    BY DEF Promise, Sound, Versioned
  <1>2. Says(d, in, row, sel)
    BY <1>1, WriteSays
  <1>3. in.op = "write" /\ in.provenance \in Provenances
    BY DEF WriteInputs
  <1>4. CASE Deduplicates(d, in, row)
    <2>1. /\ e = Acknowledge(d, request, in, rc) /\ rc \in Receipts /\ rc.deduplicated
          /\ rc.id \in IDs(d) /\ rc.revision = d.chunks[rc.id].revision /\ rc.id \in Exact(d, row, 0)
      BY <1>1, <1>4, WriteDuplicate
    <2>2. sel = Nil
      BY <1>4 DEF Deduplicates
    <2>3. in.restore = Nil /\ \A i \in Exact(d, row, 0) : d.chunks[i].key = in.key
      BY <2>2 DEF Writable
    <2> HIDE DEF row, rc, sel
    <2>4. Sound(e) /\ SameTables(d, e) /\ Adds(d, e, request, in, rc)
      BY <1>1, <2>1, AcknowledgeAdds
    <2> HIDE DEF e
    <2> DEFINE c == d.chunks[rc.id]
    <2>5. c.key = in.key /\ Identity(c) = Identity(row)
      BY <2>1, <2>3 DEF Exact, SameIdentity
    <2>6. c.scope = in.scope /\ c.confirmed = in.confirmed /\ c.content = in.content /\ c.purpose = in.purpose
      BY <1>2, <2>3, <2>5 DEF Identity, Says
    <2>7. rc.id \in IDs(e) /\ e.chunks[rc.id] = c
      BY <2>1, <2>4 DEF SameTables, IDs
    <2>8. KeptFor(e, in, rc)
      BY <1>3, <2>1, <2>3, <2>5, <2>6, <2>7 DEF KeptFor, HasRevision, RevisionOf
    <2>9. ConservedFor(e, in, rc)
      BY <1>3 DEF ConservedFor
    <2>10. Promise(e)
      BY <2>1, <2>4, <2>8, <2>9, ReceiptPromise
    <2>11. Advances(d, e)
      BY <1>1, <2>1, <2>4, ReceiptAdvances
    <2> QED BY <1>4, <2>1, <2>4, <2>10, <2>11 DEF e, row, rc
  <1>5. CASE ~Deduplicates(d, in, row)
    <2>1. /\ e = Acknowledge(Settled(d, rc.id, row, in.provenance), request, in, rc)
          /\ Puts(d, rc.id, row)
          /\ rc = [id |-> rc.id, revision |-> row.revision, deduplicated |-> FALSE]
          /\ rc \in Receipts
          /\ rc.id \in IDs(d) <=> sel # Nil
          /\ rc.id \in IDs(d) => rc.id = sel
      BY <1>1, <1>5, WritePuts
    <2>2. sel # Nil => d.chunks[sel].scope = in.scope
      BY DEF Writable
    <2>3. in.restore # Nil => sel # Nil
      BY DEF Writable
    <2> HIDE DEF row, rc, sel
    <2>4. rc.revision = row.revision /\ ~rc.deduplicated
      BY <2>1
    <2>5. Sound(e) /\ Change(d, e, rc.id, row) /\ Adds(d, e, request, in, rc)
      BY <1>1, <1>3, <2>1, SettledAdds
    <2> HIDE DEF e
    <2>6. rc.id \in IDs(e) /\ e.chunks[rc.id] = row
      BY <2>5 DEF Change
    <2>7. in.restore # Nil => /\ Stored(e, rc.id, in.restore)
                              /\ e.revisions[<<rc.id, in.restore>>] = RevisionOf(d, sel, in.restore)
      <3> SUFFICES ASSUME in.restore # Nil
                   PROVE  /\ Stored(e, rc.id, in.restore)
                          /\ e.revisions[<<rc.id, in.restore>>] = RevisionOf(d, rc.id, in.restore)
        BY <2>1, <2>3
      <3>1. rc.id \in IDs(d) /\ HasRevision(d, rc.id, in.restore)
        BY <1>2, <2>1, <2>3 DEF Says
      <3>2. CASE in.restore = d.chunks[rc.id].revision
        BY <2>5, <3>1, <3>2 DEF Change, RevisionOf
      <3>3. CASE in.restore # d.chunks[rc.id].revision
        <4>1. <<rc.id, in.restore>> \in DOMAIN d.revisions
          BY <3>1, <3>3 DEF HasRevision
        <4> QED BY <2>5, <3>3, <4>1 DEF Change, Persists, Stored, RevisionOf
      <3> QED BY <3>2, <3>3
    <2>8. HasRevision(e, rc.id, rc.revision) /\ RevisionOf(e, rc.id, rc.revision) = row
      BY <2>4, <2>6 DEF HasRevision, RevisionOf
    <2>9. KeptFor(e, in, rc)
      BY <1>2, <1>3, <2>6, <2>7, <2>8 DEF KeptFor, Says
    <2>10. Promise(e)
      BY <1>2, <1>3, <2>4, <2>5, <2>9, ChangePromise DEF Says
    <2>11. rc.id \in IDs(d) => d.chunks[rc.id].scope = row.scope
      BY <1>2, <2>1, <2>2 DEF Says
    <2>12. Advances(d, e)
      BY <1>1, <1>2, <1>3, <2>4, <2>5, <2>11, ChangeAdvances DEF Says
    <2> QED BY <2>1, <2>4, <2>5, <2>10, <2>12 DEF e, row, rc
  <1> QED BY <1>4, <1>5

\* So does an acknowledged archive request whose note, if it has one, is true.
LEMMA ArchivePromise ==
  ASSUME NEW d, Promise(d), NEW request \in Requests, request \notin DOMAIN d.requests,
         NEW in \in ArchiveInputs, Archivable(d, in),
         in.provenance.source = "own" \/ NoteTrue(d, in.id, ArchivedRow(d, in)),
         in.provenance.source = "own" \/ ~d.chunks[in.id].archived
  PROVE  LET e   == ArchiveTx(d, request, in)
             row == ArchivedRow(d, in)
             rc  == [id |-> in.id, revision |-> row.revision, deduplicated |-> FALSE]
         IN  /\ Promise(e) /\ Advances(d, e) /\ Adds(d, e, request, in, rc)
             /\ Change(d, e, in.id, row)
  <1> DEFINE e   == ArchiveTx(d, request, in)
             row == ArchivedRow(d, in)
             rc  == [id |-> in.id, revision |-> row.revision, deduplicated |-> FALSE]
             old == d.chunks[in.id]
  <1>1. Sound(d) /\ OwnEmbedding(d)
    BY DEF Promise
  <1>2. /\ e = Acknowledge(Settled(d, in.id, row, in.provenance), request, in, rc)
        /\ Puts(d, in.id, row) /\ rc \in Receipts
        /\ row.archived = in.archived /\ row.provenance = in.provenance
        /\ row.scope = in.scope /\ row.revision = old.revision + 1
        /\ row.content = old.content /\ row.embedding = old.embedding
    BY <1>1, ArchivePuts
  <1>3. in.id \in IDs(d) /\ in.expected = old.revision /\ old.scope = in.scope
    BY DEF Archivable, AtRevision
  <1>4. in.op = "archive" /\ in.provenance \in Provenances
    BY DEF ArchiveInputs
  <1>5. rc.id = in.id /\ rc.revision = row.revision /\ ~rc.deduplicated
    OBVIOUS
  <1>6. /\ row.provenance.source = "own" \/ NoteTrue(d, in.id, row)
        /\ row.provenance.source = "own" \/ ~old.archived
    BY <1>2
  <1> HIDE DEF row, rc
  <1>7. Sound(e) /\ Change(d, e, in.id, row) /\ Adds(d, e, request, in, rc)
    BY <1>1, <1>2, <1>4, SettledAdds
  <1> HIDE DEF e
  <1>8. in.id \in IDs(e) /\ e.chunks[in.id] = row
    BY <1>7 DEF Change
  <1>9. KeptFor(e, in, rc)
    BY <1>2, <1>4, <1>5, <1>8 DEF KeptFor, HasRevision, RevisionOf
  <1>10. in.expected = (IF row.revision = 1 THEN Nil ELSE row.revision - 1)
    <2>1. old.revision \in Nat \ {0}
      BY <1>1, <1>3, SoundTypes
    <2> QED BY <1>2, <1>3, <2>1
  <1>11. row.embedding \in {Nil, row.content}
    BY <1>1, <1>2, <1>3 DEF OwnEmbedding
  <1>12. Promise(e)
    BY <1>4, <1>5, <1>6, <1>7, <1>9, <1>10, <1>11, ChangePromise
  <1>13. Advances(d, e)
    BY <1>1, <1>2, <1>3, <1>4, <1>5, <1>7, ChangeAdvances
  <1> QED BY <1>7, <1>12, <1>13 DEF e, row, rc

\* Two halves of a step: the second moves one row on that the first left alone.
LEMMA AdvancesCompose ==
  ASSUME NEW d, Sound(d), NEW w, Sound(w), NEW e, Advances(d, w), Advances(w, e), e.last = w.last,
         NEW a \in IDs(d), w.chunks[a] = d.chunks[a],
         \A i \in IDs(w) \ {a} : e.chunks[i] = w.chunks[i],
         \A q \in DOMAIN w.requests \ DOMAIN d.requests : w.requests[q].receipt.id # a
  PROVE  Advances(d, e)
  <1>1. Persists(d, e)
    <2>1. Persists(d, w) /\ Persists(w, e)
      BY DEF Advances
    <2>2. ASSUME NEW i \in IDs(d)
          PROVE  /\ i \in IDs(e) /\ e.chunks[i].scope = d.chunks[i].scope
                 /\ d.chunks[i].revision <= e.chunks[i].revision
      <3>1. i \in IDs(w) /\ d.chunks[i].revision \in Nat /\ w.chunks[i].revision \in Nat
        BY <2>1, SoundTypes DEF Persists
      <3>2. i = a \/ e.chunks[i] = w.chunks[i]
        BY <3>1
      <3>3. e.chunks[i].revision \in {w.chunks[i].revision, w.chunks[i].revision + 1}
        BY <3>1 DEF Advances
      <3> QED BY <2>1, <3>1, <3>3 DEF Persists
    <2> QED BY <2>1, <2>2 DEF Persists
  <1>2. IDs(e) = IDs(w) /\ e.last \in {d.last, d.last + 1} /\ IDs(d) \subseteq IDs(w)
    BY DEF Advances, IDs, Persists
  <1>3. \A i \in IDs(e) \ IDs(d) : e.chunks[i].revision = 1
    BY <1>2 DEF Advances
  <1>4. /\ \A q \in DOMAIN d.requests : q \in DOMAIN e.requests /\ e.requests[q] = d.requests[q]
        /\ DOMAIN e.requests \ DOMAIN d.requests # {}
        /\ \A q \in DOMAIN w.requests : q \in DOMAIN e.requests /\ e.requests[q] = w.requests[q]
    BY DEF Advances
  <1>5. ASSUME NEW i \in IDs(d), e.chunks[i] # d.chunks[i]
        PROVE  /\ e.chunks[i].revision = d.chunks[i].revision + 1
               /\ \E q \in DOMAIN e.requests \ DOMAIN d.requests :
                    e.requests[q].input.op # "move" /\ e.requests[q].input.scope = d.chunks[i].scope
    <2>1. CASE i = a
      <3>1. e.chunks[a] # w.chunks[a] /\ a \in IDs(w)
        BY <1>2, <1>5, <2>1
      <3>2. e.chunks[a].revision = w.chunks[a].revision + 1
        BY <3>1 DEF Advances
      <3>3. PICK q \in DOMAIN e.requests \ DOMAIN w.requests :
              e.requests[q].input.op # "move" /\ e.requests[q].input.scope = w.chunks[a].scope
        BY <3>1 DEF Advances
      <3>4. q \in DOMAIN e.requests \ DOMAIN d.requests
        BY DEF Advances
      <3> QED BY <2>1, <3>2, <3>3, <3>4
    <2>2. CASE i # a
      <3>1. e.chunks[i] = w.chunks[i] /\ w.chunks[i] # d.chunks[i]
        BY <1>2, <1>5, <2>2
      <3>2. w.chunks[i].revision = d.chunks[i].revision + 1
        BY <3>1 DEF Advances
      <3>3. PICK q \in DOMAIN w.requests \ DOMAIN d.requests :
              w.requests[q].input.op # "move" /\ w.requests[q].input.scope = d.chunks[i].scope
        BY <3>1 DEF Advances
      <3> QED BY <1>4, <3>1, <3>2, <3>3
    <2> QED BY <2>1, <2>2
  <1>6. ASSUME NEW q \in DOMAIN e.requests \ DOMAIN d.requests
        PROVE  /\ e.requests[q].receipt.id \in IDs(e)
               /\ e.requests[q].receipt.revision = e.chunks[e.requests[q].receipt.id].revision
    <2>1. CASE q \in DOMAIN w.requests
      <3>1. e.requests[q] = w.requests[q] /\ w.requests[q].receipt.id \in IDs(w) \ {a}
            /\ w.requests[q].receipt.revision = w.chunks[w.requests[q].receipt.id].revision
        BY <1>4, <2>1 DEF Advances
      <3> QED BY <1>2, <3>1
    <2>2. CASE q \notin DOMAIN w.requests
      BY <2>2 DEF Advances
    <2> QED BY <2>1, <2>2
  <1> QED BY <1>1, <1>2, <1>3, <1>4, <1>5, <1>6 DEF Advances

\* The copy a move stores says what the original says, and is embedded from it.
CopyOf(old, row, target) ==
  /\ row.scope = target /\ ~row.archived /\ row.key = old.key /\ row.provenance = old.provenance
  /\ row.content = old.content /\ row.title = old.title /\ row.tags = old.tags /\ row.type = old.type
  /\ row.purpose = old.purpose /\ row.confirmed = old.confirmed

LEMMA CopyText ==
  ASSUME NEW d, Sound(d), NEW in \in MoveInputs, NEW vector, Movable(d, in, vector),
         vector \in {Nil, d.chunks[in.id].content}
  PROVE  LET copy == CopyInput(d, in)
         IN  /\ Embeds(d, copy, vector) /\ copy.provenance = d.chunks[in.id].provenance
             /\ CopyOf(d.chunks[in.id], WrittenRow(d, copy, vector), in.target)
  <1> DEFINE copy   == CopyInput(d, in)
             old    == d.chunks[in.id]
             holder == IF old.key = Nil THEN {} ELSE Holders(d, in.target, old.key)
             id     == IF holder = {} THEN Nil ELSE CHOOSE i \in holder : TRUE
             row    == WrittenRow(d, copy, vector)
             sel    == Selected(d, copy)
  <1>1. old \in Rows /\ in.id \in IDs(d)
    BY SoundTypes DEF Movable
  <1>2. /\ copy.scope = in.target /\ copy.content = old.content /\ copy.title = old.title
        /\ copy.tags = old.tags /\ copy.type = old.type /\ copy.purpose = old.purpose
        /\ copy.confirmed = old.confirmed /\ copy.provenance = old.provenance /\ copy.key = old.key
        /\ copy.id = id /\ copy.restore = Nil
    BY DEF CopyInput
  <1>3. id # Nil => id \in Holders(d, in.target, old.key)
    OBVIOUS
  <1> HIDE DEF copy, id
  <1>4. /\ old.content \in Contents /\ old.title \in Titles /\ old.tags \in Tags /\ old.type \in Types
    BY <1>1 DEF Rows
  <1>5. old.tags # Nil /\ old.type # Nil
    BY <1>4, ConstantsAssumption
  <1>6. sel # Nil => d.chunks[sel].key = old.key
    <2>1. CASE id # Nil
      <3>1. sel = id
        BY <1>2, <2>1 DEF Selected
      <3> QED BY <1>3, <2>1, <3>1 DEF Holders
    <2>2. CASE id = Nil /\ old.key # Nil
      BY <1>2, <2>2 DEF Selected, Holders
    <2>3. CASE id = Nil /\ old.key = Nil
      BY <1>2, <2>3 DEF Selected
    <2> QED BY <2>1, <2>2, <2>3
  <1> HIDE DEF sel
  <1>7. LET text == TextOf(d, sel, copy)
        IN  /\ text.content = old.content /\ text.title = old.title /\ text.tags = old.tags
            /\ text.type = old.type /\ text.purpose = old.purpose
    BY <1>2, <1>4, <1>5 DEF TextOf, CorrectedTitle
  <1>8. Embeds(d, copy, vector)
    BY <1>7 DEF Embeds, sel
  <1>9. CopyOf(old, row, in.target)
    BY <1>2, <1>6, <1>7 DEF WrittenRow, CopyOf, sel
  <1> QED BY <1>2, <1>8, <1>9 DEF copy

\* A version is the one that was read.
VersionIs(d, i, k, v) == Stored(d, i, k) /\ d.revisions[<<i, k>>] = v

\* What a move leaves, read from the versions it made.
LEMMA MovedConserves ==
  ASSUME NEW e, NEW in, NEW rc, NEW old, NEW left, NEW row, in.op = "move",
         VersionIs(e, in.id, in.expected, old), VersionIs(e, in.id, in.expected + 1, left),
         VersionIs(e, rc.id, rc.revision, row),
         old \in Rows, row \in Rows,
         ~old.archived, left.archived, left.provenance.source = "moved", left.provenance.ref = rc.id,
         CopyOf(old, row, in.target)
  PROVE  ConservedFor(e, in, rc)
  <1>1. Identity([row EXCEPT !.scope = old.scope]) = Identity(old)
    <2> DEFINE s == old.scope
               back == [row EXCEPT !.scope = s]
    <2>1. /\ back.scope = s /\ back.type = row.type /\ back.purpose = row.purpose
          /\ back.confirmed = row.confirmed /\ back.content = row.content /\ back.title = row.title
          /\ back.tags = row.tags
      BY DEF Rows
    <2> HIDE DEF back
    <2> QED BY <2>1 DEF Identity, CopyOf, back
  <1> QED BY <1>1 DEF ConservedFor, VersionIs, CopyOf

\* A version stays what it is.
LEMMA VersionPersists ==
  ASSUME NEW d, NEW e, Persists(d, e), NEW i, NEW k, NEW v, VersionIs(d, i, k, v)
  PROVE  VersionIs(e, i, k, v)
  BY DEF VersionIs, Persists, Stored

\* The note a move leaves on the original.
MovedNote(by, id) == [by |-> by.by, source |-> "moved", ref |-> id]

LEMMA MovedNoteType ==
  ASSUME NEW by \in Provenances, NEW id \in Nat
  PROVE  MovedNote(by, id) \in Provenances /\ MovedNote(by, id).source = "moved" /\ MovedNote(by, id).ref = id
  BY DEF MovedNote, Provenances

\* A request ID that was never acknowledged, not even as half of a move.
Fresh(d, r) == \A part \in {"", ":copy", ":archive"} : <<r, part>> \notin DOMAIN d.requests

\* A move keeps every promise: the copy, the archived original, the receipt.
LEMMA MovePromise ==
  ASSUME NEW d, Promise(d), NEW r \in RequestIDs, Fresh(d, r),
         NEW in \in MoveInputs, NEW vector \in Contents \cup {Nil},
         vector \in {Nil, d.chunks[in.id].content}, Movable(d, in, vector)
  PROVE  LET e == MoveTx(d, r, in, vector)
         IN  /\ Promise(e) /\ Advances(d, e)
             /\ DOMAIN e.requests = DOMAIN d.requests \cup {<<r, "">>, <<r, ":copy">>, <<r, ":archive">>}
  <1> DEFINE copy   == CopyInput(d, in)
             row    == WrittenRow(d, copy, vector)
             rc     == WriteReceipt(d, copy, row)
             copied == WriteTx(d, <<r, ":copy">>, copy, vector)
             away   == RetiredInput(d, in, rc)
             left   == ArchivedRow(copied, away)
             moved  == ArchiveTx(copied, <<r, ":archive">>, away)
             arc    == [id |-> away.id, revision |-> left.revision, deduplicated |-> FALSE]
             old    == d.chunks[in.id]
             a      == in.id
             e      == MoveTx(d, r, in, vector)
             note   == MovedNote(in.provenance, rc.id)
  <1>0. Sound(d) /\ NotesCurrent(d) /\ TypeCorrect(d)
    BY DEF Promise, Sound, Versioned
  <1>1. <<r, "">> \in Requests /\ <<r, ":copy">> \in Requests /\ <<r, ":archive">> \in Requests
    BY DEF Requests
  <1>2. e = Acknowledge(moved, <<r, "">>, in, rc)
    BY DEF MoveTx
  <1>3. /\ a \in IDs(d) /\ in.target # old.scope /\ Writable(d, copy, vector) /\ ~Deduplicates(d, copy, row)
        /\ ~old.archived /\ in.expected = old.revision
    BY DEF Movable, AtRevision
  <1>4. old \in Rows /\ a \in Nat \ {0} /\ old.revision \in Nat \ {0} /\ old.provenance.source = "own"
    BY <1>0, <1>3, SoundTypes DEF NotesCurrent
  <1>5. /\ Embeds(d, copy, vector) /\ copy.provenance = old.provenance /\ CopyOf(old, row, in.target)
    BY <1>0, CopyText
  <1>6. copy \in WriteInputs /\ copy.scope = in.target
    BY <1>0, <1>3, CopyInputType
  <1>7. in.op = "move" /\ in.provenance \in Provenances
    BY DEF MoveInputs
  <1>8. /\ away.op = "archive" /\ away.scope = old.scope /\ away.id = a /\ away.expected = old.revision
        /\ away.archived = TRUE /\ away.provenance = note
        /\ away = [op |-> "archive", scope |-> old.scope, id |-> a, expected |-> old.revision,
                   archived |-> TRUE, provenance |-> note]
    BY DEF RetiredInput, MovedNote
  <1> HIDE DEF copy, e
  <1>9. /\ Promise(copied) /\ Advances(d, copied) /\ Adds(d, copied, <<r, ":copy">>, copy, rc)
        /\ rc \in Receipts /\ Change(d, copied, rc.id, row) /\ ~rc.deduplicated
        /\ rc.revision = row.revision
    <2>1. <<r, ":copy">> \notin DOMAIN d.requests
      BY DEF Fresh
    <2>2. copy.provenance.source = "own"
      BY <1>4, <1>5
    <2>3. /\ Promise(d) /\ <<r, ":copy">> \in Requests /\ <<r, ":copy">> \notin DOMAIN d.requests
          /\ copy \in WriteInputs /\ vector \in Contents \cup {Nil}
          /\ Writable(d, copy, vector) /\ Embeds(d, copy, vector) /\ ~Deduplicates(d, copy, row)
      BY <1>1, <1>3, <1>5, <1>6, <2>1
    <2> QED BY <2>2, <2>3, WritePromise
  <1>10. copied.chunks[a] = old
    <2>1. in.id \in IDs(d) /\ d.chunks[in.id].scope # copy.scope
      BY <1>3, <1>6
    <2>2. \A i \in IDs(d) : d.chunks[i].scope # copy.scope => copied.chunks[i] = d.chunks[i]
      <3>1. Writable(d, copy, vector) /\ copy \in WriteInputs /\ <<r, ":copy">> \in Requests /\ Sound(d)
        BY <1>0, <1>1, <1>3, <1>6
      <3> QED BY <3>1, WriteSound
    <2> QED BY <2>1, <2>2
  <1>11. row \in Rows
    BY <1>0, <1>3, <1>6, WrittenRowType DEF Follows
  <1> HIDE DEF row, rc, copied, note
  <1>12. rc.id \in IDs(copied) /\ copied.chunks[rc.id] = row /\ a \in IDs(copied)
         /\ VersionIs(copied, rc.id, row.revision, row)
    BY <1>3, <1>9 DEF Change, Persists, VersionIs
  <1>13. rc.id # a
    BY <1>3, <1>5, <1>10, <1>12 DEF CopyOf
  <1>14. note \in Provenances /\ note.source = "moved" /\ note.ref = rc.id
    BY <1>7, <1>9, MovedNoteType DEF Receipts, note
  <1>15. away \in ArchiveInputs
    <2>1. old.scope \in Scopes
      BY <1>4 DEF Rows
    <2> HIDE DEF old, a, away
    <2> QED BY <1>4, <1>8, <1>14, <2>1 DEF ArchiveInputs
  <1> HIDE DEF away
  <1>16. Archivable(copied, away)
    BY <1>8, <1>10, <1>12 DEF Archivable, AtRevision
  <1>17. Sound(copied)
    BY <1>9 DEF Promise
  <1>18. /\ left.archived = TRUE /\ left.provenance = note /\ left.scope = old.scope
         /\ left.revision = old.revision + 1 /\ left.content = old.content
    <2>1. /\ left.archived = away.archived /\ left.provenance = away.provenance /\ left.scope = away.scope
          /\ left.revision = copied.chunks[away.id].revision + 1
          /\ left.content = copied.chunks[away.id].content
      BY <1>15, <1>16, <1>17, ArchivePuts
    <2> HIDE DEF left
    <2> QED BY <2>1, <1>8, <1>10
  <1>19. NoteTrue(copied, a, left)
    <2> HIDE DEF left, old
    <2>1. row.revision \in 1 .. copied.chunks[rc.id].revision
      <3>1. copied.chunks[rc.id].revision \in Nat \ {0}
        BY <1>12, <1>17, SoundTypes
      <3>2. copied.chunks[rc.id] = row
        BY <1>12
      <3>3. row.revision \in Nat \ {0}
        BY <3>1, <3>2
      <3> QED BY <3>2, <3>3
    <2>2. row.content = left.content /\ copied.chunks[rc.id].scope # left.scope
      BY <1>3, <1>5, <1>12, <1>18 DEF CopyOf
    <2>3. Stored(copied, rc.id, row.revision) /\ copied.revisions[<<rc.id, row.revision>>] = row
      BY <1>12 DEF VersionIs
    <2> QED BY <1>12, <1>13, <1>14, <1>18, <2>1, <2>2, <2>3 DEF NoteTrue
  <1>20. <<r, ":archive">> \notin DOMAIN copied.requests
    BY <1>9 DEF Adds, Fresh
  <1>21. /\ Promise(moved) /\ Advances(copied, moved) /\ Adds(copied, moved, <<r, ":archive">>, away, arc)
         /\ Change(copied, moved, a, left)
    BY <1>1, <1>3, <1>8, <1>9, <1>10, <1>15, <1>16, <1>19, <1>20, ArchivePromise
  <1> HIDE DEF moved, left, arc
  <1>22. Sound(moved) /\ Persists(copied, moved)
    BY <1>21 DEF Promise, Change
  <1>23. \A i \in IDs(copied) \ {a} : moved.chunks[i] = copied.chunks[i]
    BY <1>18, <1>21 DEF Change, IsRetired
  <1>24. <<r, "">> \notin DOMAIN moved.requests
    BY <1>9, <1>21 DEF Adds, Fresh
  <1>25. Sound(e) /\ SameTables(moved, e) /\ Adds(moved, e, <<r, "">>, in, rc)
    BY <1>1, <1>2, <1>9, <1>22, <1>24, AcknowledgeAdds
  <1>26. /\ VersionIs(moved, a, old.revision, old) /\ VersionIs(moved, a, left.revision, left)
         /\ VersionIs(moved, rc.id, rc.revision, row)
    <2>1. VersionIs(moved, rc.id, rc.revision, row)
      BY <1>9, <1>12, <1>22, VersionPersists
    <2> QED BY <2>1, <1>10, <1>12, <1>21 DEF Change, VersionIs
  <1>27. rc.id \in IDs(moved) /\ moved.chunks[rc.id] = row
    BY <1>12, <1>13, <1>22, <1>23 DEF Persists
  <1>28. /\ VersionIs(e, a, old.revision, old) /\ VersionIs(e, a, left.revision, left)
         /\ VersionIs(e, rc.id, rc.revision, row)
         /\ rc.id \in IDs(e) /\ e.chunks[rc.id] = row
    BY <1>25, <1>26, <1>27 DEF SameTables, VersionIs, Stored, IDs
  <1>29. ConservedFor(e, in, rc)
    <2>1. VersionIs(e, a, in.expected, old) /\ VersionIs(e, a, in.expected + 1, left)
      BY <1>3, <1>18, <1>28
    <2> HIDE DEF old
    <2> QED BY <1>3, <1>4, <1>5, <1>7, <1>11, <1>14, <1>18, <1>28, <2>1, MovedConserves
  <1>30. KeptFor(e, in, rc)
    BY <1>7, <1>9, <1>28 DEF KeptFor, HasRevision
  <1>31. Stored(moved, rc.id, rc.revision) /\ <<r, ":copy">> \in MadeBy(moved, rc.id, rc.revision)
    <2>1. <<r, ":copy">> \in DOMAIN moved.requests /\ moved.requests[<<r, ":copy">>].receipt = rc
      BY <1>9, <1>21 DEF Adds
    <2> QED BY <2>1, <1>9, <1>26 DEF MadeBy, VersionIs
  <1>32. \E s \in MadeBy(moved, rc.id, rc.revision) : s[1] = <<r, "">>[1]
    BY <1>31
  <1>33. Promise(e)
    BY <1>7, <1>21, <1>25, <1>29, <1>30, <1>31, <1>32, ReceiptPromise
  <1>34. moved.last = copied.last
    BY <1>12, <1>21 DEF Change
  <1>35. \A q \in DOMAIN copied.requests \ DOMAIN d.requests : copied.requests[q].receipt.id # a
    BY <1>9, <1>13 DEF Adds
  <1>36. Advances(d, moved)
    <2>1. Advances(d, copied) /\ Advances(copied, moved)
      BY <1>9, <1>21
    <2>2. in.id \in IDs(d) /\ copied.chunks[in.id] = d.chunks[in.id]
      BY <1>3, <1>10
    <2>3. /\ \A i \in IDs(copied) \ {in.id} : moved.chunks[i] = copied.chunks[i]
          /\ \A q \in DOMAIN copied.requests \ DOMAIN d.requests : copied.requests[q].receipt.id # in.id
      BY <1>23, <1>35
    <2>4. Sound(d) /\ Sound(copied) /\ moved.last = copied.last
      BY <1>0, <1>17, <1>34
    <2> HIDE DEF old, a
    <2> QED BY <2>1, <2>2, <2>3, <2>4, AdvancesCompose
  <1>37. Advances(d, e)
    <2>1. rc.id \in IDs(moved) /\ rc.revision = moved.chunks[rc.id].revision
      BY <1>9, <1>27
    <2> QED BY <1>0, <1>25, <1>36, <2>1, ReceiptAdvances
  <1>38. DOMAIN e.requests = DOMAIN d.requests \cup {<<r, "">>, <<r, ":copy">>, <<r, ":archive">>}
    BY <1>9, <1>21, <1>25 DEF Adds
  <1> QED BY <1>33, <1>37, <1>38 DEF e

----------------------------------------------------------------------------
(***************************************************************************)
(* Every step keeps the promises.                                          *)
(***************************************************************************)

\* The halves of a move were acknowledged with the move.
Whole(d) == \A q \in DOMAIN d.requests : <<q[1], "">> \in DOMAIN d.requests

LEMMA UnusedFresh ==
  ASSUME NEW d, Whole(d), NEW r, Unused(d, r)
  PROVE  Fresh(d, r)
  BY DEF Whole, Unused, Fresh

LEMMA WholeGrows ==
  ASSUME NEW d, Whole(d), NEW e, NEW r, NEW new, <<r, "">> \in new, \A q \in new : q[1] = r,
         DOMAIN e.requests = DOMAIN d.requests \cup new
  PROVE  Whole(e)
  <1> SUFFICES ASSUME NEW q \in DOMAIN e.requests PROVE <<q[1], "">> \in DOMAIN e.requests
    BY DEF Whole
  <1>1. CASE q \in new
    <2>1. q[1] = r
      BY <1>1
    <2> QED BY <2>1
  <1>2. CASE q \in DOMAIN d.requests
    BY <1>2 DEF Whole
  <1> QED BY <1>1, <1>2

LEMMA InitPromise ==
  ASSUME Init
  PROVE  Promise(db) /\ Whole(db)
  <1>1. /\ db.last = ImportedCount /\ db.chunks = ImportedRows
        /\ DOMAIN db.revisions = {} /\ DOMAIN db.requests = {}
    BY DEF Init
  <1>2. OwnEmbedding(db)
    BY <1>1, ImportedAssumption DEF OwnEmbedding, IDs
  <1>3. Notes(db) /\ NotesCurrent(db)
    BY <1>1, ImportedAssumption DEF Notes, NotesCurrent, IDs
  <1>4. Kept(db) /\ AppliedOnce(db) /\ Receipted(db) /\ Conserved(db) /\ Whole(db)
    BY <1>1 DEF Kept, AppliedOnce, Receipted, Conserved, Whole
  <1> QED BY <1>2, <1>3, <1>4, InitSound DEF Promise

LEMMA KindPromise ==
  ASSUME Promise(db), Whole(db), NEW r \in RequestIDs, Unused(db, r),
         Writes(db, db', r) \/ Archives(db, db', r) \/ Moves(db, db', r)
  PROVE  Promise(db') /\ Whole(db') /\ Advances(db, db')
  <1>1. Unused(db, r)
    OBVIOUS
  <1>2. <<r, "">> \in Requests /\ <<r, "">> \notin DOMAIN db.requests
    BY <1>1 DEF Requests, Unused
  <1>3. ASSUME NEW in, NEW rc, Adds(db, db', <<r, "">>, in, rc) PROVE Whole(db')
    <2>1. DOMAIN db'.requests = DOMAIN db.requests \cup {<<r, "">>}
      BY <1>3 DEF Adds
    <2>2. <<r, "">> \in {<<r, "">>} /\ \A q \in {<<r, "">>} : q[1] = r
      OBVIOUS
    <2> QED BY <2>1, <2>2, WholeGrows
  <1>4. ASSUME Writes(db, db', r) PROVE Promise(db') /\ Whole(db') /\ Advances(db, db')
    <2>1. PICK in \in WriteInputs, vector \in Contents \cup {Nil} :
            /\ in.provenance.source = "own" /\ Embeds(db, in, vector)
            /\ Writable(db, in, vector) /\ db' = WriteTx(db, <<r, "">>, in, vector)
      BY <1>4 DEF Writes
    <2> DEFINE rc == WriteReceipt(db, in, WrittenRow(db, in, vector))
    <2>2. Promise(db') /\ Advances(db, db') /\ Adds(db, db', <<r, "">>, in, rc)
      BY <1>2, <2>1, WritePromise
    <2> HIDE DEF rc
    <2> QED BY <1>3, <2>2
  <1>5. ASSUME Archives(db, db', r) PROVE Promise(db') /\ Whole(db') /\ Advances(db, db')
    <2>1. PICK in \in ArchiveInputs :
            in.provenance.source = "own" /\ Archivable(db, in) /\ db' = ArchiveTx(db, <<r, "">>, in)
      BY <1>5 DEF Archives
    <2> DEFINE rc == [id |-> in.id, revision |-> ArchivedRow(db, in).revision, deduplicated |-> FALSE]
    <2>2. Promise(db') /\ Advances(db, db') /\ Adds(db, db', <<r, "">>, in, rc)
      BY <1>2, <2>1, ArchivePromise
    <2> HIDE DEF rc
    <2> QED BY <1>3, <2>2
  <1>6. ASSUME Moves(db, db', r) PROVE Promise(db') /\ Whole(db') /\ Advances(db, db')
    <2>1. PICK in \in MoveInputs, vector \in Contents \cup {Nil} :
            /\ vector \in {Nil, db.chunks[in.id].content}
            /\ Movable(db, in, vector) /\ db' = MoveTx(db, r, in, vector)
      BY <1>6 DEF Moves
    <2>2. Fresh(db, r)
      BY <1>1, UnusedFresh
    <2>3. /\ Promise(db') /\ Advances(db, db')
          /\ DOMAIN db'.requests = DOMAIN db.requests \cup {<<r, "">>, <<r, ":copy">>, <<r, ":archive">>}
      BY <2>1, <2>2, MovePromise
    <2>4. Whole(db')
      <3> DEFINE new == {<<r, "">>, <<r, ":copy">>, <<r, ":archive">>}
      <3>1. <<r, "">> \in new /\ \A q \in new : q[1] = r
        OBVIOUS
      <3> QED BY <2>3, <3>1, WholeGrows
    <2> QED BY <2>3, <2>4
  <1> QED BY <1>4, <1>5, <1>6

LEMMA NextPromise ==
  ASSUME Promise(db), Whole(db), Next
  PROVE  Promise(db') /\ Whole(db') /\ Advances(db, db')
  BY StepKinds, KindPromise DEF Promise, Sound, Versioned

\* The promises hold in every reachable database.
THEOREM Promises == Spec => [](Promise(db) /\ Whole(db))
  <1>1. Promise(db) /\ Whole(db) /\ [Next]_db => (Promise(db) /\ Whole(db))'
    <2> SUFFICES ASSUME Promise(db), Whole(db), [Next]_db PROVE Promise(db') /\ Whole(db')
      OBVIOUS
    <2>1. CASE Next
      BY <2>1, NextPromise
    <2>2. CASE UNCHANGED db
      BY <2>2
    <2> QED BY <2>1, <2>2
  <1> QED BY <1>1, InitPromise, PTL DEF Spec

\* A vector always belongs to the text it is stored with, in rows and in history.
THEOREM EmbeddingsOwn == Spec => []EmbeddingOfOwnText
  <1>1. Promise(db) => EmbeddingOfOwnText
    BY DEF Promise, EmbeddingOfOwnText
  <1> QED BY <1>1, Promises, PTL

\* What a note says of a replaced or moved memory stays true for good.
THEOREM NotesStayTrue == Spec => []NotesTruthful
  <1>1. Promise(db) => NotesTruthful
    BY DEF Promise, NotesTruthful
  <1> QED BY <1>1, Promises, PTL

\* The version an acknowledged request was answered with can be read for good and
\* says what the request said.
THEOREM AcknowledgementsKept == Spec => []AcknowledgedKept
  <1>1. Promise(db) => AcknowledgedKept
    BY DEF Promise, AcknowledgedKept
  <1> QED BY <1>1, Promises, PTL

\* Every version was made by one acknowledged request, from the version before it,
\* by the retirement of a handoff, or was there at the start: no lost update.
THEOREM VersionsAccounted == Spec => []EveryVersionAccounted
  <1>1. Promise(db) => EveryVersionAccounted
    BY DEF Promise, EveryVersionAccounted
  <1> QED BY <1>1, Promises, PTL

\* A move neither loses nor doubles a memory.
THEOREM MovesConserve == Spec => []MoveConserves
  <1>1. Promise(db) => MoveConserves
    BY DEF Promise, MoveConserves
  <1> QED BY <1>1, Promises, PTL

\* No row changes but by one revision, in a step that acknowledges a request for
\* its own scope.
THEOREM ChangesAreRequested == Spec => ChangesOnRequest
  <1> DEFINE A == \A i \in IDs(db) : db'.chunks[i] # db.chunks[i] =>
                    /\ db'.chunks[i].revision = db.chunks[i].revision + 1
                    /\ \E q \in DOMAIN db'.requests \ DOMAIN db.requests :
                         /\ db'.requests[q].input.op # "move"
                         /\ db'.requests[q].input.scope = db.chunks[i].scope
  <1>1. Promise(db) /\ Whole(db) /\ [Next]_db => [A]_db
    <2> SUFFICES ASSUME Promise(db), Whole(db), Next PROVE A
      OBVIOUS
    <2>1. Advances(db, db')
      BY NextPromise
    <2> QED BY <2>1 DEF Advances
  <1> HIDE DEF A
  <1>2. Spec => [][A]_db
    BY <1>1, Promises, PTL DEF Spec
  <1> QED BY <1>2 DEF ChangesOnRequest, A

----------------------------------------------------------------------------
(***************************************************************************)
(* The tables implement a VersionedStore.                                  *)
(***************************************************************************)

\* What the refinement reads from the tables.
VersionsOf(d) == [i \in IDs(d) |-> [k \in 1 .. d.chunks[i].revision |-> RevisionOf(d, i, k)]]

ReceiptsOf(d) ==
  [q \in DOMAIN d.requests |-> [id |-> d.requests[q].receipt.id, revision |-> d.requests[q].receipt.revision]]

\* A function on 1 .. n is a sequence of length n.
LEMMA Length ==
  ASSUME NEW n \in Nat, NEW S, NEW f \in [1 .. n -> S]
  PROVE  f \in Seq(S) /\ Len(f) = n
  OBVIOUS

\* Every revision up to the newest can be read.
LEMMA AllReadable ==
  ASSUME NEW d, Sound(d), NEW i \in IDs(d), NEW k \in 1 .. d.chunks[i].revision
  PROVE  HasRevision(d, i, k) /\ RevisionOf(d, i, k) \in Rows
  <1>1. d.chunks[i].revision \in Nat \ {0} /\ History(d) /\ TypeCorrect(d)
    BY SoundTypes
  <1>2. HasRevision(d, i, k)
    <2>1. CASE Untouched(d, i)
      BY <1>1, <2>1 DEF Untouched, HasRevision
    <2>2. CASE ~Untouched(d, i)
      <3>1. <<i, k>> \in DOMAIN d.revisions
        BY <1>1, <2>2 DEF History, Stored
      <3> DEFINE p == <<i, k>>
      <3>2. p[1] = i /\ p[2] = k
        OBVIOUS
      <3> HIDE DEF p
      <3>3. p \in DOMAIN d.revisions
        BY <3>1 DEF p
      <3>4. d.revisions[p].revision = k /\ d.revisions[p].scope = d.chunks[i].scope
        BY <1>1, <3>2, <3>3 DEF History
      <3> QED BY <3>1, <3>4 DEF HasRevision, p
    <2> QED BY <2>1, <2>2
  <1> QED BY <1>1, <1>2, RevisionIsRow

LEMMA VersionsShape ==
  ASSUME NEW d, Sound(d)
  PROVE  LET v == VersionsOf(d)
         IN  /\ Len(v) = d.last /\ d.last \in Nat
             /\ \A i \in IDs(d) : /\ Len(v[i]) = d.chunks[i].revision
                                  /\ \A k \in 1 .. d.chunks[i].revision : v[i][k] = RevisionOf(d, i, k)
  <1> DEFINE v == VersionsOf(d)
  <1>1. ASSUME NEW i \in IDs(d)
        PROVE  /\ Len(v[i]) = d.chunks[i].revision /\ v[i] \in Seq(Rows)
               /\ \A k \in 1 .. d.chunks[i].revision : v[i][k] = RevisionOf(d, i, k)
    <2> DEFINE n == d.chunks[i].revision
    <2>1. v[i] = [k \in 1 .. n |-> RevisionOf(d, i, k)]
      BY DEF VersionsOf
    <2>2. n \in Nat /\ \A k \in 1 .. n : RevisionOf(d, i, k) \in Rows
      BY SoundTypes, AllReadable
    <2> HIDE DEF v, n
    <2>3. v[i] \in [1 .. n -> Rows]
      BY <2>1, <2>2
    <2>4. v[i] \in Seq(Rows) /\ Len(v[i]) = n
      BY <2>2, <2>3, Length
    <2> QED BY <2>1, <2>4 DEF n
  <1>2. d.last \in Nat
    BY SoundTypes
  <1>3. v \in [1 .. d.last -> Seq(Rows)]
    <2>1. DOMAIN v = 1 .. d.last /\ v = [i \in 1 .. d.last |-> v[i]]
      BY DEF VersionsOf, IDs
    <2> HIDE DEF v
    <2> QED BY <1>1, <2>1 DEF IDs
  <1> HIDE DEF v
  <1>4. Len(v) = d.last
    BY <1>2, <1>3, Length
  <1> QED BY <1>1, <1>2, <1>4 DEF v

\* What the store did at most: as VersionedStore's Change, of two databases.
Grows(d, e) ==
  LET v == VersionsOf(d)
      w == VersionsOf(e)
      r == ReceiptsOf(d)
      s == ReceiptsOf(e)
  IN  /\ Len(w) \in {Len(v), Len(v) + 1}
      /\ \A i \in 1 .. Len(v) : /\ Len(w[i]) \in {Len(v[i]), Len(v[i]) + 1}
                                /\ \A k \in 1 .. Len(v[i]) : w[i][k] = v[i][k]
      /\ \A q \in DOMAIN r : q \in DOMAIN s /\ s[q] = r[q]
      /\ Len(w) > Len(v) => Len(w[Len(w)]) = 1
      /\ DOMAIN s \ DOMAIN r # {}
      /\ \A q \in DOMAIN s \ DOMAIN r : s[q].id \in 1 .. Len(w) /\ s[q].revision = Len(w[s[q].id])

LEMMA AdvancesGrows ==
  ASSUME NEW d, Sound(d), NEW e, Sound(e), Advances(d, e)
  PROVE  Grows(d, e)
  <1> DEFINE v == VersionsOf(d)
             w == VersionsOf(e)
             r == ReceiptsOf(d)
             s == ReceiptsOf(e)
  <1>1. /\ Len(v) = d.last /\ d.last \in Nat
        /\ \A i \in IDs(d) : /\ Len(v[i]) = d.chunks[i].revision
                             /\ \A k \in 1 .. d.chunks[i].revision : v[i][k] = RevisionOf(d, i, k)
    BY VersionsShape
  <1>2. /\ Len(w) = e.last /\ e.last \in Nat
        /\ \A i \in IDs(e) : /\ Len(w[i]) = e.chunks[i].revision
                             /\ \A k \in 1 .. e.chunks[i].revision : w[i][k] = RevisionOf(e, i, k)
    BY VersionsShape
  <1>3. /\ DOMAIN r = DOMAIN d.requests /\ DOMAIN s = DOMAIN e.requests
        /\ \A q \in DOMAIN e.requests : /\ s[q].id = e.requests[q].receipt.id
                                         /\ s[q].revision = e.requests[q].receipt.revision
    BY DEF ReceiptsOf
  <1>4. /\ \A q \in DOMAIN d.requests : q \in DOMAIN e.requests /\ e.requests[q] = d.requests[q]
        /\ DOMAIN e.requests \ DOMAIN d.requests # {}
        /\ \A q \in DOMAIN e.requests \ DOMAIN d.requests :
             /\ e.requests[q].receipt.id \in IDs(e)
             /\ e.requests[q].receipt.revision = e.chunks[e.requests[q].receipt.id].revision
    BY DEF Advances
  <1>5. \A q \in DOMAIN d.requests : s[q] = r[q]
    BY <1>4 DEF ReceiptsOf
  <1> HIDE DEF v, w, r, s
  <1>6. Len(w) \in {Len(v), Len(v) + 1} /\ (Len(w) > Len(v) => Len(w[Len(w)]) = 1)
    <2>1. e.last \in {d.last, d.last + 1} /\ \A i \in IDs(e) \ IDs(d) : e.chunks[i].revision = 1
      BY DEF Advances
    <2>2. e.last > d.last => e.last \in IDs(e) \ IDs(d)
      BY <1>1, <1>2 DEF IDs
    <2> QED BY <1>1, <1>2, <2>1, <2>2
  <1>7. ASSUME NEW i \in 1 .. Len(v)
        PROVE  /\ Len(w[i]) \in {Len(v[i]), Len(v[i]) + 1}
               /\ \A k \in 1 .. Len(v[i]) : w[i][k] = v[i][k]
    <2>1. i \in IDs(d) /\ i \in IDs(e) /\ Persists(d, e)
      BY <1>1 DEF IDs, Advances, Persists
    <2>2. d.chunks[i].revision \in Nat /\ e.chunks[i].revision \in {d.chunks[i].revision, d.chunks[i].revision + 1}
      BY <2>1, SoundTypes DEF Advances
    <2>3. ASSUME NEW k \in 1 .. d.chunks[i].revision PROVE w[i][k] = v[i][k]
      <3>1. HasRevision(d, i, k)
        BY <2>1, AllReadable
      <3>2. RevisionOf(e, i, k) = RevisionOf(d, i, k)
        BY <2>1, <3>1 DEF Persists
      <3>3. k \in 1 .. e.chunks[i].revision
        BY <2>2
      <3> QED BY <1>1, <1>2, <2>1, <3>2, <3>3
    <2> QED BY <1>1, <1>2, <2>1, <2>2, <2>3
  <1>8. /\ \A q \in DOMAIN r : q \in DOMAIN s /\ s[q] = r[q]
        /\ DOMAIN s \ DOMAIN r # {}
    BY <1>3, <1>4, <1>5
  <1>9. ASSUME NEW q \in DOMAIN s \ DOMAIN r PROVE s[q].id \in 1 .. Len(w) /\ s[q].revision = Len(w[s[q].id])
    <2>1. s[q].id \in IDs(e) /\ s[q].revision = e.chunks[s[q].id].revision
      BY <1>3, <1>4
    <2> QED BY <1>2, <2>1 DEF IDs
  <1> QED BY <1>6, <1>7, <1>8, <1>9 DEF Grows, v, w, r, s

\* A new database is a VersionedStore of what was imported.
LEMMA InitVersions ==
  ASSUME Init
  PROVE  Versions!Init
  <1>1. db.last = ImportedCount /\ db.chunks = ImportedRows /\ DOMAIN db.requests = {}
    BY DEF Init
  <1>2. ASSUME NEW i \in 1 .. ImportedCount
        PROVE  [k \in 1 .. db.chunks[i].revision |-> RevisionOf(db, i, k)] = <<ImportedRows[i]>>
    <2>1. db.chunks[i] = ImportedRows[i] /\ ImportedRows[i].revision = 1
      BY <1>1, ImportedAssumption
    <2> DEFINE c == ImportedRows[i]
    <2>2. [k \in 1 .. db.chunks[i].revision |-> RevisionOf(db, i, k)] = [k \in 1 .. 1 |-> c]
      BY <2>1 DEF RevisionOf
    <2> HIDE DEF c
    <2>3. [k \in 1 .. 1 |-> c] = <<c>>
      OBVIOUS
    <2> QED BY <2>2, <2>3 DEF c
  <1>3. VersionsOf(db) = [i \in 1 .. ImportedCount |-> <<ImportedRows[i]>>]
    BY <1>1, <1>2 DEF VersionsOf, IDs
  <1> QED BY <1>1, <1>3 DEF Versions!Init, VersionsOf

\* A step that advances the tables is one of a VersionedStore.
LEMMA AdvancesVersions ==
  ASSUME Promise(db), Promise(db'), Advances(db, db')
  PROVE  [Versions!Change]_<<VersionsOf(db), ReceiptsOf(db)>>
  <1>1. Grows(db, db')
    BY AdvancesGrows DEF Promise
  <1> QED BY <1>1 DEF Grows, VersionsOf, ReceiptsOf, Versions!Change, Versions!Keeps, Versions!Continues,
                      Versions!Begins, Versions!Answers

\* The store is a VersionedStore: readers can always get again what they got, and
\* a receipt names what was the newest version when it was given.
THEOREM StoreImplementsVersions == Spec => ImplementsVersionedStore
  <1>1. Promise(db) /\ Whole(db) /\ [Next]_db => [Versions!Change]_<<VersionsOf(db), ReceiptsOf(db)>>
    <2> SUFFICES ASSUME Promise(db), Whole(db), [Next]_db
                 PROVE  [Versions!Change]_<<VersionsOf(db), ReceiptsOf(db)>>
      OBVIOUS
    <2>1. CASE UNCHANGED db
      BY <2>1 DEF VersionsOf, ReceiptsOf, IDs, RevisionOf
    <2>2. CASE Next
      BY <2>2, NextPromise, AdvancesVersions
    <2> QED BY <2>1, <2>2
  <1>2. Spec => [][Versions!Change]_<<VersionsOf(db), ReceiptsOf(db)>>
    BY <1>1, Promises, PTL DEF Spec
  <1> QED BY <1>2, InitVersions, PTL DEF Spec, ImplementsVersionedStore, Versions!Spec, VersionsOf, ReceiptsOf

----------------------------------------------------------------------------
(***************************************************************************)
(* The owner's handlers ask the store only for what keeps its promises,    *)
(* in any interleaving with agents, and what they ask for does not depend  *)
(* on when they run.                                                       *)
(*                                                                         *)
(* Every handler is one of the three kinds of steps (OwnerStepKinds), so   *)
(* KindPromise and AdvancesVersions apply to it.  The handlers read        *)
(* revisions, scopes and keys only, which Persists keeps.                  *)
(***************************************************************************)

\* What the proofs below read from a revision.
LEMMA ReadableRow ==
  ASSUME Promise(db), NEW i \in IDs(db), NEW k, HasRevision(db, i, k)
  PROVE  /\ RevisionOf(db, i, k) \in Rows
         /\ db.chunks[i] \in Rows /\ i \in Nat \ {0} /\ db.chunks[i].revision \in Nat \ {0}
  <1>1. TypeCorrect(db) /\ Sound(db)
    BY DEF Promise, Sound, Versioned
  <1>2. RevisionOf(db, i, k) \in Rows
    BY <1>1, SoundTypes DEF HasRevision, RevisionOf
  <1> QED BY <1>1, <1>2, SoundTypes

\* The words and the rest of a rewording are well-formed.
LEMMA RewordingType ==
  ASSUME Promise(db), NEW i \in IDs(db), NEW expected \in Nat,
         NEW words, NEW rest, NEW by \in Provenances, by.source = "own",
         words.content \in Contents, words.title \in Titles \cup {Blank}, words.purpose \in Purposes,
         rest.tags \in Tags, rest.type \in Types
  PROVE  LET in == Rewording(db, i, expected, words, rest, by, Nil)
         IN  in \in WriteInputs /\ in.provenance.source = "own" /\ in.restore = Nil /\ in.content = words.content
  <1>1. db.chunks[i].scope \in Scopes /\ db.chunks[i].key \in Keys \cup {Nil} /\ i \in Nat
    <2>1. db.chunks[i] \in Rows /\ i \in Nat
      BY SoundTypes DEF Promise
    <2> QED BY <2>1 DEF Rows
  <1> QED BY <1>1 DEF Rewording, WriteInputs

\* Whom an archive request is attributed to: never a note.
LEMMA ArchivistOwn ==
  ASSUME Promise(db), NEW i \in IDs(db), NEW k \in 1 .. db.chunks[i].revision, HasRevision(db, i, k)
  PROVE  Archivist(db, i, k) \in Provenances /\ Archivist(db, i, k).source = "own"
  <1>1. Sound(db) /\ NotesCurrent(db) /\ History(db) /\ db.chunks[i].revision \in Nat \ {0}
    BY SoundTypes DEF Promise
  <1>2. OwnerProvenance \in Provenances /\ OwnerProvenance.source = "own"
    BY OwnerAssumption, OwnSourceType DEF OwnerProvenance, OwnSource
  <1>3. \A n : HasRevision(db, i, n) => RevisionOf(db, i, n).provenance \in Provenances
    BY ReadableRow DEF Rows
  <1>4. ASSUME RevisionOf(db, i, k).provenance.source # "own", k > 1, HasRevision(db, i, k - 1)
        PROVE  RevisionOf(db, i, k - 1).provenance.source = "own"
    <2>1. ~Untouched(db, i)
      BY <1>1, <1>4 DEF Untouched
    <2>2. k \in Nat /\ k - 1 \in Nat /\ k - 1 # db.chunks[i].revision /\ k - 1 + 1 = k
      BY <1>1, <1>4
    <2>3. k - 1 \in 1 .. db.chunks[i].revision
      BY <1>1, <1>4
    <2>4. Stored(db, i, k) /\ Stored(db, i, k - 1)
      BY <1>1, <2>1, <2>3 DEF History
    <2>5. RevisionOf(db, i, k) = db.revisions[<<i, k>>]
      BY <1>1, <2>4 DEF RevisionOf, History
    <2>6. RevisionOf(db, i, k - 1) = db.revisions[<<i, k - 1>>]
      BY <2>2 DEF RevisionOf
    <2> DEFINE p == <<i, k>>
               q == <<i, k - 1>>
    <2>7. p \in DOMAIN db.revisions /\ q \in DOMAIN db.revisions /\ q[1] = p[1] /\ q[2] + 1 = p[2]
      BY <2>2, <2>4 DEF Stored
    <2>8. db.revisions[p].provenance.source # "own"
      BY <1>4, <2>5
    <2> HIDE DEF p, q
    <2>9. db.revisions[q].provenance.source = "own"
      BY <1>1, <2>7, <2>8 DEF NotesCurrent
    <2> QED BY <2>6, <2>9 DEF q
  <1> QED BY <1>2, <1>3, <1>4 DEF Archivist

\* Every handler's transaction is of one of the three kinds.
LEMMA OwnerStepKinds ==
  ASSUME Promise(db), OwnerNext
  PROVE  \E r \in RequestIDs :
           Unused(db, r) /\ (Writes(db, db', r) \/ Archives(db, db', r) \/ Moves(db, db', r))
  <1>0. OwnerProvenance \in Provenances /\ OwnerProvenance.source = "own"
    BY OwnerAssumption, OwnSourceType DEF OwnerProvenance, OwnSource
  <1>t. \A i \in IDs(db) : i \in Nat \ {0} /\ db.chunks[i] \in Rows /\ db.chunks[i].revision \in Nat \ {0}
    BY SoundTypes DEF Promise
  <1>n. Nil \notin Nat /\ SentTitles \subseteq Titles \cup {Blank}
    <2>1. ASSUME NEW meta \in Metadata, meta.title # Nil PROVE meta.title \in Titles \cup {Blank}
      BY <2>1, ConstantsAssumption
    <2> QED BY <2>1, ConstantsAssumption DEF SentTitles
  <1>1. ASSUME NEW r \in RequestIDs, OwnerCreate(r) PROVE Writes(db, db', r)
    <2>1. PICK scope \in DurableScopes, content \in Contents, title \in SentTitles :
            \E vector \in VectorsOf(content) :
              Write(r, [op |-> "write", scope |-> scope, content |-> content, title |-> title,
                        tags |-> Nil, type |-> Nil, purpose |-> Preference, confirmed |-> TRUE,
                        provenance |-> OwnerProvenance, key |-> Nil,
                        id |-> Nil, expected |-> Nil, restore |-> Nil], vector)
      BY <1>1 DEF OwnerCreate
    <2> DEFINE in == [op |-> "write", scope |-> scope, content |-> content, title |-> title,
                      tags |-> Nil, type |-> Nil, purpose |-> Preference, confirmed |-> TRUE,
                      provenance |-> OwnerProvenance, key |-> Nil,
                      id |-> Nil, expected |-> Nil, restore |-> Nil]
    <2>2. PICK vector \in VectorsOf(content) : Write(r, in, vector)
      BY <2>1
    <2>3. scope \in Scopes /\ Preference \in Purposes /\ title \in Titles \cup {Nil, Blank}
      BY <1>n, ConstantsAssumption, OwnerAssumption
    <2>4. in \in WriteInputs /\ in.restore = Nil /\ in.content = content /\ in.provenance.source = "own"
      BY <1>0, <2>3 DEF WriteInputs
    <2> HIDE DEF in
    <2> QED BY <2>2, <2>4, SentText DEF Write, Writes
  <1>2. ASSUME NEW r \in RequestIDs, NEW i \in IDs(db), OwnerEdit(r, i) PROVE Writes(db, db', r)
    <2>1. PICK expected \in 1 .. db.chunks[i].revision :
            \E found \in Found(i, expected), words \in [content : Contents, title : SentTitles, purpose : Purposes] :
              \E vector \in VectorsOf(words.content) : Write(r, EditInput(db, i, expected, found, words), vector)
      BY <1>2 DEF OwnerEdit
    <2>2. PICK found \in Found(i, expected), words \in [content : Contents, title : SentTitles, purpose : Purposes] :
            \E vector \in VectorsOf(words.content) : Write(r, EditInput(db, i, expected, found, words), vector)
      BY <2>1
    <2> DEFINE in == EditInput(db, i, expected, found, words)
    <2>3. PICK vector \in VectorsOf(words.content) : Write(r, in, vector)
      BY <2>2
    <2>4. RevisionOf(db, i, found) \in Rows
      BY ReadableRow DEF Found, Readable
    <2>5. /\ RevisionOf(db, i, found).tags \in Tags /\ RevisionOf(db, i, found).type \in Types
          /\ words.content \in Contents /\ words.title \in Titles \cup {Blank} /\ words.purpose \in Purposes
          /\ expected \in Nat
      BY <1>n, <2>4 DEF Rows
    <2>6. in \in WriteInputs /\ in.provenance.source = "own" /\ in.restore = Nil /\ in.content = words.content
      BY <1>0, <2>5, RewordingType DEF EditInput
    <2> HIDE DEF in
    <2> QED BY <2>3, <2>5, <2>6, SentText DEF Write, Writes
  <1>3. ASSUME NEW r \in RequestIDs, NEW i \in IDs(db), OwnerConfirm(r, i) PROVE Writes(db, db', r)
    <2>1. PICK expected \in 1 .. db.chunks[i].revision :
            /\ Found(i, expected) # {} /\ Readable(db, i, expected)
            /\ \E vector \in VectorsOf(ConfirmInput(db, i, expected).content) :
                 Write(r, ConfirmInput(db, i, expected), vector)
      BY <1>3 DEF OwnerConfirm
    <2> DEFINE in    == ConfirmInput(db, i, expected)
               prior == RevisionOf(db, i, expected)
    <2>2. PICK vector \in VectorsOf(in.content) : Write(r, in, vector)
      BY <2>1
    <2>3. in.id = i /\ in.expected = expected /\ in.key = db.chunks[i].key
      BY DEF ConfirmInput, Rewording
    <2>4. expected = db.chunks[i].revision
      <3>1. Selected(db, in) = i
        BY <1>t, <1>n, <2>3 DEF Selected
      <3>2. i # Nil /\ AtRevision(db, i, in.expected)
        BY <1>t, <1>n, <2>2, <3>1 DEF Write, Writable
      <3> QED BY <2>3, <3>2 DEF AtRevision
    <2>5. prior = db.chunks[i] /\ prior \in Rows
      BY <1>t, <2>4 DEF RevisionOf
    <2>6. ~prior.archived
      <3>1. PICK k \in Found(i, expected) : TRUE
        BY <2>1
      <3>2. k = expected
        BY <1>t, <2>4, <3>1 DEF Found
      <3> QED BY <3>1, <3>2 DEF Found
    <2>7. prior.provenance.source = "own"
      BY <2>5, <2>6 DEF Promise, NotesCurrent
    <2>8. /\ prior.content \in Contents /\ prior.title \in Titles \cup {Blank} /\ prior.purpose \in Purposes
          /\ prior.tags \in Tags /\ prior.type \in Types /\ prior.provenance \in Provenances
          /\ expected \in Nat
      BY <1>t, <2>5 DEF Rows
    <2>9. in \in WriteInputs /\ in.provenance.source = "own" /\ in.restore = Nil /\ in.content = prior.content
      <3> HIDE DEF prior
      <3>1. in = Rewording(db, i, expected, prior, prior, prior.provenance, Nil)
        BY DEF ConfirmInput, prior
      <3> HIDE DEF in
      <3> QED BY <2>7, <2>8, <3>1, RewordingType
    <2> HIDE DEF in, prior
    <2> QED BY <2>2, <2>8, <2>9, SentText DEF Write, Writes
  <1>4. ASSUME NEW r \in RequestIDs, NEW i \in IDs(db), OwnerRestore(r, i) PROVE Writes(db, db', r)
    <2>1. PICK expected \in 1 .. db.chunks[i].revision, revision \in 1 .. db.chunks[i].revision :
            /\ Readable(db, i, revision)
            /\ \E vector \in VectorsOf(RevisionOf(db, i, revision).content) :
                 Write(r, RestoreInput(db, i, expected, revision), vector)
      BY <1>4 DEF OwnerRestore
    <2> DEFINE in    == RestoreInput(db, i, expected, revision)
               prior == RevisionOf(db, i, revision)
               text  == prior.content
    <2>2. PICK vector \in VectorsOf(text) : Write(r, in, vector)
      BY <2>1
    <2>3. /\ prior \in Rows /\ expected \in Nat /\ revision \in Nat /\ i \in Nat
          /\ revision # Nil /\ i # Nil
      BY <1>t, <1>n, <2>1, ReadableRow DEF Readable
    <2>4. text \in Contents /\ prior.purpose \in Purposes
      BY <2>3 DEF Rows
    <2>5. db.chunks[i].scope \in Scopes /\ db.chunks[i].key \in Keys \cup {Nil}
      BY <1>t DEF Rows
    <2>6. in = [op |-> "write", scope |-> db.chunks[i].scope, content |-> NoText, title |-> Nil,
                tags |-> Nil, type |-> Nil, purpose |-> prior.purpose, confirmed |-> TRUE,
                provenance |-> OwnerProvenance, key |-> db.chunks[i].key,
                id |-> i, expected |-> expected, restore |-> revision]
      BY DEF RestoreInput, Rewording
    <2> HIDE DEF in, prior
    <2>7. /\ in \in WriteInputs /\ in.provenance.source = "own" /\ in.id = i /\ in.restore = revision
      BY <1>0, <2>3, <2>4, <2>5, <2>6 DEF WriteInputs
    <2>8. Selected(db, in) = i /\ TextOf(db, i, in).content = text
      BY <2>3, <2>7 DEF Selected, TextOf, prior
    <2> HIDE DEF text
    <2>9. Embeds(db, in, vector) /\ vector \in Contents \cup {Nil}
      BY <2>2, <2>4, <2>8 DEF Embeds, VectorsOf
    <2> QED BY <2>2, <2>7, <2>9 DEF Write, Writes
  <1>5. ASSUME NEW r \in RequestIDs, NEW i \in IDs(db), OwnerArchive(r, i) PROVE Archives(db, db', r)
    <2>1. PICK expected \in 1 .. db.chunks[i].revision, archived \in BOOLEAN :
            /\ Readable(db, i, expected)
            /\ \E author \in Archivists(db, i, expected) :
                 /\ Archivable(db, OwnerArchiveInput(db, i, expected, archived, author))
                 /\ db' = ArchiveTx(db, <<r, "">>, OwnerArchiveInput(db, i, expected, archived, author))
      BY <1>5 DEF OwnerArchive
    <2>5. PICK author \in Archivists(db, i, expected) :
            /\ Archivable(db, OwnerArchiveInput(db, i, expected, archived, author))
            /\ db' = ArchiveTx(db, <<r, "">>, OwnerArchiveInput(db, i, expected, archived, author))
      BY <2>1
    <2>2. author \in Provenances /\ author.source = "own"
      BY <1>0, <2>1, ArchivistOwn DEF Readable, Archivists
    <2>3. db.chunks[i].scope \in Scopes /\ i \in Nat /\ expected \in Nat
      BY <1>t DEF Rows
    <2>4. /\ OwnerArchiveInput(db, i, expected, archived, author) \in ArchiveInputs
          /\ OwnerArchiveInput(db, i, expected, archived, author).provenance.source = "own"
      BY <2>2, <2>3 DEF OwnerArchiveInput, ArchiveInputs
    <2> QED BY <2>4, <2>5 DEF Archives
  <1>6. ASSUME NEW r \in RequestIDs, NEW i \in IDs(db), OwnerMove(r, i) PROVE Moves(db, db', r)
    <2>1. PICK expected \in 1 .. db.chunks[i].revision, target \in Scopes :
            LET in == [op |-> "move", id |-> i, expected |-> expected, target |-> target,
                       provenance |-> OwnerProvenance]
            IN  /\ Readable(db, i, expected)
                /\ \E vector \in VectorsOf(RevisionOf(db, i, expected).content) :
                     Movable(db, in, vector) /\ db' = MoveTx(db, r, in, vector)
      BY <1>6 DEF OwnerMove
    <2> DEFINE in == [op |-> "move", id |-> i, expected |-> expected, target |-> target,
                      provenance |-> OwnerProvenance]
    <2>2. PICK vector \in VectorsOf(RevisionOf(db, i, expected).content) :
            Movable(db, in, vector) /\ db' = MoveTx(db, r, in, vector)
      BY <2>1
    <2>3. in \in MoveInputs /\ in.id = i /\ in.expected = expected
      BY <1>0, <1>t DEF MoveInputs
    <2> HIDE DEF in
    <2>4. expected = db.chunks[i].revision
      BY <2>2, <2>3 DEF Movable, AtRevision
    <2>5. vector \in {Nil, db.chunks[in.id].content} /\ vector \in Contents \cup {Nil}
      BY <1>t, <2>2, <2>3, <2>4 DEF RevisionOf, VectorsOf, Rows
    <2> QED BY <2>2, <2>3, <2>5 DEF Moves
  <1> QED BY <1>1, <1>2, <1>3, <1>4, <1>5, <1>6 DEF OwnerNext

\* A step of an agent or the owner keeps the promises.
LEMMA OwnedPromise ==
  ASSUME Promise(db), Whole(db), Next \/ OwnerNext
  PROVE  Promise(db') /\ Whole(db') /\ Advances(db, db')
  BY NextPromise, OwnerStepKinds, KindPromise

\* The promises hold with the owner's page at work.
THEOREM OwnedPromises == OwnedSpec => [](Promise(db) /\ Whole(db))
  <1>1. Promise(db) /\ Whole(db) /\ [Next \/ OwnerNext]_db => (Promise(db) /\ Whole(db))'
    <2> SUFFICES ASSUME Promise(db), Whole(db), [Next \/ OwnerNext]_db PROVE Promise(db') /\ Whole(db')
      OBVIOUS
    <2>1. CASE Next \/ OwnerNext
      BY <2>1, OwnedPromise
    <2>2. CASE UNCHANGED db
      BY <2>2
    <2> QED BY <2>1, <2>2
  <1> QED BY <1>1, InitPromise, PTL DEF OwnedSpec

\* With the owner's page at work the tables keep every invariant the runs check.
THEOREM OwnedInvariants ==
  OwnedSpec => [](/\ TypeOK /\ HistoryComplete /\ OneHandoffPerScope /\ UniqueIndexes /\ ConfirmationKept
                  /\ NotesTruthful /\ EmbeddingOfOwnText /\ AcknowledgedKept /\ EveryVersionAccounted
                  /\ MoveConserves)
  <1>1. Promise(db) => /\ TypeOK /\ HistoryComplete /\ OneHandoffPerScope /\ UniqueIndexes /\ ConfirmationKept
                       /\ NotesTruthful /\ EmbeddingOfOwnText /\ AcknowledgedKept /\ EveryVersionAccounted
                       /\ MoveConserves
    BY DEF Promise, Sound, Versioned, Unique, TypeOK, HistoryComplete, OneHandoffPerScope, UniqueIndexes,
           ConfirmationKept, NotesTruthful, EmbeddingOfOwnText, AcknowledgedKept, EveryVersionAccounted,
           MoveConserves
  <1> QED BY <1>1, OwnedPromises, PTL

\* With the owner's page at work no row changes but on a request for its own scope.
THEOREM OwnedChangesOnRequest == OwnedSpec => ChangesOnRequest
  <1> DEFINE A == \A i \in IDs(db) : db'.chunks[i] # db.chunks[i] =>
                    /\ db'.chunks[i].revision = db.chunks[i].revision + 1
                    /\ \E q \in DOMAIN db'.requests \ DOMAIN db.requests :
                         /\ db'.requests[q].input.op # "move"
                         /\ db'.requests[q].input.scope = db.chunks[i].scope
  <1>1. Promise(db) /\ Whole(db) /\ [Next \/ OwnerNext]_db => [A]_db
    <2> SUFFICES ASSUME Promise(db), Whole(db), Next \/ OwnerNext PROVE A
      OBVIOUS
    <2>1. Advances(db, db')
      BY OwnedPromise
    <2> QED BY <2>1 DEF Advances
  <1> HIDE DEF A
  <1>2. OwnedSpec => [][A]_db
    BY <1>1, OwnedPromises, PTL DEF OwnedSpec
  <1> QED BY <1>2 DEF ChangesOnRequest, A

\* With the owner's page at work the tables still implement a VersionedStore.
THEOREM OwnedImplementsVersions == OwnedSpec => ImplementsVersionedStore
  <1>1. Promise(db) /\ Whole(db) /\ [Next \/ OwnerNext]_db
          => [Versions!Change]_<<VersionsOf(db), ReceiptsOf(db)>>
    <2> SUFFICES ASSUME Promise(db), Whole(db), [Next \/ OwnerNext]_db
                 PROVE  [Versions!Change]_<<VersionsOf(db), ReceiptsOf(db)>>
      OBVIOUS
    <2>1. CASE UNCHANGED db
      BY <2>1 DEF VersionsOf, ReceiptsOf, IDs, RevisionOf
    <2>2. CASE Next \/ OwnerNext
      BY <2>2, OwnedPromise, AdvancesVersions
    <2> QED BY <2>1, <2>2
  <1>2. OwnedSpec => [][Versions!Change]_<<VersionsOf(db), ReceiptsOf(db)>>
    BY <1>1, OwnedPromises, PTL DEF OwnedSpec
  <1> QED BY <1>2, InitVersions, PTL
          DEF OwnedSpec, ImplementsVersionedStore, Versions!Spec, VersionsOf, ReceiptsOf

----------------------------------------------------------------------------
\* Scope and key are immutable, and so is every revision.
LEMMA ReadsPersist ==
  ASSUME Promise(db), Promise(db'), Advances(db, db'), NEW i \in IDs(db)
  PROVE  /\ db'.chunks[i].scope = db.chunks[i].scope /\ db'.chunks[i].key = db.chunks[i].key
         /\ \A k : HasRevision(db, i, k) =>
              HasRevision(db', i, k) /\ RevisionOf(db', i, k) = RevisionOf(db, i, k)
  <1>1. Persists(db, db')
    BY DEF Advances
  <1>2. Sound(db) /\ Sound(db') /\ History(db') /\ i \in IDs(db')
    BY <1>1, SoundTypes DEF Promise, Persists
  <1>3. db'.chunks[i].key = db.chunks[i].key
    <2> DEFINE k == db.chunks[i].revision
    <2>1. HasRevision(db', i, k) /\ RevisionOf(db', i, k) = db.chunks[i]
      BY <1>1 DEF Persists, HasRevision, RevisionOf
    <2>2. CASE k = db'.chunks[i].revision
      BY <2>1, <2>2 DEF RevisionOf
    <2>3. CASE k # db'.chunks[i].revision
      <3>1. <<i, k>> \in DOMAIN db'.revisions /\ db'.revisions[<<i, k>>] = db.chunks[i]
        BY <2>1, <2>3 DEF HasRevision, RevisionOf
      <3> HIDE DEF k
      <3> DEFINE p == <<i, k>>
      <3>2. db'.revisions[p].key = db'.chunks[p[1]].key /\ p[1] = i
        BY <1>2, <3>1 DEF History
      <3> QED BY <3>1, <3>2
    <2> QED BY <2>2, <2>3
  <1> QED BY <1>1, <1>3 DEF Persists

\* For every number of memories and requests, and however agents and the owner change
\* them: a handler that builds a request again builds the same one.
THEOREM RetriesStayAlike == OwnedSpec => RetriesAlike
  <1> DEFINE A == \A i \in IDs(db) : \A k \in 1 .. db.chunks[i].revision :
       Readable(db, i, k) =>
         /\ Readable(db', i, k)
         /\ ConfirmInput(db', i, k) = ConfirmInput(db, i, k)
         /\ \A archived \in BOOLEAN :
              OwnerArchiveInput(db', i, k, archived, Archivist(db', i, k)) =
                OwnerArchiveInput(db, i, k, archived, Archivist(db, i, k))
         /\ \A expected \in k + 1 .. db.chunks[i].revision :
              RestoreInput(db', i, expected, k) = RestoreInput(db, i, expected, k)
  <1>1. Promise(db) /\ Whole(db) /\ [Next \/ OwnerNext]_db => [A]_db
    <2> SUFFICES ASSUME Promise(db), Whole(db), Next \/ OwnerNext,
                        NEW i \in IDs(db), NEW k \in 1 .. db.chunks[i].revision, Readable(db, i, k)
                 PROVE  /\ Readable(db', i, k)
                        /\ ConfirmInput(db', i, k) = ConfirmInput(db, i, k)
                        /\ \A archived \in BOOLEAN :
                             OwnerArchiveInput(db', i, k, archived, Archivist(db', i, k)) =
                               OwnerArchiveInput(db, i, k, archived, Archivist(db, i, k))
                        /\ \A expected \in k + 1 .. db.chunks[i].revision :
                             RestoreInput(db', i, expected, k) = RestoreInput(db, i, expected, k)
      OBVIOUS
    <2>1. Promise(db') /\ Advances(db, db')
      BY OwnedPromise
    <2>2. /\ db'.chunks[i].scope = db.chunks[i].scope /\ db'.chunks[i].key = db.chunks[i].key
          /\ \A n : HasRevision(db, i, n) =>
               HasRevision(db', i, n) /\ RevisionOf(db', i, n) = RevisionOf(db, i, n)
      BY <2>1, ReadsPersist
    <2>3. Readable(db', i, k) /\ RevisionOf(db', i, k) = RevisionOf(db, i, k) /\ HasRevision(db, i, k)
      BY <2>2 DEF Readable
    <2>4. Archivist(db', i, k) = Archivist(db, i, k)
      <3>1. k > 1 => HasRevision(db, i, k - 1)
        <4>1. db.chunks[i].revision \in Nat \ {0} /\ Sound(db)
          BY SoundTypes DEF Promise
        <4>2. k > 1 => k - 1 \in 1 .. db.chunks[i].revision
          BY <4>1
        <4> QED BY <4>1, <4>2, AllReadable
      <3> QED BY <2>2, <2>3, <3>1 DEF Archivist
    <2> QED BY <2>2, <2>3, <2>4 DEF ConfirmInput, RestoreInput, OwnerArchiveInput, Rewording
  <1> HIDE DEF A
  <1>2. OwnedSpec => [][A]_db
    BY <1>1, OwnedPromises, PTL DEF OwnedSpec
  <1> QED BY <1>2 DEF RetriesAlike, A
=============================================================================
