--------------------------- MODULE VersionedStore ---------------------------
(***************************************************************************)
(* What the store promises its clients, whatever they send: a memory is a  *)
(* sequence of versions that only grows, one version at a time, and        *)
(* memories are never removed; nothing changes but in a step that gives    *)
(* receipts; a receipt names the version that is then the newest of its    *)
(* memory, and is never changed.                                           *)
(***************************************************************************)
EXTENDS Naturals, Sequences

CONSTANT Given   \* the memories of the database the server was given

VARIABLES
  versions,      \* versions[i]: the versions of memory i, oldest first
  receipts       \* receipts[q]: the memory and the version a request was answered with

Init == versions = Given /\ DOMAIN receipts = {}

\* A sequence that continues another by one element at most.
Continues(newer, older) ==
  /\ Len(newer) \in {Len(older), Len(older) + 1}
  /\ \A k \in 1 .. Len(older) : newer[k] = older[k]

\* What is stored stays: each memory keeps its versions, each request its receipt.
Keeps ==
  /\ Len(versions') \in {Len(versions), Len(versions) + 1}
  /\ \A i \in 1 .. Len(versions) : Continues(versions'[i], versions[i])
  /\ \A q \in DOMAIN receipts : q \in DOMAIN receipts' /\ receipts'[q] = receipts[q]

\* A new memory has one version.
Begins == Len(versions') > Len(versions) => Len(versions'[Len(versions')]) = 1

\* Requests are answered, each with the newest version of a memory.
Answers ==
  LET given == DOMAIN receipts' \ DOMAIN receipts
  IN  /\ given # {}
      /\ \A q \in given : /\ receipts'[q].id \in 1 .. Len(versions')
                          /\ receipts'[q].revision = Len(versions'[receipts'[q].id])

Change == Keeps /\ Begins /\ Answers

Spec == Init /\ [][Change]_<<versions, receipts>>
============================================================================
