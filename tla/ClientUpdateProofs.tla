-------------------------- MODULE ClientUpdateProofs --------------------------
(***************************************************************************)
(* Proofs about ClientUpdate, for any versions and agents.                 *)
(***************************************************************************)
EXTENDS ClientUpdate, FiniteSetTheorems, TLAPS

\* Where a bridge has the version it wants, and where it is current.
Holding  == {"previous", "write", "list"}
Switched == {"list", "prune"}
Choosing == {"install", "download", "rename", "recheck", "previous", "write"}

\* What one bridge, the only one at work, knows about the folder.
Sure(p) ==
  /\ bridge[p].pc \in Holding => folder[bridge[p].want] = "program"
  /\ bridge[p].pc \in Choosing => current # bridge[p].want
  /\ bridge[p].pc = "write" => bridge[p].previous = current
  /\ bridge[p].pc \in Switched => current = bridge[p].want /\ before = bridge[p].previous
  /\ bridge[p].pc = "prune" => bridge[p].left \cap {bridge[p].want, bridge[p].previous} = {}

\* Both versions that matter have their program.
Intact ==
  /\ current # None => folder[current] = "program"
  /\ before # None => folder[before] = "program"
  /\ current = None => before = None

\* One agent at work, and no bridge of another.
Alone(p) ==
  /\ agents = {p}
  /\ Intact /\ Sure(p)

UpdateInv == TypeOK /\ \A p \in Bridges : agents = {p} => Alone(p)

\* No disk failed, nothing is locked and nobody cut a bridge short.
Undisturbed == ~windows /\ failures = 0 /\ quits = 0

Kept == {v \in Versions : folder[v] # "absent"}

\* The bridges that will still list the folder, and what the others will remove.
Lister(p) == p \in agents /\ bridge[p].pc \in Holding
Leaving == UNION {bridge[p].left : p \in {q \in agents : bridge[q].pc = "prune"}}

\* What stays of the folder is two versions, unless a bridge is yet to look at it.
TwoRemain ==
  Undisturbed => \/ \E p \in Bridges : Lister(p)
                 \/ \E a, b \in Versions \cup {None} : Kept \subseteq {a, b} \cup Leaving

LEMMA IdleBridge == Idle \in Bridge /\ Idle.pc = "idle" /\ Idle.from = None
  BY DEF Idle, Bridge

LEMMA UpdateInit == Init => UpdateInv
  <1> SUFFICES ASSUME Init
               PROVE  UpdateInv
    OBVIOUS
  <1>1. TypeOK
    BY BundledAssumption, IdleBridge DEF Init, TypeOK, Folders, Following
  <1>2. \A p \in Bridges : bridge[p].pc = "idle" /\ current = None /\ before = None
    BY IdleBridge DEF Init
  <1> QED BY <1>1, <1>2 DEF UpdateInv, Alone, Intact, Sure, Holding, Choosing, Switched

\* The types after a step of one bridge.
LEMMA OneBridge ==
  ASSUME TypeOK, NEW p \in Bridges, NEW r \in Bridge, bridge' = [bridge EXCEPT ![p] = r],
         r.from # None => r.from > Bundled[p],
         r.pc \in Following => r.want # None
  PROVE  /\ bridge' \in [Bridges -> Bridge]
         /\ \A q \in Bridges : /\ bridge'[q].from # None => bridge'[q].from > Bundled[q]
                               /\ bridge'[q].pc \in Following => bridge'[q].want # None
  BY DEF TypeOK

\* The same after a step that only moves a bridge on.
LEMMA OtherStage ==
  ASSUME TypeOK, NEW p \in Bridges, NEW pc \in {"idle", "exec", "ask", "serve"} \cup Following,
         Goes(p, pc), bridge[p].want # None
  PROVE  /\ bridge' \in [Bridges -> Bridge]
         /\ \A q \in Bridges : /\ bridge'[q].from # None => bridge'[q].from > Bundled[q]
                               /\ bridge'[q].pc \in Following => bridge'[q].want # None
  <1> DEFINE r == [bridge[p] EXCEPT !.pc = pc]
  <1>1. bridge' = [bridge EXCEPT ![p] = r] /\ bridge[p] \in Bridge
    BY DEF Goes, TypeOK
  <1>2. r \in Bridge /\ r.from = bridge[p].from /\ r.want = bridge[p].want
    BY <1>1 DEF Bridge
  <1>3. r.from # None => r.from > Bundled[p]
    BY <1>2 DEF TypeOK
  <1> HIDE DEF r
  <1> QED BY <1>1, <1>2, <1>3, OneBridge

LEMMA TypeStep == TypeOK /\ [Next]_vars => TypeOK'
  <1> SUFFICES ASSUME TypeOK, [Next]_vars
               PROVE  TypeOK'
    OBVIOUS
  <1> USE BundledAssumption, IdleBridge
      DEF TypeOK, Goes, Steps, Fails, Following, managed, machine, counts, ManagedClient, ReportsVersion
  <1>1. ASSUME NEW p \in Bridges, HandOff(p)
        PROVE  TypeOK'
    BY <1>1 DEF HandOff, Bridge, Folders
  <1>2. ASSUME NEW p \in Bridges, Exec(p)
        PROVE  TypeOK'
    <2> DEFINE from == IF folder[bridge[p].from] = "program" THEN bridge[p].from ELSE None
               r == [bridge[p] EXCEPT !.pc = "ask", !.from = from]
    <2>1. bridge' = [bridge EXCEPT ![p] = r]
      BY <1>2 DEF Exec
    <2>2. from \in {bridge[p].from, None}
      OBVIOUS
    <2> HIDE DEF from
    <2>3. r \in Bridge /\ r.pc = "ask" /\ r.from = from
      BY <2>2 DEF Bridge
    <2> HIDE DEF r
    <2> QED BY <1>2, <2>1, <2>2, <2>3, OneBridge DEF Exec
  <1>3. ASSUME NEW p \in Bridges, FollowServer(p)
        PROVE  TypeOK'
    <2>1. CASE bridge' = [bridge EXCEPT ![p].pc = "compare", ![p].want = server]
      <3> DEFINE r == [bridge[p] EXCEPT !.pc = "compare", !.want = server]
      <3>1. bridge' = [bridge EXCEPT ![p] = r]
        BY <2>1
      <3>2. r \in Bridge /\ r.from = bridge[p].from /\ r.want = server
        BY DEF Bridge
      <3>3. server \in Versions /\ server # None
        BY DEF Versions
      <3> HIDE DEF r
      <3> QED BY <1>3, <3>1, <3>2, <3>3, OneBridge DEF FollowServer
    <2>2. CASE bridge' = [bridge EXCEPT ![p].pc = "serve"]
      <3> DEFINE r == [bridge[p] EXCEPT !.pc = "serve"]
      <3>1. bridge' = [bridge EXCEPT ![p] = r]
        BY <2>2
      <3>2. r \in Bridge /\ r.from = bridge[p].from /\ r.pc = "serve"
        BY DEF Bridge
      <3> HIDE DEF r
      <3> QED BY <1>3, <3>1, <3>2, OneBridge DEF FollowServer
    <2> QED BY <1>3, <2>1, <2>2 DEF FollowServer
  <1>4. ASSUME NEW p \in Bridges, Follow(p)
        PROVE  TypeOK'
    <2>1. \E pc \in {"serve", "install"} : Goes(p, pc)
      BY <1>4 DEF Follow
    <2>2. bridge[p].want # None
      BY <1>4 DEF Follow
    <2> HIDE DEF Goes, Steps
    <2>3. /\ bridge' \in [Bridges -> Bridge]
          /\ \A q \in Bridges : /\ bridge'[q].from # None => bridge'[q].from > Bundled[q]
                                /\ bridge'[q].pc \in Following => bridge'[q].want # None
      BY <2>1, <2>2, OtherStage
    <2>4. UNCHANGED <<server, machine, managed, changes, quits>> /\ failures' \in Nat
      BY <1>4 DEF Follow
    <2> QED BY <2>3, <2>4
  <1>5. ASSUME NEW p \in Bridges, Install(p)
        PROVE  TypeOK'
    <2>1. \E pc \in {"previous", "download"} : Goes(p, pc)
      BY <1>5 DEF Install
    <2>2. bridge[p].want # None
      BY <1>5 DEF Install
    <2> HIDE DEF Goes, Steps
    <2>3. /\ bridge' \in [Bridges -> Bridge]
          /\ \A q \in Bridges : /\ bridge'[q].from # None => bridge'[q].from > Bundled[q]
                                /\ bridge'[q].pc \in Following => bridge'[q].want # None
      BY <2>1, <2>2, OtherStage
    <2>4. UNCHANGED <<server, machine, managed, changes, quits>> /\ failures' \in Nat
      BY <1>5 DEF Install
    <2> QED BY <2>3, <2>4
  <1>6. ASSUME NEW p \in Bridges, Download(p)
        PROVE  TypeOK'
    <2>1. \E pc \in {"rename", "failed"} : Goes(p, pc)
      BY <1>6 DEF Download
    <2>2. bridge[p].want # None
      BY <1>6 DEF Download
    <2> HIDE DEF Goes, Steps
    <2>3. /\ bridge' \in [Bridges -> Bridge]
          /\ \A q \in Bridges : /\ bridge'[q].from # None => bridge'[q].from > Bundled[q]
                                /\ bridge'[q].pc \in Following => bridge'[q].want # None
      BY <2>1, <2>2, OtherStage
    <2>4. UNCHANGED <<server, machine, managed, changes, quits>> /\ failures' \in Nat
      BY <1>6 DEF Download
    <2> QED BY <2>3, <2>4
  <1>7. ASSUME NEW p \in Bridges, Rename(p)
        PROVE  TypeOK'
    <2>1. \E pc \in {"previous", "recheck"} : Goes(p, pc)
      BY <1>7 DEF Rename
    <2>2. bridge[p].want # None
      BY <1>7 DEF Rename
    <2> HIDE DEF Goes, Steps
    <2>3. /\ bridge' \in [Bridges -> Bridge]
          /\ \A q \in Bridges : /\ bridge'[q].from # None => bridge'[q].from > Bundled[q]
                                /\ bridge'[q].pc \in Following => bridge'[q].want # None
      BY <2>1, <2>2, OtherStage
    <2>4. folder' \in [Versions -> Folders]
      BY <1>7 DEF Rename, Folders
    <2>5. UNCHANGED <<server, machine, current, lastError, before, counts>>
      BY <1>7 DEF Rename
    <2> QED BY <2>3, <2>4, <2>5
  <1>8. ASSUME NEW p \in Bridges, Recheck(p)
        PROVE  TypeOK'
    <2>1. \E pc \in {"previous", "failed"} : Goes(p, pc)
      BY <1>8 DEF Recheck
    <2>2. bridge[p].want # None
      BY <1>8 DEF Recheck
    <2> HIDE DEF Goes, Steps
    <2>3. /\ bridge' \in [Bridges -> Bridge]
          /\ \A q \in Bridges : /\ bridge'[q].from # None => bridge'[q].from > Bundled[q]
                                /\ bridge'[q].pc \in Following => bridge'[q].want # None
      BY <2>1, <2>2, OtherStage
    <2>4. UNCHANGED <<server, machine, managed, changes, quits>> /\ failures' \in Nat
      BY <1>8 DEF Recheck
    <2> QED BY <2>3, <2>4
  <1>9. ASSUME NEW p \in Bridges, MakeCurrent(p)
        PROVE  TypeOK'
    <2> DEFINE r == [bridge[p] EXCEPT !.pc = "write", !.previous = ManagedClient]
    <2>1. bridge' = [bridge EXCEPT ![p] = r]
      BY <1>9 DEF MakeCurrent
    <2>2. ManagedClient \in Versions \cup {None}
      OBVIOUS
    <2> HIDE DEF ManagedClient
    <2>3. r \in Bridge /\ r.from = bridge[p].from /\ r.want = bridge[p].want
      BY <2>2 DEF Bridge
    <2> HIDE DEF r
    <2> QED BY <1>9, <2>1, <2>3, OneBridge DEF MakeCurrent
  <1>10. ASSUME NEW p \in Bridges, WriteCurrent(p)
        PROVE  TypeOK'
    BY <1>10 DEF WriteCurrent, Bridge, Folders
  <1>11. ASSUME NEW p \in Bridges, ListVersions(p)
        PROVE  TypeOK'
    <2> DEFINE left == {v \in Versions : folder[v] # "absent"} \ {bridge[p].want, bridge[p].previous}
               r == [bridge[p] EXCEPT !.pc = "prune", !.left = left]
    <2>1. bridge' = [bridge EXCEPT ![p] = r]
      BY <1>11 DEF ListVersions
    <2>2. left \subseteq Versions
      OBVIOUS
    <2> HIDE DEF left
    <2>3. r \in Bridge /\ r.from = bridge[p].from /\ r.want = bridge[p].want
      BY <2>2 DEF Bridge
    <2> HIDE DEF r
    <2>4. bridge[p].want # None /\ (bridge[p].from # None => bridge[p].from > Bundled[p])
      BY <1>11 DEF ListVersions
    <2>5. UNCHANGED <<server, machine, current, folder, before, counts>> /\ lastError' = None
      BY <1>11 DEF ListVersions
    <2> QED BY <2>1, <2>3, <2>4, <2>5, OneBridge
  <1>12. ASSUME NEW p \in Bridges, PruneVersions(p)
        PROVE  TypeOK'
    BY <1>12 DEF PruneVersions, Bridge, Folders
  <1>13. ASSUME NEW p \in Bridges, SaveError(p)
        PROVE  TypeOK'
    BY <1>13 DEF SaveError, Bridge, Folders
  <1>14. ASSUME NEW p \in Bridges, EndSession(p)
        PROVE  TypeOK'
    BY <1>14 DEF EndSession, Bridge, Folders
  <1>15. ASSUME NEW p \in Bridges, Quit(p)
        PROVE  TypeOK'
    BY <1>15 DEF Quit, Bridge, Folders
  <1>16. CASE ServerChanges
    BY <1>16 DEF ServerChanges
  <1>17. CASE UNCHANGED vars
    BY <1>17 DEF vars
  <1> HIDE DEF TypeOK
  <1>18. agents \subseteq Bridges
    BY DEF TypeOK
  <1> QED BY <1>1, <1>2, <1>3, <1>4, <1>5, <1>6, <1>7, <1>8, <1>9, <1>10, <1>11, <1>12, <1>13, <1>14, <1>15, <1>16, <1>17, <1>18 DEF Next, Step

\* One bridge at work keeps its own promises.
LEMMA AloneStep ==
  ASSUME NEW p \in Bridges, TypeOK, Alone(p), Step(p) \/ Quit(p)
  PROVE  Alone(p)'
  <1> USE BundledAssumption, IdleBridge
      DEF Alone, Intact, Sure, Holding, Choosing, Switched, TypeOK, Goes, Steps, Following, managed, machine,
          ManagedClient, ReportsVersion
  <1>1. CASE HandOff(p)
    BY <1>1 DEF HandOff, Bridge
  <1>2. CASE Exec(p)
    BY <1>2 DEF Exec, Bridge
  <1>3. CASE FollowServer(p)
    BY <1>3 DEF FollowServer, Bridge
  <1>4. CASE Follow(p)
    BY <1>4 DEF Follow, Bridge
  <1>5. CASE Install(p)
    BY <1>5 DEF Install, Bridge
  <1>6. CASE Download(p)
    BY <1>6 DEF Download, Bridge
  <1>7. CASE Rename(p)
    BY <1>7 DEF Rename, Bridge
  <1>8. CASE Recheck(p)
    BY <1>8 DEF Recheck, Bridge
  <1>9. CASE MakeCurrent(p)
    BY <1>9 DEF MakeCurrent, Bridge
  <1>10. CASE WriteCurrent(p)
    BY <1>10 DEF WriteCurrent, Bridge
  <1>11. CASE ListVersions(p)
    BY <1>11 DEF ListVersions, Bridge
  <1>12. CASE PruneVersions(p)
    <2>1. CASE bridge[p].left = {}
      BY <1>12, <2>1 DEF PruneVersions, Bridge
    <2>2. CASE bridge[p].left # {}
      <3> DEFINE v == First(bridge[p].left)
      <3>1. v \in bridge[p].left
        BY <2>2 DEF First
      <3>2. v \in Versions /\ v # current /\ v # before
        BY <1>12, <3>1 DEF PruneVersions, Bridge
      <3>3. /\ folder' = folder \/ \E state \in {"empty", "absent"} : folder' = [folder EXCEPT ![v] = state]
            /\ bridge' = bridge \/ bridge' = [bridge EXCEPT ![p].left = @ \ {v}]
            /\ UNCHANGED <<current, before, agents>>
        BY <1>12, <2>2 DEF PruneVersions
      <3> HIDE DEF v
      <3>4. Intact'
        BY <3>2, <3>3
      <3>5. bridge[p].pc = "prune" /\ bridge'[p].pc = "prune" /\ bridge'[p].want = bridge[p].want
            /\ bridge'[p].previous = bridge[p].previous /\ bridge'[p].left \subseteq bridge[p].left
        BY <1>12, <3>3 DEF PruneVersions, Bridge
      <3> QED BY <3>3, <3>4, <3>5
    <2> QED BY <2>1, <2>2
  <1>13. CASE SaveError(p)
    BY <1>13 DEF SaveError, Bridge
  <1>14. CASE EndSession(p)
    BY <1>14 DEF EndSession, Bridge
  <1>15. CASE Quit(p)
    BY <1>15 DEF Quit, Bridge
  <1> HIDE DEF Alone
  <1> QED BY <1>1, <1>2, <1>3, <1>4, <1>5, <1>6, <1>7, <1>8, <1>9, <1>10, <1>11, <1>12, <1>13, <1>14, <1>15 DEF Step

LEMMA UpdateStep == UpdateInv /\ [Next]_vars => UpdateInv'
  <1> SUFFICES ASSUME UpdateInv, [Next]_vars
               PROVE  UpdateInv'
    OBVIOUS
  <1>1. TypeOK'
    BY TypeStep DEF UpdateInv
  <1>2. UNCHANGED agents
    BY DEF Next, Step, vars, machine, HandOff, Exec, FollowServer, Follow, Install, Download, Rename, Recheck,
         MakeCurrent, WriteCurrent, ListVersions, PruneVersions, SaveError, EndSession, Quit, ServerChanges
  <1>3. ASSUME NEW p \in Bridges, agents = {p}
        PROVE  Alone(p)'
    <2>1. CASE Step(p) \/ Quit(p)
      BY <1>3, <2>1, AloneStep DEF UpdateInv
    <2>2. CASE UNCHANGED <<agents, current, before, folder, bridge>>
      BY <1>3, <2>2 DEF UpdateInv, Alone, Intact, Sure
    <2> QED BY <1>3, <2>1, <2>2 DEF Next, ServerChanges, vars, machine, managed
  <1> QED BY <1>1, <1>2, <1>3 DEF UpdateInv

LEMMA UpdateSound == Spec => []UpdateInv
  <1>1. UpdateInv /\ [Next]_vars => UpdateInv'
    BY UpdateStep
  <1> QED BY UpdateInit, <1>1, PTL DEF Spec, Safety

\* One bridge's step disturbs nothing of the others, and what was disturbed stays so.
LEMMA OthersStay ==
  ASSUME TypeOK, NEW p \in agents, Step(p) \/ Quit(p), Undisturbed'
  PROVE  /\ Undisturbed /\ ~Quit(p)
         /\ UNCHANGED agents
         /\ \A q \in Bridges : q # p => bridge'[q] = bridge[q]
  <1> QED BY DEF TypeOK, Undisturbed, Step, HandOff, Exec, FollowServer, Follow, Install, Download, Rename, Recheck,
         MakeCurrent, WriteCurrent, ListVersions, PruneVersions, SaveError, EndSession, Quit, machine, counts, Fails, Goes, Steps, managed

\* A bridge that lists the folder will remove all but two versions.
LEMMA ListingSettles ==
  ASSUME TypeOK, NEW p \in agents, ListVersions(p)
  PROVE  \E a, b \in Versions \cup {None} : Kept' \subseteq {a, b} \cup Leaving'
  <1> DEFINE a == bridge[p].want
             b == bridge[p].previous
             left == Kept \ {a, b}
  <1>1. p \in Bridges /\ a \in Versions \cup {None} /\ b \in Versions \cup {None}
    BY DEF TypeOK, Bridge
  <1>2. UNCHANGED <<folder, agents>> /\ bridge' = [bridge EXCEPT ![p].pc = "prune", ![p].left = left]
    BY DEF ListVersions, machine, Kept
  <1>3. Kept' = Kept
    BY <1>2 DEF Kept
  <1> HIDE DEF a, b, left
  <1>4. bridge'[p].pc = "prune" /\ bridge'[p].left = left
    BY <1>1, <1>2 DEF TypeOK, Bridge
  <1>5. left \subseteq Leaving'
    BY <1>2, <1>4 DEF Leaving
  <1>6. Kept \subseteq {a, b} \cup left
    BY DEF left
  <1> QED BY <1>1, <1>3, <1>5, <1>6

\* Pruning takes a version off its list only when the folder is gone.
LEMMA PruningRemoves ==
  ASSUME TypeOK, NEW p \in agents, PruneVersions(p), ~windows
  PROVE  Kept' \subseteq Kept /\ Kept' \cap Leaving \subseteq Leaving'
  <1>0. p \in Bridges /\ UNCHANGED agents /\ bridge[p].pc = "prune"
    BY DEF TypeOK, PruneVersions, machine
  <1>1. CASE bridge[p].left = {}
    <2>1. /\ UNCHANGED folder
          /\ \A q \in agents : bridge'[q].left = bridge[q].left
          /\ \A q \in agents : q # p => bridge'[q] = bridge[q]
      BY <1>0, <1>1 DEF PruneVersions, Goes, TypeOK, Bridge
    <2>2. Leaving \subseteq Leaving'
      BY <1>0, <1>1, <2>1 DEF Leaving
    <2> QED BY <2>1, <2>2 DEF Kept
  <1>2. CASE bridge[p].left # {}
    <2> DEFINE v == First(bridge[p].left)
    <2>1. v \in bridge[p].left /\ v \in Versions
      BY <1>0, <1>2 DEF First, TypeOK, Bridge
    <2>2. \/ folder' = [folder EXCEPT ![v] = "empty"] /\ folder[v] = "program" /\ UNCHANGED bridge
          \/ folder' = [folder EXCEPT ![v] = "absent"] /\ bridge' = [bridge EXCEPT ![p].left = @ \ {v}]
      BY <1>2 DEF PruneVersions, Locked
    <2> HIDE DEF v
    <2>3. CASE folder' = [folder EXCEPT ![v] = "empty"] /\ folder[v] = "program" /\ UNCHANGED bridge
      <3>1. Kept' \subseteq Kept
        BY <2>1, <2>3 DEF Kept, TypeOK
      <3>2. Leaving' = Leaving
        BY <1>0, <2>3 DEF Leaving
      <3> QED BY <3>1, <3>2
    <2>4. CASE folder' = [folder EXCEPT ![v] = "absent"] /\ bridge' = [bridge EXCEPT ![p].left = @ \ {v}]
      <3>1. Kept' = Kept \ {v}
        BY <2>1, <2>4 DEF Kept, TypeOK
      <3>2. \A q \in agents : bridge'[q].pc = bridge[q].pc /\ bridge[q].left \ {v} \subseteq bridge'[q].left
        BY <1>0, <2>4 DEF TypeOK, Bridge
      <3>3. Leaving \ {v} \subseteq Leaving'
        BY <1>0, <3>2 DEF Leaving
      <3> QED BY <3>1, <3>3
    <2> QED BY <2>2, <2>3, <2>4
  <1> QED BY <1>1, <1>2

\* No other step of a bridge takes it out of Holding or touches what is to be removed,
\* and only those that put a folder in place add one.
LEMMA QuietSteps ==
  ASSUME TypeOK, NEW p \in agents, Step(p), Undisturbed', ~ListVersions(p), ~PruneVersions(p)
  PROVE  /\ Lister(p) => Lister(p)'
         /\ Lister(p)' \/ Kept' = Kept
         /\ bridge[p].pc # "prune"
  <1>1. p \in Bridges
    BY DEF TypeOK
  <1> USE <1>1 DEF Lister, Holding, Goes, Steps, machine, managed, counts, Fails, TypeOK, Bridge, Kept, Undisturbed
  <1>2. CASE HandOff(p) \/ Exec(p) \/ EndSession(p) \/ Follow(p)
    BY <1>2 DEF HandOff, Exec, EndSession, Follow
  <1>3. CASE FollowServer(p)
    BY <1>3 DEF FollowServer
  <1>4. CASE Install(p) \/ Download(p) \/ Recheck(p) \/ SaveError(p)
    BY <1>4 DEF Install, Download, Recheck, SaveError
  <1>5. CASE Rename(p)
    BY <1>5 DEF Rename
  <1>6. CASE MakeCurrent(p)
    BY <1>6 DEF MakeCurrent
  <1>7. CASE WriteCurrent(p)
    BY <1>7 DEF WriteCurrent
  <1> QED BY <1>2, <1>3, <1>4, <1>5, <1>6, <1>7 DEF Step

LEMMA RemainStep == TypeOK /\ TwoRemain /\ [Next]_vars => TwoRemain'
  <1> SUFFICES ASSUME TypeOK, TwoRemain, [Next]_vars, Undisturbed'
               PROVE  \/ \E p \in Bridges : Lister(p)'
                      \/ \E a, b \in Versions \cup {None} : Kept' \subseteq {a, b} \cup Leaving'
    BY DEF TwoRemain
  <1>1. ASSUME NEW p \in agents, Step(p) \/ Quit(p)
        PROVE  \/ \E q \in Bridges : Lister(q)'
               \/ \E a, b \in Versions \cup {None} : Kept' \subseteq {a, b} \cup Leaving'
    <2>1. Undisturbed /\ Step(p) /\ UNCHANGED agents /\ \A q \in Bridges : q # p => bridge'[q] = bridge[q]
      BY <1>1, OthersStay
    <2>2. \A q \in Bridges : q # p /\ Lister(q) => Lister(q)'
      BY <2>1 DEF Lister
    <2>3. CASE ListVersions(p)
      BY <2>3, ListingSettles
    <2>4. CASE PruneVersions(p)
      <3>1. ~Lister(p) /\ p \in Bridges
        BY <2>4 DEF PruneVersions, Lister, Holding, TypeOK
      <3>2. Kept' \subseteq Kept /\ Kept' \cap Leaving \subseteq Leaving'
        BY <2>1, <2>4, PruningRemoves DEF Undisturbed
      <3> QED BY <2>1, <2>2, <3>1, <3>2 DEF TwoRemain
    <2>5. CASE ~ListVersions(p) /\ ~PruneVersions(p)
      <3>1. /\ Lister(p) => Lister(p)'
            /\ Lister(p)' \/ Kept' = Kept
            /\ bridge[p].pc # "prune"
        BY <2>1, <2>5, QuietSteps
      <3>2. p \in Bridges /\ agents \subseteq Bridges
        BY DEF TypeOK
      <3>3. Leaving \subseteq Leaving'
        BY <2>1, <3>1, <3>2 DEF Leaving
      <3> QED BY <2>1, <2>2, <3>1, <3>2, <3>3 DEF TwoRemain
    <2> QED BY <2>3, <2>4, <2>5
  <1>2. CASE ServerChanges \/ UNCHANGED vars
    <2>1. UNCHANGED <<agents, windows, folder, bridge, failures, quits>>
      BY <1>2 DEF ServerChanges, vars, machine, managed, counts
    <2>2. Undisturbed
      BY <2>1 DEF Undisturbed
    <2>3. Kept' = Kept
      BY <2>1 DEF Kept
    <2>4. Leaving' = Leaving
      BY <2>1 DEF Leaving
    <2>5. \A q \in Bridges : Lister(q)' = Lister(q)
      BY <2>1 DEF Lister
    <2> QED BY <2>2, <2>3, <2>4, <2>5 DEF TwoRemain
  <1> QED BY <1>1, <1>2 DEF Next

LEMMA RemainSound == Spec => []TwoRemain
  <1>1. Init => TwoRemain
    <2>1. Init => Kept = {} /\ None \in Versions \cup {None}
      BY DEF Init, Kept
    <2> QED BY <2>1 DEF TwoRemain
  <1>2. TypeOK /\ TwoRemain /\ [Next]_vars => TwoRemain'
    BY RemainStep
  <1>3. UpdateInv => TypeOK
    BY DEF UpdateInv
  <1> QED BY UpdateSound, <1>1, <1>2, <1>3, PTL DEF Spec, Safety

\* One agent alone.
LEMMA OneAgent ==
  ASSUME UpdateInv, Cardinality(agents) = 1
  PROVE  Intact
  <1>1. IsFiniteSet(agents)
    BY BundledAssumption, FS_Subset DEF UpdateInv, TypeOK
  <1>2. PICK p : agents = {p}
    BY <1>1, FS_Singleton
  <1> QED BY <1>2 DEF UpdateInv, TypeOK, Alone

\* The bridges and the folder are well-formed.
THEOREM UpdateTypes == Spec => []TypeOK
  <1>1. UpdateInv => TypeOK
    BY DEF UpdateInv
  <1> QED BY UpdateSound, <1>1, PTL

\* One agent's bridge, cut short wherever, never leaves client/current without its
\* program.
THEOREM CurrentStaysInstalled == Spec => []CurrentInstalled
  <1>1. UpdateInv => CurrentInstalled
    BY OneAgent DEF Intact, CurrentInstalled
  <1> QED BY UpdateSound, <1>1, PTL

\* Nor does it ever remove the version to go back to.
THEOREM PreviousStaysInstalled == Spec => []PreviousKept
  <1>1. UpdateInv => PreviousKept
    BY OneAgent DEF Intact, PreviousKept
  <1> QED BY UpdateSound, <1>1, PTL

\* However many bridges overlapped, once none of them is at work at most two versions
\* are left, if nothing was locked, no disk failed and no agent cut a bridge short.
THEOREM AtMostTwoLeft == Spec => []TwoAtRest
  <1>1. ASSUME UpdateInv, TwoRemain
        PROVE  TwoAtRest
    <2> SUFFICES ASSUME Undisturbed, \A p \in agents : bridge[p].pc \notin Following
                 PROVE  Cardinality(Kept) <= 2
      BY DEF TwoAtRest, Undisturbed, Kept
    <2>1. Leaving = {}
      BY DEF Leaving, Following
    <2>2. \A p \in Bridges : ~Lister(p)
      BY DEF Lister, Holding, Following
    <2>3. PICK a \in Versions \cup {None}, b \in Versions \cup {None} : Kept \subseteq {a, b}
      BY <1>1, <2>1, <2>2 DEF TwoRemain
    <2>4. IsFiniteSet({a, b}) /\ Cardinality({a, b}) <= 2
      <3>1. IsFiniteSet({a}) /\ Cardinality({a}) = 1
        BY FS_Singleton
      <3>2. {a, b} = {a} \cup {b}
        OBVIOUS
      <3>3. IsFiniteSet({a} \cup {b}) /\ Cardinality({a} \cup {b}) <= 2
        BY <3>1, FS_AddElement
      <3> QED BY <3>2, <3>3
    <2>5. Cardinality(Kept) <= Cardinality({a, b})
      BY <2>3, <2>4, FS_Subset
    <2>6. IsFiniteSet(Kept)
      BY <2>3, <2>4, FS_Subset
    <2> QED BY <2>4, <2>5, <2>6, FS_CardinalityType
  <1> QED BY UpdateSound, RemainSound, <1>1, PTL
=============================================================================
