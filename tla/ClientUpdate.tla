---------------------------- MODULE ClientUpdate ----------------------------
(***************************************************************************)
(* The self-update of the client (internal/client/update.go): every agent  *)
(* on a machine starts a bridge from the client bundled with its plugin.   *)
(* The bridge hands off to the managed client when that one is newer, and  *)
(* then follows the server: it installs the server's release in a folder   *)
(* all bridges share, makes it current and prunes the other versions.  No  *)
(* lock orders the bridges, and the agent may end a bridge at any step.    *)
(***************************************************************************)
EXTENDS Naturals, FiniteSets

CONSTANTS
  Bridges,      \* the agents of one machine
  Bundled,      \* Bundled[p]: the version of the client in p's plugin
  MaxVersion,   \* versions are 1..MaxVersion, ordered as CompareVersions does
  FirstServer,  \* the version the server has at first
  MaxChanges,   \* how often the server is upgraded or rolled back
  MaxTroubles,  \* how often the network or the disk fails, or an agent ends a
                \* bridge that is still following
  None

Versions == 1..MaxVersion

ASSUME BundledAssumption ==
  /\ IsFiniteSet(Bridges) /\ Bundled \in [Bridges -> Nat]
  /\ {MaxVersion, MaxChanges, MaxTroubles} \subseteq Nat
  /\ FirstServer \in Versions
  /\ None \notin Nat

VARIABLES
  server,     \* the version the server reports
  agents,     \* the agents in use on this machine
  off,        \* client/updates-off is there: the owner opted out of downloads
  windows,    \* TRUE: the folder of a running program cannot be removed
  current,    \* what client/current names, or None
  folder,     \* folder[v]: client/versions/v, see Folders
  lastError,  \* the version client/last-error is about, or None
  before,     \* history: the installed version that current named before
  bridge,     \* one record per bridge, see Bridge
  changes, failures, quits  \* how often each has happened, for the bounds

managed == <<current, folder, lastError, before>>
machine == <<agents, off, windows>>
counts == <<changes, failures, quits>>
vars == <<server, machine, managed, bridge, counts>>

(* A version folder is renamed into place whole, but os.RemoveAll takes the *)
(* program out first and the folder then: in between it is "empty".         *)
Folders == {"absent", "empty", "program"}

Following == {"compare", "install", "download", "rename", "recheck",
              "previous", "write", "list", "prune", "failed"}

Bridge == [pc : {"idle", "exec", "ask", "serve"} \cup Following,
           from : Versions \cup {None},      \* the managed program it runs
           want : Versions \cup {None},      \* the version it installs
           previous : Versions \cup {None},  \* the version it keeps besides
           left : SUBSET Versions]           \* the folders it will remove

Idle == [pc |-> "idle", from |-> None, want |-> None, previous |-> None,
         left |-> {}]

(* ManagedClient: the version current names, if its program is there. *)
ManagedClient == IF current # None /\ folder[current] = "program"
                 THEN current ELSE None

(* reportsVersion: versions/v holds a program that says it is v. *)
ReportsVersion(v) == folder[v] = "program"

Goes(p, pc) == bridge' = [bridge EXCEPT ![p].pc = pc]

Steps(p, from, to) == bridge[p].pc = from /\ Goes(p, to)

(***************************************************************************)
(* A session.                                                              *)
(***************************************************************************)

(* runManagedClient and HandOffTarget: only a newer managed client is run. *)
HandOff(p) ==
  /\ bridge[p].pc = "idle"
  /\ LET target == ManagedClient
     IN IF target # None /\ target > Bundled[p]
        THEN bridge' = [bridge EXCEPT ![p].pc = "exec", ![p].from = target]
        ELSE Goes(p, "ask")
  /\ UNCHANGED <<server, machine, managed, counts>>

(* handOff: the program may be gone by now, then the bundled client stays. *)
Exec(p) ==
  /\ bridge[p].pc = "exec"
  /\ bridge' = [bridge EXCEPT ![p].pc = "ask",
                  ![p].from = IF folder[@] = "program" THEN @ ELSE None]
  /\ UNCHANGED <<server, machine, managed, counts>>

Fails == failures + quits < MaxTroubles /\ failures' = failures + 1

(* FollowServer: nothing when updates are off; else the server's version. *)
(* A server that cannot be asked leaves no error behind.                  *)
FollowServer(p) ==
  /\ bridge[p].pc = "ask"
  /\ \/ /\ off
        /\ Goes(p, "serve")
        /\ UNCHANGED failures
     \/ /\ ~off
        /\ bridge' = [bridge EXCEPT ![p].pc = "compare", ![p].want = server]
        /\ UNCHANGED failures
     \/ /\ ~off
        /\ Fails
        /\ Goes(p, "serve")
  /\ UNCHANGED <<server, machine, managed, changes, quits>>

\* Mutant: only client/current is compared, not whether its program is there.
Follow_Named(p) ==
  /\ bridge[p].pc = "compare"
  /\ Goes(p, IF current = bridge[p].want THEN "serve" ELSE "install")
  /\ UNCHANGED <<server, machine, managed, counts>>

(* Follow: nothing to do when the managed client is the server's version. *)
Follow(p) ==
  /\ bridge[p].pc = "compare"
  /\ Goes(p, IF ManagedClient = bridge[p].want THEN "serve" ELSE "install")
  /\ UNCHANGED <<server, machine, managed, counts>>

(***************************************************************************)
(* Install.                                                                *)
(***************************************************************************)

(* A version kept from before is used without a download. *)
Install(p) ==
  /\ bridge[p].pc = "install"
  /\ Goes(p, IF ReportsVersion(bridge[p].want) THEN "previous" ELSE "download")
  /\ UNCHANGED <<server, machine, managed, counts>>

\* Mutant: the version becomes current before its folder is in place.
Download_Early(p) ==
  /\ \/ Steps(p, "download", "previous") /\ UNCHANGED failures
     \/ Steps(p, "download", "failed") /\ Fails
  /\ UNCHANGED <<server, machine, managed, changes, quits>>

(* Checksums, archive, extraction and the staged program's own report: any *)
(* of them may fail, and nothing but the staging folder is touched.        *)
Download(p) ==
  /\ \/ Steps(p, "download", "rename") /\ UNCHANGED failures
     \/ Steps(p, "download", "failed") /\ Fails
  /\ UNCHANGED <<server, machine, managed, changes, quits>>

(* os.Rename of the staging folder: refused when the folder exists. *)
Rename(p) ==
  /\ bridge[p].pc = "rename"
  /\ LET v == bridge[p].want
     IN IF folder[v] = "absent"
        THEN folder' = [folder EXCEPT ![v] = "program"] /\ Goes(p, "previous")
        ELSE UNCHANGED folder /\ Goes(p, "recheck")
  /\ UNCHANGED <<server, machine, current, lastError, before, counts>>

(* The folder that is in the way is used only if it holds the version. *)
Recheck(p) ==
  /\ bridge[p].pc = "recheck"
  /\ Goes(p, IF ReportsVersion(bridge[p].want) THEN "previous" ELSE "failed")
  /\ UNCHANGED <<server, machine, managed, counts>>

\* Mutant: the previous version is read after current was replaced.
MakeCurrent_After(p) ==
  /\ bridge[p].pc = "previous"
  /\ bridge' = [bridge EXCEPT ![p].pc = "write",
                              ![p].previous = bridge[p].want]
  /\ UNCHANGED <<server, machine, managed, counts>>

(* makeCurrent, first half: what is current now will be kept. *)
MakeCurrent(p) ==
  /\ bridge[p].pc = "previous"
  /\ bridge' = [bridge EXCEPT ![p].pc = "write", ![p].previous = ManagedClient]
  /\ UNCHANGED <<server, machine, managed, counts>>

(* writeAtomic replaces client/current or fails without touching it. *)
WriteCurrent(p) ==
  /\ \/ /\ Steps(p, "write", "list")
        /\ current' = bridge[p].want
        /\ before' = IF ManagedClient \in {None, bridge[p].want}
                     THEN before ELSE ManagedClient
        /\ UNCHANGED failures
     \/ /\ Steps(p, "write", "failed")
        /\ Fails
        /\ UNCHANGED <<current, before>>
  /\ UNCHANGED <<server, machine, folder, lastError, changes, quits>>

\* Mutant: only versions older than the new one are pruned.
ListVersions_Older(p) ==
  /\ bridge[p].pc = "list"
  /\ lastError' = None
  /\ bridge' = [bridge EXCEPT ![p].pc = "prune",
       ![p].left = {v \in Versions : folder[v] # "absent" /\ v < bridge[p].want}
                     \ {bridge[p].previous}]
  /\ UNCHANGED <<server, machine, current, folder, before, counts>>

(* makeCurrent removes last-error, pruneVersions lists what is to go. *)
ListVersions(p) ==
  /\ bridge[p].pc = "list"
  /\ lastError' = None
  /\ bridge' = [bridge EXCEPT ![p].pc = "prune",
       ![p].left = {v \in Versions : folder[v] # "absent"}
                     \ {bridge[p].want, bridge[p].previous}]
  /\ UNCHANGED <<server, machine, current, folder, before, counts>>

Locked(v) == windows /\ \E q \in Bridges : bridge[q].from = v

(* The directory's order is that of names, not of versions. *)
First(S) == CHOOSE v \in S : TRUE

(* pruneVersions, one step of one os.RemoveAll: the program, the folder,  *)
(* or the next entry.  An entry that cannot be removed is passed over.    *)
PruneVersions(p) ==
  /\ bridge[p].pc = "prune"
  /\ IF bridge[p].left = {}
     THEN Goes(p, "serve") /\ UNCHANGED folder
     ELSE LET v == First(bridge[p].left)
              next == [bridge EXCEPT ![p].left = @ \ {v}]
          IN \/ /\ folder[v] = "program" /\ ~Locked(v)
                /\ folder' = [folder EXCEPT ![v] = "empty"]
                /\ UNCHANGED bridge
             \/ /\ folder[v] = "program" /\ Locked(v)
                /\ bridge' = next
                /\ UNCHANGED folder
             \/ /\ folder[v] # "program"
                /\ folder' = [folder EXCEPT ![v] = "absent"]
                /\ bridge' = next
  /\ UNCHANGED <<server, machine, current, lastError, before, counts>>

(* Follow saves why an installation failed. *)
SaveError(p) ==
  /\ Steps(p, "failed", "serve")
  /\ lastError' = bridge[p].want
  /\ UNCHANGED <<server, machine, current, folder, before, counts>>

(***************************************************************************)
(* The agent, the owner and the server.                                    *)
(***************************************************************************)

(* The agent ends its session after the self-update has returned. *)
EndSession(p) ==
  /\ bridge[p].pc = "serve"
  /\ bridge' = [bridge EXCEPT ![p] = Idle]
  /\ UNCHANGED <<server, machine, managed, counts>>

(* The agent ends its session while the self-update still runs behind the *)
(* bridge: the process exits and the goroutine with it.                   *)
Quit(p) ==
  /\ bridge[p].pc \in Following
  /\ failures + quits < MaxTroubles
  /\ quits' = quits + 1
  /\ bridge' = [bridge EXCEPT ![p] = Idle]
  /\ UNCHANGED <<server, machine, managed, changes, failures>>

(* The server is upgraded or rolled back. *)
ServerChanges ==
  /\ changes < MaxChanges
  /\ changes' = changes + 1
  /\ server' \in Versions \ {server}
  /\ UNCHANGED <<machine, managed, bridge, failures, quits>>

Init ==
  /\ server = FirstServer
  /\ agents \in SUBSET Bridges \ {{}}
  /\ off \in BOOLEAN /\ windows \in BOOLEAN
  /\ current = None
  /\ folder = [v \in Versions |-> "absent"]
  /\ lastError = None
  /\ before = None
  /\ bridge = [p \in Bridges |-> Idle]
  /\ changes = 0 /\ failures = 0 /\ quits = 0

Step(p) ==
  \/ HandOff(p) \/ Exec(p) \/ FollowServer(p) \/ Follow(p) \/ Install(p)
  \/ Download(p) \/ Rename(p) \/ Recheck(p) \/ MakeCurrent(p)
  \/ WriteCurrent(p) \/ ListVersions(p) \/ PruneVersions(p) \/ SaveError(p)
  \/ EndSession(p)

Next == (\E p \in agents : Step(p) \/ Quit(p)) \/ ServerChanges

Safety == Init /\ [][Next]_vars

(* A bridge that runs goes on; agents keep opening sessions. *)
Spec == Safety /\ \A p \in Bridges : WF_vars(p \in agents /\ Step(p))

(***************************************************************************)
(* Properties.                                                             *)
(***************************************************************************)

(* The types, and what a bridge knows at each step: it hands off only to a *)
(* client newer than its own and installs only a version it was told of.   *)
TypeOK ==
  /\ server \in Versions /\ agents \subseteq Bridges /\ {off, windows} \subseteq BOOLEAN
  /\ {current, lastError, before} \subseteq Versions \cup {None}
  /\ folder \in [Versions -> Folders]
  /\ bridge \in [Bridges -> Bridge]
  /\ {changes, failures, quits} \subseteq Nat
  /\ \A p \in Bridges :
       /\ bridge[p].from # None => bridge[p].from > Bundled[p]
       /\ bridge[p].pc \in Following => bridge[p].want # None

(* With one agent on the machine, client/current never names a version     *)
(* whose program is missing, wherever Install, makeCurrent or              *)
(* pruneVersions was cut short.                                            *)
CurrentInstalled ==
  Cardinality(agents) = 1 /\ current # None => folder[current] = "program"

(* With one agent on the machine, the version that was current before the  *)
(* last switch keeps its program ("The previous current version is kept    *)
(* for rollback", Install), whatever was cut short and retried since.      *)
PreviousKept ==
  Cardinality(agents) = 1 /\ before # None => folder[before] = "program"

(* "at most two" downloaded clients: however several bridges overlapped,   *)
(* once none of them is installing or pruning at most two folders are      *)
(* left, if no disk failed and nobody cut a bridge short.                  *)
TwoAtRest ==
  /\ ~windows /\ failures = 0 /\ quits = 0
  /\ \A p \in agents : bridge[p].pc \notin Following
  => Cardinality({v \in Versions : folder[v] # "absent"}) <= 2

(* When the server stays at a version, sooner or later the managed client  *)
(* is that version and stays it, whatever slower bridges installed or      *)
(* pruned in between, as long as no agent ends a bridge that is still at   *)
(* it.                                                                     *)
Follows == [](quits = 0) => <>[](off \/ ManagedClient = server)

(* FollowServer "makes the managed client match the server's version, in   *)
(* either direction, so a server rollback also rolls clients back".        *)
MatchesServer == <>[](off \/ ManagedClient = server)
=============================================================================
