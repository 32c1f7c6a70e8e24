--------------------------- MODULE ServerUpgrade ---------------------------
(***************************************************************************)
(* grasshopper-server upgrade (cmd/grasshopper-server/upgrade.go): a       *)
(* launchd service moves between release archives, by a nightly job, by    *)
(* hand (--to) or back (--rollback).                                       *)
(*                                                                         *)
(* An exclusive lock allows one run at a time; a run that is killed lets   *)
(* go of it.  A version stands for its archive folder.  The links are      *)
(* replaced atomically; between two changes on disk the run may be killed, *)
(* whatever needs the network, the new server or a tool may fail, and so   *)
(* may writing the plist back and the skip file.                           *)
(***************************************************************************)
EXTENDS Naturals

CONSTANTS
  MaxVersion,   \* bound: releases that are ever published, 1 .. MaxVersion
  MaxCrashes    \* bound: runs that are killed

ASSUME BoundsAssumption == MaxVersion \in Nat \ {0} /\ MaxCrashes \in Nat

Versions == 1 .. MaxVersion
None == 0

VARIABLES
  latest,     \* the newest published release
  archives,   \* the archives extracted on this machine
  plist,      \* the archive the service's plist names, None once it names current
  current,    \* the current link
  previous,   \* the previous link
  skip,       \* the skip-version file
  job,        \* launchd's state of the service
  loaded,     \* the archive launchd's copy of the plist names, None for current
  slowStop,   \* whether launchd may need longer than unloadWait to stop a job
  run,        \* the upgrade or rollback in progress
  proven,     \* history: the version last found healthy
  backedOut,  \* history: releases rolled back or failed, and not healthy since
  unrestored, \* history: moving the service failed and so did putting it back
  unrecorded, \* history: some backed out release was never written to the skip file
  crashes

vars == <<latest, archives, plist, current, previous, skip, job, loaded, slowStop,
          run, proven, backedOut, unrestored, unrecorded, crashes>>
disk == <<archives, plist, current, previous, skip>>
launchd == <<job, loaded, slowStop>>
history == <<proven, backedOut, unrestored, unrecorded>>

Idle == [pc |-> "idle", kind |-> "none", target |-> None, running |-> None, before |-> None]

Run == [pc : {"idle", "fetch", "backup", "adopt", "replace", "bootout", "unload", "bootstrap",
              "backout", "undo", "reload", "mark", "switch", "health", "restore", "unmark", "failed", "settle", "prune"},
        kind : {"none", "nightly", "explicit", "rollback"},
        target : Versions \cup {None}, running : Versions \cup {None}, before : Versions \cup {None}]

\* The archive the service runs from.
Program == IF plist = None THEN current ELSE plist

Goes(pc) == run' = [run EXCEPT !.pc = pc]

Ends == run' = Idle

----------------------------------------------------------------------------
\* upgrade with the target known: nothing to do if the server runs it already.
Begins(kind, target) ==
  /\ run = Idle
  /\ target # Program
  /\ run' = [Idle EXCEPT !.pc = "fetch", !.kind = kind, !.target = target, !.running = Program]
  /\ UNCHANGED <<latest, disk, launchd, history, crashes>>

\* Mutant: any skip record stops the nightly job.
Nightly_AnySkip ==
  /\ latest > Program
  /\ skip = None
  /\ Begins("nightly", latest)

\* The nightly job names no release: it only moves forward, past the skip file.
Nightly ==
  /\ latest > Program
  /\ skip # latest
  /\ Begins("nightly", latest)

\* upgrade --to.
Explicit(target) == target <= latest /\ Begins("explicit", target)

\* upgrade --rollback.
Rollback ==
  /\ run = Idle
  /\ plist = None /\ previous # None
  /\ run' = [Idle EXCEPT !.pc = "mark", !.kind = "rollback", !.target = previous]
  /\ UNCHANGED <<latest, disk, launchd, history, crashes>>

\* fetchArchive: staged, then renamed into place.
Fetch ==
  /\ run.pc = "fetch"
  /\ archives' = archives \cup {run.target}
  /\ Goes("backup")
  /\ UNCHANGED <<latest, plist, current, previous, skip, launchd, history, crashes>>

\* backup; a plist that names an archive is then moved onto the current link.
Backup ==
  /\ run.pc = "backup"
  /\ Goes(IF plist = None THEN "mark" ELSE "adopt")
  /\ UNCHANGED <<latest, disk, launchd, history, crashes>>

\* The download or the backup fails: nothing has changed.
GivesUp ==
  /\ run.pc \in {"fetch", "backup"}
  /\ Ends
  /\ UNCHANGED <<latest, disk, launchd, history, crashes>>

\* adopt: the current link is made first.
Adopt ==
  /\ run.pc = "adopt"
  /\ current' = run.running
  /\ Goes("replace")
  /\ UNCHANGED <<latest, archives, plist, previous, skip, launchd, history, crashes>>

\* The plist is moved onto it.  When plutil refuses, the old plist stays or goes back,
\* unless copying it back fails too.
Replace ==
  /\ run.pc = "replace"
  /\ \/ plist' = None /\ Goes("bootout")
     \/ plist' \in {plist, None} /\ Ends
  /\ UNCHANGED <<latest, archives, current, previous, skip, launchd, history, crashes>>

\* unload: the job is booted out, before and, if that fails, after it is loaded
\* from its new place ...
Bootout ==
  /\ \/ run.pc = "bootout" /\ Goes("unload")
     \/ run.pc = "backout" /\ Goes("undo")
  /\ job' = IF job = "loaded" THEN "stopping" ELSE job
  /\ UNCHANGED <<latest, disk, loaded, slowStop, history, crashes>>

\* ... and returns once launchd no longer lists it, or gives up waiting; the old
\* plist then goes back, if it can be copied.
TimedOut == slowStop /\ job = "stopping"

Unload ==
  /\ run.pc = "unload"
  /\ \/ job = "unloaded" /\ Goes("bootstrap") /\ UNCHANGED plist
     \/ TimedOut /\ plist' \in {run.running, plist} /\ Ends
  /\ UNCHANGED <<latest, archives, current, previous, skip, launchd, history, crashes>>

\* launchctl bootstrap and the health check of the same version from its new
\* place.
Bootstrap ==
  /\ run.pc = "bootstrap"
  /\ \/ job' = "loaded" /\ loaded' = plist /\ proven' = run.running /\ unrestored' = FALSE /\ Goes("mark")
     \/ job' = "loaded" /\ loaded' = plist /\ UNCHANGED <<proven, unrestored>> /\ Goes("backout")
     \/ UNCHANGED <<job, loaded, proven, unrestored>> /\ Goes("backout")
  /\ UNCHANGED <<latest, disk, slowStop, backedOut, unrecorded, crashes>>

\* The old plist goes back, unless it cannot be copied ...
Undo ==
  /\ run.pc = "undo"
  /\ \/ job = "unloaded" /\ plist' = run.running /\ UNCHANGED unrestored /\ Goes("reload")
     \/ job = "unloaded" /\ UNCHANGED plist /\ unrestored' = TRUE /\ Ends
     \/ TimedOut /\ plist' \in {run.running, plist} /\ UNCHANGED unrestored /\ Ends
  /\ UNCHANGED <<latest, archives, current, previous, skip, launchd, proven, backedOut, unrecorded, crashes>>

\* Mutant: the plist is back and the job is left to launchd.
Reload_Not ==
  /\ run.pc = "reload"
  /\ Ends
  /\ UNCHANGED <<latest, disk, launchd, history, crashes>>

\* ... and is loaded, if the job was gone in time, unless launchctl bootstrap fails again.
Reload ==
  /\ run.pc = "reload"
  /\ \/ job' = "loaded" /\ loaded' = plist /\ unrestored' = FALSE
     \/ UNCHANGED <<job, loaded>> /\ unrestored' = TRUE
  /\ Ends
  /\ UNCHANGED <<latest, disk, slowStop, proven, backedOut, unrecorded, crashes>>

\* Mutant: previous is left alone until the new server is healthy.
Mark_Later ==
  /\ run.pc = "mark"
  /\ run' = [run EXCEPT !.pc = "switch", !.running = current, !.before = previous]
  /\ UNCHANGED <<latest, disk, launchd, history, crashes>>

\* cutover: previous names the archive in use before anything is restarted.
Mark ==
  /\ run.pc = "mark"
  /\ previous' = current
  /\ run' = [run EXCEPT !.pc = "switch", !.running = current, !.before = previous]
  /\ UNCHANGED <<latest, archives, plist, current, skip, launchd, history, crashes>>

\* restartOn: current names the target and launchd restarts the job.
Switch ==
  /\ run.pc = "switch"
  /\ current' = run.target
  /\ Goes("health")
  /\ UNCHANGED <<latest, archives, plist, previous, skip, launchd, history, crashes>>

\* waitHealthy: the job reports the target's version and answers a search, or does
\* not in time.  kickstart restarts what launchd has loaded: without a job, or with a
\* copy that still names an archive, left by a crash in adopt, the target never answers.
Health ==
  /\ run.pc = "health"
  /\ \/ /\ job = "loaded" /\ loaded \in {None, run.target}
        /\ proven' = run.target
        /\ backedOut' = (backedOut \ {run.target}) \cup (IF run.kind = "rollback" THEN {run.running} ELSE {})
        /\ Goes("settle")
     \/ /\ backedOut' = backedOut \cup {run.target}
        /\ Goes("restore")
        /\ UNCHANGED proven
  /\ UNCHANGED <<latest, disk, launchd, unrestored, unrecorded, crashes>>

\* Mutant: a failed cutover leaves current where it is.
Restore_Nothing ==
  /\ run.pc = "restore"
  /\ Goes("unmark")
  /\ UNCHANGED <<latest, disk, launchd, history, crashes>>

\* A failed cutover: current goes back and the old server restarts ...
Restore ==
  /\ run.pc = "restore"
  /\ current' = run.running
  /\ Goes("unmark")
  /\ UNCHANGED <<latest, archives, plist, previous, skip, launchd, history, crashes>>

\* ... previous goes back ...
Unmark ==
  /\ run.pc = "unmark"
  /\ previous' = run.before
  /\ IF run.kind = "rollback" THEN Ends ELSE Goes("failed")
  /\ UNCHANGED <<latest, archives, plist, current, skip, launchd, history, crashes>>

\* recordSkip: a failed write is only reported, and may leave the file as it was or
\* empty.
RecordSkip(version) ==
  \/ skip' = version /\ UNCHANGED unrecorded
  \/ skip' \in {skip, None} /\ unrecorded' = TRUE

\* ... and an upgrade records the release it backed out.
Failed ==
  /\ run.pc = "failed"
  /\ RecordSkip(run.target)
  /\ Ends
  /\ UNCHANGED <<latest, archives, plist, current, previous, launchd, proven, backedOut, unrestored, crashes>>

\* Success: a rollback records the release it left, an upgrade removes a record
\* that is not newer than its target, or tries to.
Settle ==
  /\ run.pc = "settle"
  /\ \/ run.kind = "rollback" /\ RecordSkip(run.running) /\ Ends
     \/ /\ run.kind # "rollback"
        /\ \/ UNCHANGED skip
           \/ run.target >= skip /\ skip' = None
        /\ Goes("prune") /\ UNCHANGED unrecorded
  /\ UNCHANGED <<latest, archives, plist, current, previous, launchd, proven, backedOut, unrestored, crashes>>

\* Mutant: only the archive in use is kept.
Prune_KeepsCurrent ==
  /\ run.pc = "prune"
  /\ archives' = archives \cap {current}
  /\ Ends
  /\ UNCHANGED <<latest, plist, current, previous, skip, launchd, history, crashes>>

\* pruneArchives.
Prune ==
  /\ run.pc = "prune"
  /\ archives' = archives \cap {current, previous}
  /\ Ends
  /\ UNCHANGED <<latest, plist, current, previous, skip, launchd, history, crashes>>

\* The run has found a release to skip and has not recorded it yet.
Owes ==
  IF run.kind = "rollback" THEN run.pc = "settle" ELSE run.pc \in {"restore", "unmark", "failed"}

\* The run is killed, perhaps while it rewrites the skip file.
Crash ==
  /\ run # Idle /\ crashes < MaxCrashes
  /\ crashes' = crashes + 1
  /\ Ends
  /\ unrecorded' = (unrecorded \/ Owes)
  /\ \/ UNCHANGED skip
     \/ Owes /\ run.pc \in {"failed", "settle"} /\ skip' = None
  /\ UNCHANGED <<latest, archives, plist, current, previous, launchd, proven, backedOut, unrestored>>

\* launchd finishes stopping a job.
Stopped ==
  /\ job = "stopping"
  /\ job' = "unloaded"
  /\ UNCHANGED <<latest, disk, loaded, slowStop, run, history, crashes>>

Release ==
  /\ latest < MaxVersion
  /\ latest' = latest + 1
  /\ UNCHANGED <<disk, launchd, run, history, crashes>>

\* A service set up from an archive: its plist still names the folder.
Init ==
  /\ latest = 1 /\ archives = {1} /\ plist = 1
  /\ current = None /\ previous = None /\ skip = None
  /\ job = "loaded" /\ loaded = 1 /\ slowStop \in BOOLEAN /\ run = Idle
  /\ proven = 1 /\ backedOut = {} /\ unrestored = FALSE /\ unrecorded = FALSE /\ crashes = 0

Step ==
  \/ Adopt \/ Replace \/ Bootout \/ Unload \/ Bootstrap \/ Undo \/ Reload
  \/ Mark \/ Switch \/ Health \/ Restore \/ Unmark \/ Failed \/ Settle \/ Prune

Next ==
  \/ Nightly \/ Rollback \/ \E target \in Versions : Explicit(target)
  \/ Fetch \/ Backup \/ GivesUp \/ Step
  \/ Crash \/ Stopped \/ Release

Safety == Init /\ [][Next]_vars

Succeeds(pc) ==
  /\ run.kind = "nightly" /\ run.pc = pc
  /\ Fetch \/ Backup \/ Step
  /\ run'.pc \notin {"idle", "backout"}

\* The record of a night's failure is written.
Recorded == run.kind = "nightly" /\ Failed /\ skip' = run.target

\* A run goes on, launchd stops what it was told to stop, the nightly job gets
\* its turn among runs by hand, and downloads, backups, the move onto the current
\* link and the skip file's writes do not fail every night.
Spec ==
  /\ Safety
  /\ WF_vars(Step) /\ WF_vars(Fetch \/ Backup \/ GivesUp) /\ WF_vars(Stopped)
  /\ SF_vars(Nightly)
  /\ \A pc \in {"fetch", "backup", "replace", "bootstrap"} : SF_vars(Succeeds(pc))
  /\ SF_vars(Recorded)

----------------------------------------------------------------------------
\* The links, the files and the run are well-formed.
TypeOK ==
  /\ latest \in Versions /\ archives \subseteq Versions
  /\ {plist, current, previous, skip, loaded} \subseteq Versions \cup {None}
  /\ job \in {"loaded", "stopping", "unloaded"}
  /\ slowStop \in BOOLEAN /\ run \in Run
  /\ proven \in Versions /\ backedOut \subseteq Versions
  /\ unrestored \in BOOLEAN /\ unrecorded \in BOOLEAN

\* What the service runs and what --rollback would run are on disk, at every
\* moment of an upgrade and after every crash: pruning never removes them.
ArchivesKept == Program \in archives /\ (previous # None => previous \in archives)

\* Without a crash a run that failed leaves the service on the version last
\* found healthy.
FailureRestores == run = Idle /\ crashes = 0 => Program = proven

\* "A crash mid-cutover still leaves rollback aimed at" the old archive: if a
\* crash leaves the service on a version that was never found healthy, previous
\* names the one that was.
RollbackAimed == run = Idle /\ Program # proven => previous = proven

\* "On failure the old plist goes back": where launchd stops jobs in time, no run that
\* ends by itself leaves the service unloaded, whichever step of moving it onto the
\* current link failed, unless putting it back failed as well (the plist could not be
\* copied or loaded) and no later run has loaded it.
ServiceKept == run = Idle /\ crashes = 0 /\ ~slowStop /\ ~unrestored => job # "unloaded"

\* The nightly job "never retries a release that was rolled back or failed its health
\* check", at least if the record of each could be written before its run was killed.
NeverRetried ==
  [][~unrecorded /\ run = Idle /\ run'.kind = "nightly" => run'.target \notin backedOut]_vars

\* Where launchd stops jobs in time, a release after the one installed first is installed sooner or later,
\* unless the skip file comes to name it or a newer one is published: no failed night,
\* crash, leftover of one or record of another release stops the nightly job from
\* trying it.
Converges ==
  \A v \in 2 .. MaxVersion : (latest = v /\ ~slowStop) ~> (Program >= v \/ skip = v \/ latest # v)
============================================================================
