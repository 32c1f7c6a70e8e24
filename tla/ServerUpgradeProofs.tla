------------------------- MODULE ServerUpgradeProofs -------------------------
(***************************************************************************)
(* Proofs about ServerUpgrade, for any number of releases.                 *)
(***************************************************************************)
EXTENDS ServerUpgrade, TLAPS

\* The stages of a run: before it changes anything, moving the service onto the
\* current link, the cutover until it is known to be healthy, and after it.
Preparing == {"fetch", "backup", "adopt"}
Told      == {"bootout", "unload", "bootstrap", "backout"}
Moving    == {"replace", "undo", "reload"} \cup Told
Cutover   == {"switch", "health", "restore", "unmark"}
Closing   == {"failed", "settle", "prune"}

\* Which values the run, the links and the plist share at which stage.
Aligned ==
  /\ run.pc # "idle" => run.target # None
  /\ run.pc \in Preparing => run.running = Program
  /\ run.pc \in Moving \cup {"adopt"} => run.running # None
  /\ run.pc \in Moving => current = run.running /\ plist \in {None, run.running}
  /\ run.pc \in Told \cup Cutover \cup Closing \cup {"mark"} => plist = None
  /\ run.pc \in {"adopt", "reload"} => plist = run.running
  /\ run.pc = "switch" => current = run.running
  /\ run.pc \in {"switch", "health", "restore", "unmark", "settle"} => previous = run.running
  /\ run.pc \in {"health", "settle"} => current = run.target
  /\ run.pc = "unmark" => current = run.running

\* What the service, --rollback and the run in progress need is on disk.
OnDisk ==
  /\ ArchivesKept
  /\ run.pc \notin {"idle", "fetch"} \cup Closing => run.target \in archives
  /\ run.pc \in Preparing \cup Moving \cup Cutover \cup {"settle"} => run.running \in archives
  /\ run.pc \in Cutover /\ run.before # None => run.before \in archives

\* Without a kill the service is on a proven version except while it is tried out.
Restoring ==
  IF run.pc \in {"health", "restore"} THEN run.running = proven ELSE Program = proven

\* After a kill the proven version is the service's or the one rollback would run,
\* and a cutover keeps it where it will put it back.
Aimed ==
  /\ run.pc \notin Cutover => proven \in {Program, previous}
  /\ run.pc \in Cutover => proven \in {run.running, run.before}

\* launchd has the job, or putting it back has failed.
Kept == job = "loaded" \/ (job = "unloaded" /\ unrestored)

\* Without a kill it is kept, or the run in progress will load it or fail to.
Serving ==
  /\ run.pc \notin Moving => Kept
  /\ run.pc \in {"replace", "bootout"} => Kept
  /\ run.pc \in {"unload", "undo"} => job \in {"stopping", "unloaded"}
  /\ run.pc \in {"bootstrap", "reload"} => job = "unloaded"
  /\ run.pc = "backout" => job \in {"loaded", "unloaded"}

UpgradeInv ==
  /\ TypeOK /\ crashes \in Nat
  /\ run.pc = "idle" => run = Idle
  /\ Aligned /\ OnDisk
  /\ crashes = 0 => Restoring
  /\ crashes = 0 /\ ~slowStop => Serving

\* The stage a run goes to is all that changes in it.
LEMMA GoesTo ==
  ASSUME run \in Run, NEW pc, Goes(pc)
  PROVE  /\ run'.pc = pc /\ run'.kind = run.kind /\ run'.target = run.target
         /\ run'.running = run.running /\ run'.before = run.before
         /\ (\E r \in Run : r.pc = pc) => run' \in Run
  BY DEF Goes, Run

LEMMA IdleRun == Idle \in Run /\ Idle.pc = "idle" /\ Idle.target = None /\ Idle.running = None /\ Idle.before = None
  BY DEF Idle, Run, None

\* A run as it begins, and a rollback.
LEMMA BegunRun ==
  ASSUME NEW kind \in {"nightly", "explicit"}, NEW target \in Versions, NEW running \in Versions \cup {None},
         run' = [Idle EXCEPT !.pc = "fetch", !.kind = kind, !.target = target, !.running = running]
  PROVE  /\ run'.pc = "fetch" /\ run'.kind = kind /\ run'.target = target
         /\ run'.running = running /\ run'.before = None /\ run' \in Run
  BY DEF Idle, Run

LEMMA BackRun ==
  ASSUME NEW target \in Versions \cup {None},
         run' = [Idle EXCEPT !.pc = "mark", !.kind = "rollback", !.target = target]
  PROVE  /\ run'.pc = "mark" /\ run'.kind = "rollback" /\ run'.target = target
         /\ run'.running = None /\ run'.before = None /\ run' \in Run
  BY DEF Idle, Run

LEMMA UpgradeInit == Init => UpgradeInv
  <1>1. Init => unrestored \in BOOLEAN /\ unrecorded \in BOOLEAN
    BY Zenon DEF Init
  <1> QED BY <1>1, IdleRun, BoundsAssumption DEF Init, UpgradeInv, TypeOK, Versions, None, Aligned, OnDisk, ArchivesKept, Restoring,
    Serving, Kept, Program, Preparing, Told, Moving, Cutover, Closing

\* Every step of a run, of launchd and of the releases keeps the invariant.
LEMMA UpgradeStep == UpgradeInv /\ [Next]_vars => UpgradeInv'
  <1> SUFFICES ASSUME UpgradeInv, [Next]_vars
               PROVE  UpgradeInv'
    OBVIOUS
  <1> USE GoesTo, IdleRun DEF UpgradeInv, TypeOK, Aligned, OnDisk, ArchivesKept, Restoring, Serving, Kept,
            Program, Preparing, Told, Moving, Cutover, Closing, disk, launchd, history, Goes, Ends, None, Versions
  <1>1. CASE Fetch
    BY <1>1 DEF Fetch, Run
  <1>2. CASE Backup
    BY <1>2 DEF Backup, Run
  <1>3. CASE GivesUp
    BY <1>3 DEF GivesUp
  <1>4. CASE Adopt
    BY <1>4 DEF Adopt, Run
  <1>5. CASE Replace
    BY <1>5 DEF Replace, Run
  <1>6. CASE Bootout
    BY <1>6 DEF Bootout, Run
  <1>7. CASE Unload
    BY <1>7 DEF Unload, TimedOut, Run
  <1>8. CASE Bootstrap
    <2>1. unrestored' \in BOOLEAN /\ unrecorded' \in BOOLEAN
      BY <1>8, Zenon DEF Bootstrap
    <2> QED BY <1>8, <2>1 DEF Bootstrap, Run
  <1>9. CASE Undo
    <2>1. unrestored' \in BOOLEAN /\ unrecorded' \in BOOLEAN
      BY <1>9, Zenon DEF Undo
    <2>2. CASE run'.pc = "reload"
      BY <1>9, <2>1, <2>2 DEF Undo, Run
    <2>3. CASE run' = Idle
      BY <1>9, <2>1, <2>3 DEF Undo, TimedOut
    <2> QED BY <1>9, <2>2, <2>3 DEF Undo, Run
  <1>10. CASE Reload
    BY <1>10 DEF Reload
  <1>11. CASE Mark
    <2>1. /\ run'.pc = "switch" /\ run'.kind = run.kind /\ run'.target = run.target
          /\ run'.running = current /\ run'.before = previous /\ run' \in Run
      BY <1>11 DEF Mark, Run
    <2> QED BY <1>11, <2>1 DEF Mark
  <1>12. CASE Switch
    BY <1>12 DEF Switch, Run
  <1>13. CASE Health
    BY <1>13 DEF Health, Run
  <1>14. CASE Restore
    BY <1>14 DEF Restore, Run
  <1>15. CASE Unmark
    BY <1>15 DEF Unmark, Run
  <1>16. CASE Failed
    <2>1. unrestored' \in BOOLEAN /\ unrecorded' \in BOOLEAN
      BY <1>16, Zenon DEF Failed, RecordSkip
    <2> QED BY <1>16, <2>1 DEF Failed, RecordSkip, Run
  <1>17. CASE Settle
    <2>1. CASE run.kind = "rollback"
      <3>1. /\ run.pc = "settle" /\ run' = Idle /\ skip' \in Versions \cup {None}
            /\ unrecorded' \in BOOLEAN
            /\ UNCHANGED <<latest, archives, plist, current, previous, job, loaded, slowStop, proven,
                          backedOut, unrestored, crashes>>
        BY <1>17, <2>1 DEF Settle, RecordSkip, Run
      <3> QED BY <2>1, <3>1
    <2>2. CASE run.kind # "rollback"
      <3>1. /\ run'.pc = "prune" /\ run'.kind = run.kind /\ run'.target = run.target
            /\ run'.running = run.running /\ run'.before = run.before /\ run' \in Run
        BY <1>17, <2>2 DEF Settle, Run
      <3> QED BY <1>17, <2>2, <3>1 DEF Settle
    <2> QED BY <2>1, <2>2
  <1>18. CASE Prune
    BY <1>18 DEF Prune
  <1>19. CASE Crash
    <2>1. unrecorded' \in BOOLEAN
      BY <1>19 DEF Crash, Owes
    <2> QED BY <1>19, <2>1 DEF Crash
  <1>20. CASE Stopped
    BY <1>20 DEF Stopped
  <1>21. CASE Release
    BY <1>21, BoundsAssumption DEF Release
  <1>22. CASE Rollback
    <2>1. /\ run'.pc = "mark" /\ run'.kind = "rollback" /\ run'.target = previous
          /\ run'.running = None /\ run'.before = None /\ run' \in Run
      BY <1>22, BackRun DEF Rollback
    <2> QED BY <1>22, <2>1 DEF Rollback
  <1>23. ASSUME NEW kind \in {"nightly", "explicit"}, NEW target \in Versions, Begins(kind, target)
         PROVE  UpgradeInv'
    <2>1. /\ run'.pc = "fetch" /\ run'.kind = kind /\ run'.target = target
          /\ run'.running = Program /\ run'.before = None /\ run' \in Run
      <3>1. Program \in Versions \cup {None}
        OBVIOUS
      <3>2. run' = [Idle EXCEPT !.pc = "fetch", !.kind = kind, !.target = target, !.running = Program]
        BY <1>23 DEF Begins
      <3> HIDE GoesTo, IdleRun DEF Program, UpgradeInv, Versions, None
      <3> QED BY <3>1, <3>2, BegunRun
    <2> QED BY <1>23, <2>1 DEF Begins
  <1>24. CASE UNCHANGED vars
    BY <1>24 DEF vars
  <1>25. CASE Nightly \/ \E target \in Versions : Explicit(target)
    <2>1. latest \in Versions
      OBVIOUS
    <2> HIDE DEF UpgradeInv
    <2> QED BY <1>23, <1>25, <2>1 DEF Nightly, Explicit
  <1> HIDE DEF UpgradeInv
  <1> QED BY <1>1, <1>2, <1>3, <1>4, <1>5, <1>6, <1>7, <1>8, <1>9, <1>10, <1>11, <1>12, <1>13, <1>14, <1>15, <1>16,
             <1>17, <1>18, <1>19, <1>20, <1>21, <1>22, <1>24, <1>25 DEF Next, Step

LEMMA UpgradeSound == Safety => []UpgradeInv
  <1>1. UpgradeInv /\ [Next]_vars => UpgradeInv'
    BY UpgradeStep
  <1> QED BY UpgradeInit, <1>1, PTL DEF Safety

\* Fairness aside, the runs of TLC have the same behaviours.
LEMMA SpecIsSafe == Spec => Safety
  BY PTL DEF Spec

\* The links, files and runs are well-formed.
THEOREM UpgradeTypes == Spec => []TypeOK
  <1>1. UpgradeInv => TypeOK
    BY DEF UpgradeInv
  <1> QED BY SpecIsSafe, UpgradeSound, <1>1, PTL

\* The archives in use and the one to roll back to are never pruned, whatever was
\* killed before.
THEOREM NeededArchivesKept == Spec => []ArchivesKept
  <1>1. UpgradeInv => ArchivesKept
    BY DEF UpgradeInv, OnDisk
  <1> QED BY SpecIsSafe, UpgradeSound, <1>1, PTL

\* A run that failed and was not killed leaves the service on a proven version.
THEOREM FailedRunsRestore == Spec => []FailureRestores
  <1>1. UpgradeInv => FailureRestores
    BY IdleRun DEF UpgradeInv, Restoring, FailureRestores
  <1> QED BY SpecIsSafe, UpgradeSound, <1>1, PTL

\* Where launchd stops jobs in time, a run that was not killed leaves the job with it, or
\* failed to copy or load the old plist when it put it back.
THEOREM ServiceStaysLoaded == Spec => []ServiceKept
  <1>1. UpgradeInv => ServiceKept
    BY IdleRun DEF UpgradeInv, Serving, Kept, ServiceKept, Moving, Told
  <1> QED BY SpecIsSafe, UpgradeSound, <1>1, PTL

----------------------------------------------------------------------------
\* Once a run was killed the proven version stays within reach of --rollback.
AimedInv == crashes \in 0 .. MaxCrashes /\ (crashes > 0 => Aimed)

LEMMA AimedStep ==
  ASSUME MaxCrashes <= 1, UpgradeInv, AimedInv, [Next]_vars
  PROVE  AimedInv'
  <1> USE DEF UpgradeInv, AimedInv
  <1>1. crashes \in Nat /\ MaxCrashes \in {0, 1}
    BY BoundsAssumption
  <1>2. CASE Crash
    <2>1. crashes = 0 /\ crashes' = 1 /\ run' = Idle /\ UNCHANGED <<plist, current, previous, proven>>
      BY <1>1, <1>2 DEF Crash, Ends
    <2>2. proven \in {Program, previous}
      BY <2>1 DEF Restoring, Aligned, Cutover
    <2> QED BY <1>1, <1>2, <2>1, <2>2, IdleRun DEF Crash, Aimed, Program, Cutover
  <1>3. ASSUME UNCHANGED crashes, crashes > 0 => Aimed'
        PROVE  AimedInv'
    BY <1>3
  <1>4. CASE crashes = 0 /\ ~Crash
    <2>1. UNCHANGED crashes
      BY <1>4 DEF Next, Step, Nightly, Explicit, Begins, Rollback, Fetch, Backup, GivesUp, Adopt, Replace,
           Bootout, Unload, Bootstrap, Undo, Reload, Mark, Switch, Health, Restore, Unmark, Failed, Settle,
           Prune, Stopped, Release, vars
    <2> QED BY <1>3, <1>4, <2>1
  <1>5. CASE crashes = 1 /\ ~Crash
    <2> USE <1>5, GoesTo, IdleRun DEF Aimed, Program, Aligned, TypeOK, Preparing, Told, Moving, Cutover, Closing,
          disk, history, Ends, None
    <2>1. CASE (\E target \in Versions : Explicit(target)) \/ Nightly \/ Rollback
      <3>1. ASSUME NEW kind \in {"nightly", "explicit"}, NEW target \in Versions, Begins(kind, target)
            PROVE  AimedInv'
        <4>1. run'.pc = "fetch"
          <5>1. Program \in Versions \cup {None}
            OBVIOUS
          <5>2. run' = [Idle EXCEPT !.pc = "fetch", !.kind = kind, !.target = target, !.running = Program]
            BY <3>1 DEF Begins
          <5> HIDE DEF Program, UpgradeInv, AimedInv, Versions, None
          <5> QED BY <5>1, <5>2, BegunRun
        <4> QED BY <3>1, <4>1 DEF Begins
      <3>2. CASE Rollback
        <4>1. run'.pc = "mark"
          BY <3>2, BackRun DEF Rollback
        <4> QED BY <3>2, <4>1 DEF Rollback
      <3>3. latest \in Versions
        OBVIOUS
      <3> HIDE DEF UpgradeInv, AimedInv
      <3> QED BY <2>1, <3>1, <3>2, <3>3 DEF Nightly, Explicit
    <2>2. CASE Fetch \/ Backup \/ GivesUp
      BY <2>2 DEF Fetch, Backup, GivesUp
    <2>3. CASE Adopt \/ Replace \/ Bootout
      BY <2>3 DEF Adopt, Replace, Bootout
    <2>4. CASE Unload \/ Undo \/ Reload
      BY <2>4 DEF Unload, Undo, Reload, TimedOut
    <2>5. CASE Bootstrap
      BY <2>5 DEF Bootstrap
    <2>6. CASE Mark
      <3>1. run'.pc = "switch" /\ run'.running = current /\ run'.before = previous
        BY <2>6 DEF Mark, Run
      <3> QED BY <2>6, <3>1 DEF Mark
    <2>7. CASE Switch \/ Health \/ Restore \/ Unmark
      BY <2>7 DEF Switch, Health, Restore, Unmark
    <2>8. CASE Failed \/ Settle \/ Prune
      BY <2>8 DEF Failed, Settle, RecordSkip, Prune
    <2>9. CASE Stopped \/ Release \/ UNCHANGED vars
      BY <2>9 DEF Stopped, Release, vars
    <2> HIDE DEF UpgradeInv, AimedInv, Aimed
    <2> QED BY <2>1, <2>2, <2>3, <2>4, <2>5, <2>6, <2>7, <2>8, <2>9 DEF Next, Step
  <1> QED BY <1>1, <1>2, <1>4, <1>5

\* "A crash mid-cutover still leaves rollback aimed at" the proven version: with one
\* kill, at any step of any run, a service left on a version that was never healthy
\* has the proven one in previous.
THEOREM RollbackStaysAimed == MaxCrashes <= 1 /\ Spec => []RollbackAimed
  <1> SUFFICES ASSUME MaxCrashes <= 1
               PROVE  Spec => []RollbackAimed
    OBVIOUS
  <1>1. Init => AimedInv
    BY BoundsAssumption DEF Init, AimedInv
  <1>2. UpgradeInv /\ AimedInv /\ [Next]_vars => AimedInv'
    BY AimedStep
  <1>3. UpgradeInv /\ AimedInv => RollbackAimed
    BY IdleRun DEF UpgradeInv, AimedInv, Aimed, Restoring, RollbackAimed, Cutover
  <1> QED BY SpecIsSafe, UpgradeSound, <1>1, <1>2, <1>3, PTL DEF Safety
----------------------------------------------------------------------------
(* The nightly job by itself *)

\* Nobody upgrades or rolls back by hand.
Unattended ==
  \/ Nightly \/ Fetch \/ Backup \/ GivesUp \/ Step
  \/ Crash \/ Stopped \/ Release

\* A release that was backed out is skipped, out of date or about to be recorded, and a
\* run goes past it.
SkipInv ==
  /\ run # Idle => run.kind = "nightly" /\ run.target <= latest
  /\ ~unrecorded =>
       \A v \in backedOut :
         /\ v <= latest
         /\ v = latest => skip = v \/ (Owes /\ v = run.target)
         /\ run # Idle => v < run.target \/ (Owes /\ v = run.target)

LEMMA RunsNotIdle == \A r \in Run : r.pc # "idle" => r # Idle
  BY IdleRun

LEMMA SkipStep == UpgradeInv /\ SkipInv /\ [Unattended]_vars => SkipInv'
  <1> SUFFICES ASSUME UpgradeInv, SkipInv, [Unattended]_vars
               PROVE  SkipInv'
    OBVIOUS
  <1>1. /\ run \in Run /\ (run.pc # "idle" => run # Idle) /\ run.target \in Nat
        /\ latest \in Nat /\ backedOut \subseteq Nat /\ skip \in Nat
    BY RunsNotIdle DEF UpgradeInv, TypeOK, Run, Versions, None
  <1>k. run # Idle => run.kind # "rollback"
    BY DEF SkipInv
  <1>o. Owes => run # Idle /\ run.pc \in {"restore", "unmark", "failed"}
    BY <1>1, <1>k DEF Owes, Idle
  <1>n. ASSUME run # Idle, run.pc \notin {"restore", "unmark", "failed"} PROVE ~Owes
    BY <1>n, <1>o
  <1>p. ASSUME run # Idle, ~Owes, ~unrecorded, NEW v \in backedOut
        PROVE  v < run.target /\ run.target <= latest /\ v < latest /\ v \in Nat
    BY <1>1, <1>p DEF SkipInv
  \* A run that owes no record goes on or ends.
  <1>2. ASSUME run # Idle, ~Owes, run' = Idle \/ (run'.kind = run.kind /\ run'.target = run.target),
               UNCHANGED <<latest, backedOut, unrecorded>>
        PROVE  SkipInv'
    <2>1. run' # Idle => run'.kind = "nightly" /\ run'.target <= latest' /\ run'.target = run.target
      BY <1>2 DEF SkipInv
    <2>2. ASSUME ~unrecorded', NEW v \in backedOut'
          PROVE  v < run.target /\ v < latest' /\ v \in Nat /\ latest' \in Nat
      BY <1>1, <1>2, <1>p, <2>2
    <2> QED BY <2>1, <2>2 DEF SkipInv
  <1>3. ASSUME NEW pc, Goes(pc), run # Idle, ~Owes, UNCHANGED <<latest, backedOut, unrecorded>>
        PROVE  SkipInv'
    BY <1>1, <1>2, <1>3, GoesTo
  <1>4. CASE Nightly
    <2>1. run'.kind = "nightly" /\ run'.target = latest
      BY <1>4 DEF Nightly, Begins, Idle
    <2>2. run = Idle /\ skip # latest /\ UNCHANGED <<latest, skip, backedOut, unrecorded>>
      BY <1>4 DEF Nightly, Begins, disk, history
    <2>3. ~unrecorded => \A v \in backedOut : v < latest
      BY <1>1, <1>o, <2>2 DEF SkipInv
    <2> QED BY <1>1, <2>1, <2>2, <2>3 DEF SkipInv
  <1>5. CASE Failed
    <2>1. run # Idle /\ run' = Idle /\ UNCHANGED <<latest, backedOut>> /\ RecordSkip(run.target)
      BY <1>1, <1>5 DEF Failed, Ends
    <2>2. ~unrecorded' => ~unrecorded /\ skip' = run.target
      BY <2>1 DEF RecordSkip
    <2>3. ASSUME ~unrecorded', NEW v \in backedOut'
          PROVE  v <= latest' /\ (v = latest' => skip' = v)
      <3>1. v \in Nat /\ v <= run.target /\ run.target <= latest
        BY <1>1, <2>1, <2>2, <2>3 DEF SkipInv
      <3> QED BY <1>1, <2>1, <2>2, <2>3, <3>1
    <2> QED BY <2>1, <2>3 DEF SkipInv
  <1>6. CASE Settle
    <2>1. run # Idle /\ ~Owes /\ Goes("prune") /\ UNCHANGED <<latest, backedOut, unrecorded>>
      BY <1>1, <1>k, <1>n, <1>6 DEF Settle
    <2> QED BY <1>3, <2>1
  <1>7. CASE Release
    <2>1. latest' = latest + 1 /\ UNCHANGED <<run, skip, backedOut, unrecorded>>
      BY <1>7 DEF Release, disk, history
    <2>2. Owes' = Owes
      BY <2>1 DEF Owes
    <2>3. run' # Idle => run'.kind = "nightly" /\ run'.target <= latest'
      BY <1>1, <2>1 DEF SkipInv
    <2>4. ASSUME ~unrecorded', NEW v \in backedOut'
          PROVE  /\ v <= latest' /\ v # latest'
                 /\ run' # Idle => v < run'.target \/ (Owes' /\ v = run'.target)
      <3>1. v \in Nat /\ v <= latest /\ (run # Idle => v < run.target \/ (Owes /\ v = run.target))
        BY <1>1, <2>1, <2>4 DEF SkipInv
      <3> QED BY <1>1, <2>1, <2>2, <3>1
    <2> QED BY <2>3, <2>4 DEF SkipInv
  <1>8. CASE Mark
    <2>1. run # Idle /\ ~Owes /\ run'.kind = run.kind /\ run'.target = run.target
      BY <1>1, <1>n, <1>8 DEF Mark, Run
    <2> QED BY <1>2, <1>8, <2>1 DEF Mark, history
  <1>9. CASE Fetch \/ Backup \/ GivesUp \/ Adopt \/ Replace
    BY <1>1, <1>n, <1>2, <1>3, <1>9 DEF Fetch, Backup, GivesUp, Adopt, Replace, Ends, history
  <1>10. CASE Bootout \/ Unload \/ Bootstrap \/ Undo \/ Reload
    BY <1>1, <1>n, <1>2, <1>3, <1>10 DEF Bootout, Unload, Bootstrap, Undo, Reload, Ends, history
  <1>11. CASE Switch \/ Prune
    BY <1>1, <1>n, <1>2, <1>3, <1>11 DEF Switch, Prune, Ends, history
  <1>12. CASE Health
    <2>1. run # Idle /\ ~Owes /\ UNCHANGED <<latest, unrecorded>>
      BY <1>1, <1>n, <1>12 DEF Health
    <2>2. run'.kind = run.kind /\ run'.target = run.target
      BY <1>1, <1>12, GoesTo DEF Health
    <2>3. run'.kind = "nightly" /\ run'.target <= latest'
      BY <2>1, <2>2 DEF SkipInv
    <2>4. backedOut' \subseteq backedOut \/ (backedOut' = backedOut \cup {run.target} /\ run'.pc = "restore")
      BY <1>1, <1>k, <2>1, <1>12, GoesTo DEF Health
    <2>5. run'.pc = "restore" => Owes'
      BY <1>k, <2>1, <2>2 DEF Owes
    <2>6. ASSUME ~unrecorded', NEW v \in backedOut'
          PROVE  /\ v <= latest'
                 /\ v = latest' => Owes' /\ v = run'.target
                 /\ v < run'.target \/ (Owes' /\ v = run'.target)
      <3>1. CASE v \in backedOut
        BY <1>1, <1>p, <2>1, <2>2, <2>6, <3>1
      <3>2. CASE v = run.target /\ run'.pc = "restore"
        BY <2>2, <2>3, <2>5, <3>2
      <3> QED BY <2>4, <2>6, <3>1, <3>2
    <2> QED BY <2>3, <2>6 DEF SkipInv
  <1>13. CASE Restore \/ Unmark
    <2>1. run # Idle /\ run.kind # "rollback" /\ UNCHANGED <<latest, skip, backedOut, unrecorded>>
      BY <1>1, <1>k, <1>13 DEF Restore, Unmark, history
    <2>2. PICK pc \in {"unmark", "failed"} : Goes(pc)
      BY <1>13, <2>1 DEF Restore, Unmark
    <2>3. run'.kind = run.kind /\ run'.target = run.target /\ Owes'
      BY <1>1, <2>1, <2>2, GoesTo DEF Owes
    <2>4. Owes
      BY <1>13, <2>1 DEF Restore, Unmark, Owes
    <2> QED BY <2>1, <2>3, <2>4 DEF SkipInv
  <1>14. CASE Crash
    <2>1. run # Idle /\ run' = Idle /\ UNCHANGED <<latest, backedOut>> /\ unrecorded' = (unrecorded \/ Owes)
      BY <1>14 DEF Crash, Ends
    <2>2. CASE Owes
      BY <2>1, <2>2 DEF SkipInv
    <2>3. CASE ~Owes
      <3>1. ASSUME ~unrecorded', NEW v \in backedOut'
            PROVE  v < latest' /\ v \in Nat /\ latest' \in Nat
        BY <1>1, <1>p, <2>1, <2>3, <3>1
      <3> QED BY <2>1, <3>1 DEF SkipInv
    <2> QED BY <2>2, <2>3
  <1>15. CASE Stopped \/ UNCHANGED vars
    <2>1. UNCHANGED <<run, latest, skip, backedOut, unrecorded>>
      BY <1>15 DEF Stopped, disk, history, vars
    <2> QED BY <2>1 DEF SkipInv, Owes
  <1> QED BY <1>4, <1>5, <1>6, <1>7, <1>8, <1>9, <1>10, <1>11, <1>12, <1>13, <1>14, <1>15 DEF Unattended, Step

\* As long as nobody upgrades or rolls back by hand, the nightly job "never retries a
\* release that was rolled back or failed its health check", whatever else fails, is
\* killed or is published in between, if the record of each such release was written: a
\* failed write, or a kill after the check and before the record, lets it retry one, and
\* so do runs by hand.
THEOREM NightlyNeverRetries == Init /\ [][Unattended]_vars => NeverRetried
  <1>1. Init => SkipInv
    BY DEF Init, SkipInv
  <1>2. [Unattended]_vars => [Next]_vars
    BY DEF Unattended, Next
  <1>3. UpgradeInv /\ SkipInv /\ [Unattended]_vars =>
          [~unrecorded /\ run = Idle /\ run'.kind = "nightly" => run'.target \notin backedOut]_vars
    <2> SUFFICES ASSUME UpgradeInv, SkipInv, Unattended, ~unrecorded, run = Idle, run'.kind = "nightly"
                 PROVE  run'.target \notin backedOut
      OBVIOUS
    <2>1. Nightly
      BY IdleRun DEF Unattended, Step, Fetch, Backup, GivesUp, Adopt, Replace, Bootout, Unload, Bootstrap, Undo,
           Reload, Mark, Switch, Health, Restore, Unmark, Failed, Settle, Prune, Crash, Stopped, Release, vars,
           Idle
    <2>2. run'.target = latest /\ skip # latest
      BY <2>1 DEF Nightly, Begins, Idle
    <2>3. ~Owes
      BY DEF Owes, Idle
    <2> QED BY <2>2, <2>3 DEF SkipInv
  <1> QED BY UpgradeInit, UpgradeStep, SkipStep, <1>1, <1>2, <1>3, PTL DEF NeverRetried
==============================================================================
