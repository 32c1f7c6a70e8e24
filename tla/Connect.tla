------------------------------ MODULE Connect ------------------------------
(***************************************************************************)
(* The connect command (cmd/grasshopper): a machine asks the server for    *)
(* access, the owner decides, and the machine stores the secret and its    *)
(* client configuration.  Composed with the server's side in Pairing.      *)
(*                                                                         *)
(* With --json a run ends once its request is saved beside the             *)
(* configuration and a later run resumes it; otherwise the run itself      *)
(* waits.  A run holds no lock: between two of its calls on the disk or on *)
(* the server another run, the owner or a crash may step in.               *)
(*                                                                         *)
(* Modelled for one server and one configuration path.  A new pairing      *)
(* draws its secret and gets its request ID together, so one name stands   *)
(* for both.                                                               *)
(***************************************************************************)
EXTENDS Pairing

CONSTANTS
  Runs,         \* runs of the command that can overlap
  Paths,        \* names of token files
  Nil,          \* no file, no value
  Torn,         \* a file created and never completely written
  MaxCrashes    \* bound: runs killed before they end

VARIABLES
  pending,   \* <config>.pairing: Nil, Torn or a pendingConnection
  files,     \* token files: Nil, Torn or the secret
  config,    \* the client configuration: Nil or the token file it names
  runs,      \* what every run knows and does next
  crashes

client == <<pending, files, config, runs, crashes>>
all == <<requests, tokens, pending, files, config, runs, crashes>>

Secrets == Hashes

\* pendingConnection: over is ConfigHash, the configuration it was made for.
Pending == [id : RequestIDs, path : Paths, update : BOOLEAN, over : Paths \cup {Nil}]

\* A run, with what it still needs.  path is the token file it means to use; seen
\* the configuration it has read: ConfigHash, then setup's snapshot.
Run == [pc : {"idle", "check", "aim", "start", "save", "poll", "write", "setup",
              "configure", "wire", "finish"},
        json : BOOLEAN, reconnect : BOOLEAN, update : BOOLEAN, resumed : BOOLEAN,
        id : RequestIDs \cup {Nil}, path : Paths \cup {Nil}, seen : Paths \cup {Nil}]

Idle == [pc |-> "idle", json |-> FALSE, reconnect |-> FALSE, update |-> FALSE,
         resumed |-> FALSE, id |-> Nil, path |-> Nil, seen |-> Nil]

\* A request is drawn with its secret; Nil and Torn are nothing else.
ASSUME NamesAssumption ==
  /\ RequestIDs \subseteq Hashes
  /\ Nil \notin Paths /\ Nil \notin Hashes /\ Nil \notin Pending
  /\ Torn \notin Hashes /\ Torn \notin Pending /\ Torn # Nil
  /\ MaxCrashes \in Nat

Goes(r, run) == runs' = [runs EXCEPT ![r] = run]

\* The command returns, reporting success or a problem.
Ends(r) == Goes(r, Idle)

IsSaved == pending \notin {Nil, Torn}

\* A path holds a secret the server admits.
Admitted(path) == files[path] \in Secrets /\ Valid(files[path])

\* What the configuration, the saved request or a run names.  File names are
\* random and never run out; the model forgets files nothing names.
Named ==
  {config} \cup {runs[r].path : r \in Runs} \cup {runs[r].seen : r \in Runs}
  \cup (IF IsSaved THEN {pending.path, pending.over} ELSE {})

\* A secret nobody has drawn: 32 random bytes.
Fresh(id) ==
  /\ id \notin DOMAIN requests /\ ~Known(id)
  /\ \A r \in Runs : runs[r].id # id
  /\ \A path \in Paths : files[path] # id
  /\ IsSaved => pending.id # id

----------------------------------------------------------------------------
\* The command starts: it loads the configuration and the saved request.  It
\* stops at once, changing nothing, if the saved request is damaged, was made for
\* another configuration, or the run is not a --json run.
Begin(r, json, reconnect, update) ==
  /\ runs[r].pc = "idle"
  /\ \/ /\ pending = Nil
        /\ Goes(r, IF config = Nil
                   THEN [Idle EXCEPT !.pc = "aim", !.json = json, !.update = update]
                   ELSE [Idle EXCEPT !.pc = "check", !.json = json, !.reconnect = reconnect,
                                     !.update = update, !.path = config])
     \/ /\ IsSaved /\ json /\ pending.over = config
        /\ Goes(r, [Idle EXCEPT !.pc = "aim", !.json = TRUE, !.update = pending.update, !.resumed = TRUE,
                                !.id = pending.id, !.path = pending.path, !.seen = pending.over])
  /\ files' = [path \in Paths |-> IF path \in Named THEN files[path] ELSE Nil]
  /\ UNCHANGED <<requests, tokens, pending, config, crashes>>

\* connectionReport: a machine with a configuration pairs again only if its
\* access is rejected and --reconnect asks for it, or if the report is about a
\* request or a missing configuration that was not there when the run began.
Report ==
  IF pending = Torn \/ (IsSaved /\ pending.over # config) THEN "conflicting_configuration"
  ELSE IF IsSaved THEN "approval"
  ELSE IF config = Nil THEN "missing_address"
  ELSE IF Admitted(config) THEN "connected" ELSE "authentication_rejected"

Check(r) ==
  LET run == runs[r]
      pairs == Goes(r, [Idle EXCEPT !.pc = "aim", !.json = run.json, !.update = TRUE])
  IN  /\ run.pc = "check"
      /\ \/ Ends(r)                                    \* unreachable, or nothing left to do
         \/ Report = "connected" /\ Goes(r, [Idle EXCEPT !.pc = "setup", !.update = run.update, !.path = run.path])
         \/ Report = "authentication_rejected" /\ run.reconnect /\ pairs
         \/ Report \in {"approval", "missing_address"} /\ pairs
      /\ UNCHANGED <<requests, tokens, pending, files, config, crashes>>

\* unusedDeviceTokenPath, and the saved request rewritten (whatever is there now)
\* if its path is taken or the choice of agents changed.
Aim(r) ==
  LET run == runs[r]
  IN  /\ run.pc = "aim"
      /\ \E path \in Paths :
           /\ files[path] = Nil
           /\ run.resumed /\ files[run.path] = Nil => path = run.path
           /\ Goes(r, [run EXCEPT !.pc = IF run.resumed THEN "poll" ELSE "start", !.path = path, !.seen = Nil])
           /\ \/ /\ run.resumed
                 /\ pending' = [id |-> run.id, path |-> path, update |-> run.update, over |-> run.seen]
              \/ /\ run.resumed => path = run.path
                 /\ UNCHANGED pending
      /\ UNCHANGED <<requests, tokens, files, config, crashes>>

\* POST /pair/start.  The request may be refused, never arrive, or be admitted
\* and its answer lost.
StartPair(r) ==
  LET run == runs[r]
  IN  /\ run.pc = "start"
      /\ \/ /\ Ends(r)
            /\ UNCHANGED <<requests, tokens>>
         \/ \E id \in RequestIDs, device \in Devices, code \in Codes :
              /\ Fresh(id)
              /\ Start(id, device, id, code)
              /\ \/ Ends(r)
                 \/ /\ id \in DOMAIN requests'
                    /\ Goes(r, IF run.json
                               THEN [run EXCEPT !.pc = "save", !.id = id, !.seen = config]
                               ELSE [run EXCEPT !.pc = "poll", !.id = id])
      /\ UNCHANGED <<pending, files, config, crashes>>

\* savePendingConnection: O_EXCL refuses a saved request that is there already.
SavePending(r) ==
  LET run == runs[r]
  IN  /\ run.pc = "save"
      /\ pending' = IF pending = Nil
                    THEN [id |-> run.id, path |-> run.path, update |-> run.update, over |-> run.seen]
                    ELSE pending
      /\ Ends(r)
      /\ UNCHANGED <<requests, tokens, files, config, crashes>>

\* Mutant: every answer but approved and pending counts as the end of the request.
Unanswered_Drops(r) ==
  /\ runs[r].pc = "poll"
  /\ Ends(r)
  /\ pending' = IF runs[r].resumed THEN Nil ELSE pending
  /\ UNCHANGED <<requests, tokens, files, config, crashes>>

\* POST /pair/poll without a usable answer, or five minutes of waiting are over:
\* the saved request stays.
Unanswered(r) ==
  /\ runs[r].pc = "poll"
  /\ Ends(r)
  /\ UNCHANGED <<requests, tokens, pending, files, config, crashes>>

\* Mutant: a run that waits takes 404 and 410 for "not yet".
Polled_WaitsOn(r) ==
  LET run == runs[r]
      answer == Answer(run.id)
  IN  /\ run.pc = "poll"
      /\ Look
      /\ Goes(r, IF answer = "approved" THEN [run EXCEPT !.pc = "write"]
                 ELSE IF answer = "denied" \/ run.resumed THEN Idle ELSE run)
      /\ UNCHANGED <<pending, files, config, crashes>>

\* POST /pair/poll, answered.  A request that is denied, expired or unknown is
\* removed by its path; a resumed run does not wait, another one polls on.
Polled(r) ==
  LET run == runs[r]
      answer == Answer(run.id)
  IN  /\ run.pc = "poll"
      /\ Look
      /\ \/ /\ answer = "approved"
            /\ Goes(r, [run EXCEPT !.pc = "write"])
            /\ UNCHANGED pending
         \/ /\ answer = "pending"
            /\ Goes(r, IF run.resumed THEN Idle ELSE run)
            /\ UNCHANGED pending
         \/ /\ answer \notin {"approved", "pending"}
            /\ Ends(r)
            /\ pending' = IF run.resumed THEN Nil ELSE pending
      /\ UNCHANGED <<files, config, crashes>>

\* The secret is written to a file that must not exist yet.
WriteToken(r) ==
  LET run == runs[r]
  IN  /\ run.pc = "write"
      /\ \/ /\ files[run.path] = Nil
            /\ files' = [files EXCEPT ![run.path] = run.id]
            /\ Goes(r, [run EXCEPT !.pc = "setup", !.id = Nil])
         \/ Ends(r) /\ UNCHANGED files
      /\ UNCHANGED <<requests, tokens, pending, config, crashes>>

\* setupClientWithRoot until its first change: the server must admit the secret,
\* then the configuration is read to be restored if setup fails.
Setup(r) ==
  LET run == runs[r]
  IN  /\ run.pc = "setup"
      /\ \/ /\ Admitted(run.path)
            /\ Goes(r, [run EXCEPT !.pc = "configure", !.seen = config])
         \/ Ends(r)
      /\ UNCHANGED <<requests, tokens, pending, files, config, crashes>>

\* Setup fails and restores the configuration it read.
RollBack(r) == config' = runs[r].seen /\ Ends(r)

\* configureWithReport: another configuration is replaced with --update only.
Configure(r) ==
  LET run == runs[r]
  IN  /\ run.pc = "configure"
      /\ \/ /\ config \in {Nil, run.path} \/ run.update
            /\ config' = run.path
            /\ Goes(r, [run EXCEPT !.pc = "wire"])
         \/ RollBack(r)
      /\ UNCHANGED <<requests, tokens, pending, files, crashes>>

\* The agents are wired to the new configuration, or setup fails.
Wire(r) ==
  LET run == runs[r]
  IN  /\ run.pc = "wire"
      /\ \/ /\ Goes(r, IF run.resumed THEN [run EXCEPT !.pc = "finish"] ELSE Idle)
            /\ UNCHANGED config
         \/ RollBack(r)
      /\ UNCHANGED <<requests, tokens, pending, files, crashes>>

\* Mutant: the saved request is kept after a successful setup.
Finish_Keeps(r) ==
  /\ runs[r].pc = "finish"
  /\ Ends(r)
  /\ UNCHANGED <<requests, tokens, pending, files, config, crashes>>

\* The saved request has served.
Finish(r) ==
  /\ runs[r].pc = "finish"
  /\ pending' = Nil
  /\ Ends(r)
  /\ UNCHANGED <<requests, tokens, files, config, crashes>>

\* Mutant: the token file is opened with O_TRUNC instead of O_EXCL, so that being
\* killed before the write tears a file that was there.
Crash_Truncates(r) ==
  /\ runs[r].pc # "idle" /\ crashes < MaxCrashes
  /\ crashes' = crashes + 1
  /\ Ends(r)
  /\ IF runs[r].pc = "write"
     THEN files' = [files EXCEPT ![runs[r].path] = Torn]
     ELSE UNCHANGED files
  /\ UNCHANGED <<requests, tokens, pending, config>>

\* The run is killed, perhaps while it writes a file it has just created.  A
\* rollback that fails leaves what a kill before it leaves.
Crash(r) ==
  LET run == runs[r]
  IN  /\ run.pc # "idle" /\ crashes < MaxCrashes
      /\ crashes' = crashes + 1
      /\ Ends(r)
      /\ \/ run.pc = "save" /\ pending = Nil /\ pending' = Torn
         \/ UNCHANGED pending
      /\ \/ run.pc = "write" /\ files[run.path] = Nil /\ files' = [files EXCEPT ![run.path] = Torn]
         \/ UNCHANGED files
      /\ UNCHANGED <<requests, tokens, config>>

Step(r) ==
  \/ Check(r) \/ Aim(r) \/ StartPair(r) \/ SavePending(r) \/ Polled(r)
  \/ WriteToken(r) \/ Setup(r) \/ Configure(r) \/ Wire(r) \/ Finish(r)

\* The owner and the server.
Server ==
  /\ \/ \E id \in RequestIDs, code \in Codes : Approve(id, code) \/ Deny(id, code)
     \/ \E n \in DOMAIN tokens : Revoke(n)
     \/ Look
     \/ Restart
  /\ UNCHANGED client

TimePasses == Tick /\ UNCHANGED client

ConnectInit ==
  /\ Init
  /\ pending = Nil
  /\ files = [path \in Paths |-> Nil]
  /\ config = Nil
  /\ runs = [r \in Runs |-> Idle]
  /\ crashes = 0

ConnectNext ==
  \/ \E r \in Runs, json, reconnect, update \in BOOLEAN : Begin(r, json, reconnect, update)
  \/ \E r \in Runs : Step(r) \/ Unanswered(r) \/ Crash(r)
  \/ Server
  \/ TimePasses

ConnectSafety == ConnectInit /\ [][ConnectNext]_all

\* Time passes, a run that started goes on, the person at the machine runs
\* connect --json again as the saved request asks, and polls are answered
\* sooner or later.
ConnectSpec ==
  /\ ConnectSafety
  /\ WF_all(TimePasses)
  /\ \A r \in Runs :
       /\ WF_all(Step(r))
       /\ SF_all(Polled(r))
       /\ WF_all(Begin(r, TRUE, FALSE, FALSE))

----------------------------------------------------------------------------
\* The saved request, the token files and the runs are well-formed.
ConnectTypeOK ==
  /\ pending \in Pending \cup {Nil, Torn}
  /\ files \in [Paths -> Secrets \cup {Nil, Torn}]
  /\ config \in Paths \cup {Nil}
  /\ runs \in [Runs -> Run]

\* The configuration in force always names a complete token file whose secret the
\* owner approved: whatever runs overlap, fail, roll back or are killed, the
\* machine is never left configured with a credential that was never granted.
ConfigUsable == config # Nil => files[config] \in Secrets /\ Known(files[config])

\* A saved request is discarded only when nothing can come of it: the server has
\* denied, expired or forgotten it, or the configuration holds its secret.
DiscardSafe ==
  [][IsSaved /\ pending' = Nil =>
       \/ Answer(pending.id) \notin {"pending", "approved"}
       \/ config # Nil /\ files[config] = pending.id]_all

\* Every run of the command ends: nobody waits forever for a decision, because
\* the request expires.
RunsEnd == \A r \in Runs : (runs[r].pc # "idle") ~> (runs[r].pc = "idle")

\* pendingConnection "is removed after approval, denial, or expiry": a saved
\* request does not stay for good when connect --json is run again, wherever an earlier
\* run was killed, except after the configuration was replaced and before the request
\* was removed: connect then refuses it as made for another configuration.
Settles == IsSaved ~> (~IsSaved \/ (crashes > 0 /\ pending.over # config))
============================================================================
