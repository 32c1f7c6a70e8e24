# Grasshopper: TLA+ models, checks and proofs

Grasshopper is a self-hosted memory server for coding agents. A Go server keeps
memories in SQLite and serves them over MCP and a web view; a Go client connects a
machine's agents to it. This directory models the parts of both programs whose
correctness depends on the order in which several actors act, on failures, or on
long histories, checks them with TLC and proves the most important invariants with
TLAPS. Paths below are relative to the repository (`src/`).

    tlc -workers 2 -config MCMemories.cfg MCMemoryStore     # one run
    tlapm MemoryStoreProofs.tla                              # one set of proofs

## The system

| Component | State | Operations | What is hard |
| --- | --- | --- | --- |
| Memory store, `internal/memory/writer.go` | `chunks`, `memory_revisions`, `memory_requests` | `Write` (save, correct, restore), `Archive`, `Move` | clients edit from revisions they read long ago, repeat requests whose answer was lost; one transaction writes several rows |
| HTTP service, `internal/service/handler.go`, and the bridge, `internal/client/adapter.go`, `remote.go` | handlers under way, the exchange a bridge waits for | the `store`, `archive` and `search` tools | a bridge gives up while its request goes on; the server may exit or restart at any step |
| Owner actions, `internal/service/visualizer.go` | none | create, edit, confirm, restore, archive, move | they read, embed and write in separate transactions, and are sent again after an unclear answer |
| Inference gate, `handler.go` `runInference` | a one-place channel, `heldSince` | admit, hold, time out, exit | callers give up while their goroutine still holds the model |
| Pairing, `pairing.go`, and client tokens, `client_tokens.go` | a map in memory, table `client_tokens` | start, poll, approve, deny, revoke, expire | half of the state dies with the process |
| Connect command, `cmd/grasshopper/connect.go`, `pending.go`, `setup.go`, `configure.go` | saved request, token files, client configuration | begin, check, pair, poll, store, configure, roll back | kills between any two files, overlapping runs, expiry against approval |
| Server upgrade, `cmd/grasshopper-server/upgrade.go` | links `current` and `previous`, archives, plist, skip file, launchd's job | nightly, `--to`, `--rollback` | kills and failures between any two changes, launchd's own timing |
| Client self-update, `internal/client/update.go` | `client/current`, `client/versions/*`, `last-error` | hand off, follow, install, make current, prune | several bridges without a lock, ended by their agents at any step |
| Owner token, sessions and login limiter, `cmd/grasshopper-server/main.go`, `rotation.go`, `owner_sessions.go`, `visualizer_session.go` | `access-token`, `access-token.previous`, the database file, table `owner_sessions`, attempt windows | first start, rotate, sign in, sign out, everywhere | kills between two files, caps, expiry, an old token put back |
| Owner list pager, `owner_pages.go`, `owner_browse.go` | list snapshots in memory | first page, next page, evict | paging over a store that changes |
| Startup context and search, `reader.go`, `search.go` | none | select, order and cut records; the owner's preview of it | byte budgets, two queries that must agree |
| Others: agent wiring, backup, migration, audit, packaging, web page, embedding model | files | | mostly I/O by one process |

How they interact. Agents speak MCP to the client's bridge, which forwards to the
HTTP service with a device token; the service validates the token against
`client_tokens`, embeds text behind the inference gate and calls the memory writer.
The owner's browser calls the same writer through owner actions and decides pairing
requests. `connect` talks to pairing over HTTP and writes the configuration the
bridge reads. `upgrade` replaces the server program; the self-update then makes each
machine's client follow the version that server reports.

What makes each part correct is stated with its runs below. The hazards behind the
properties are listed at their lines in `PROJECT.json`.

## Modules

| Module | Models | Composed of |
| --- | --- | --- |
| `MemoryStore` | the three transactions on the memory tables, asked for by agents | INSTANCE `VersionedStore` |
| `VersionedStore` | abstract: what the store promises | |
| `OwnerActions` | the owner's handlers over the same store | EXTENDS `MemoryStore` |
| `InferenceGate` | sharing the embedding model | |
| `Service` | bridges, tool handlers, gate, store transaction, exits and restarts | EXTENDS `InferenceGate`, INSTANCE `SavedWrites` |
| `SavedWrites` | abstract: what an agent may rely on when it saves | |
| `Pairing` | pairing requests and client tokens | |
| `Connect` | the connect command running against the server's side | EXTENDS `Pairing` |
| `ServerUpgrade` | upgrade and rollback of the launchd service | |
| `ClientUpdate` | the client self-update by several bridges | |
| `OwnerAccess` | owner token files, browser sessions, login limiter | |
| `StartupContext` | what an agent starts with, and its preview, as operators | |
| `OwnerView` | the owner's lists over changing memories | EXTENDS `StartupContext` |
| `MC*` | values of the constants for TLC, symmetry | EXTENDS the module of that name |
| `*Proofs` | theorems, see Proofs | EXTENDS the module of that name, `TLAPS` |

Mutants (`X_Something`) stand before the definition `X` they change. Each is `X`
with a plausible mistake, and the run named in `PROJECT.json` finds it.

### MemoryStore

One variable, `db`, holds the tables: `last` (AUTOINCREMENT), `chunks`, `revisions`
(`memory_revisions`, keyed by ID and revision) and `requests` (`memory_requests`:
input and receipt). The writer has a single connection and begins transactions
IMMEDIATE, so a transaction is one step and a refused one is a stuttering step: the
code's checks are the guards. Operators take the database as a parameter because
`Move` runs the write of the copy and the archive of the original in one transaction.

| TLA+ | Code |
| --- | --- |
| `Unused` | `replay`: a request ID that was used is answered from its receipt, before any other check |
| `Writable`, `WriteTx` | `writeTx`: selection by ID or key, expected revision, confirmation, duplicates, history, receipt |
| `TextOf`, `CorrectedTitle`, `EmbeddingOf` | what a correction, a restore or a new memory says, and its vector |
| `Revise`, `Snapshot` | the revision before and after a change goes to `memory_revisions` |
| `RetireHandoffs` | `retireHandoffs`: an active handoff archives the one before it with a note |
| `Archivable`, `ArchiveTx` | `archiveTx`: archive and unarchive |
| `Movable`, `CopyInput`, `RetiredInput`, `MoveTx` | `Move` |
| `Save`, `Correct`, `Restore`, `Archive`, `Move` | the requests agents send through the tools; `Move` is the one `moveMemory` makes |

A request may carry any payload its sender could build, from any revision it could
have read, with and without a vector. Assumed of the environment: clients' request
IDs do not end in `:copy` or `:archive`, and clients do not write provenance sources
that read like the notes of a move or a replaced handoff. The unique indexes are not
guards: the invariants show that the transactions' own checks imply them.
`ImportedRows` are rows that were there before history was kept.

`ImplementsVersionedStore` maps the tables to `VersionedStore`: a memory is the
sequence of its stored revisions and its row, a receipt names a memory and a version.

### OwnerActions

One action per handler. A handler reads in transactions of its own before the store
decides, so what it read may be old. Revisions, scopes and keys never change, which is
why a read is modelled by the revision it may have found (`Found`: any from the one the
page saw to the newest) rather than by a step of its own. An update that finds the
record archived is answered 409 before it builds a request, which changes nothing.
`ConfirmInput`, `RestoreInput` and `OwnerArchiveInput` build what is asked of the store.
`RetriesAlike` says that a handler that builds a request again builds the same one after
any other step, which is what `replay` needs to recognise a retry. It does not promise
that every retry gets its receipt: after an archive in between, the retry of a
confirmation or restore meets the 409 above; an archiving whose reads fail
(`Archivists`) is credited to the memory view, so its retry may be refused as a conflict.
A plain edit has no such promise: it takes tags
and type from the record it finds, so after another change its retry is answered with
`idempotency_conflict`, and nothing is saved twice. `OwnedSpec` is the store used by
agents and the owner together; the runs check that one.

### InferenceGate and Service

`InferenceGate`: `caller`, `gate` (the channel), `heldSince`, the goroutines and their
result channels. `Leave` is the deferred function: clear `heldSince`, then free the
place, two steps. Ages stand for times.

`Service` puts the bridge in front of it and the store behind it. `handler[c]` is how
far exchange `c` has come: sent, embedding (from then on a caller of the gate), ready
for its transaction, done or failed. `GivesUp` is the bridge's five-second timeout;
`Unheard` an answer nobody waits for; `Drops` what a process exit takes with it. `store`
fails without a vector, `search` goes on by wording alone, `archive` needs none.
`stored` is the order of the applied writes and `told` the receipts agents hold; the
whole transaction of `MemoryStore` is the step `Commit`, or `Refuse`. A search's
fallback comes after the gate's own five seconds, so usually its bridge has given up
by then: both orders are in the model.

### Pairing and Connect

`Pairing` keeps requests by age (only differences of times are compared). A handler
holds the manager's mutex throughout, the token INSERT included, so each is one
step: `Start`, `Look` (poll and list), `Approve`, `Deny`, `Revoke`, `Tick`,
`Restart`. The INSERT of an approval may fail, with or without having stored the token. Names shown to the owner and last-seen times are left out.

`Connect` adds the machine: `pending` (the saved request), `files` (token files,
possibly torn), `config`, and a program counter per run. A run has no lock, so each
call on the disk or the server is a step of its own, from `Begin` over `Check`,
`StartPair`, `SavePending`, `Polled`, `WriteToken`, `Setup`, `Configure`, `Wire` to
`Finish`; `RollBack` is setup's restoration, `Unanswered` a lost answer, `Crash` a
kill that may leave a torn file. Simplified: one server and one configuration path,
device credentials only, no `--switch-server`, no Windows migration; a secret and its
request ID share a name; a failing roll-back is a crash before it.

### ServerUpgrade

A version stands for its archive folder. `plist` is what the service's property list
names (None once it names the `current` link), `loaded` launchd's own copy of it,
`job` launchd's state, `run` the upgrade or rollback in progress with the values the
Go function holds in locals. `Nightly`, `Explicit` and `Rollback` begin a run (one at
a time: `upgrade_lock.go`); `Adopt` .. `Reload` are `adopt`, `Mark` .. `Unmark` are
`cutover`, `Settle`, `Failed` and `Prune` end it; `Crash` kills it between any two
changes. `slowStop` says whether launchd may take longer than `unloadWait`. A backup
succeeds or fails, and so do plutil, `launchctl bootstrap` (both times), copying the old
plist back and writing or removing the skip file. Links are replaced atomically and link
I/O errors are not modelled.

History variables: `proven`, the version last found healthy; `backedOut`, the releases a
failed health check or a rollback backed out, set at the check itself and so before
anything is recorded; `unrestored`, putting the service back failed as well (the plist
could not be copied or the job not loaded); `unrecorded`, a backed out release never got
into the skip file, because the write failed or the run was killed before it (`Owes`).

### ClientUpdate

`folder[v]` is `client/versions/v`: absent, with its program, or empty, because
`os.RemoveAll` removes the program before the folder. Each bridge has a program
counter and the locals of `Install`, `makeCurrent` and `pruneVersions`; the steps are
those on the shared folder. `Quit` is an agent ending the bridge while the background
goroutine is at work; on `windows` the folder of a running program stays. `before` is
a history variable. Simplified: reading `current` and finding its program is one
step; staging folders, which only their age removes, and development builds, which
never update, are left out.

### OwnerAccess

The files of the data directory (`database`, `token`, `previous`, each possibly torn),
the offline command under way (`task`), the token the running server has loaded, the
cookies with the token that signed them, the session rows and the login windows. A login whose row cannot be stored still clears its
window (`SignInFails`). First
start and rotation take one step per file; `Kill` and `CopyFails` end them between any
two. `--server-stopped` only acknowledges, so a rotation may run beside the server.
`Remove`, `CopyBack` and `Lose` are what an owner does to the files. `ended` is a history
variable: cookies that a browser has signed out.

### StartupContext and OwnerView

`StartupContext` is `Context` and `StartupPreview` as operators on a set of rows: the
scopes that apply, the order, the one handoff, what is loadable, the cut to a budget and
the balance between project and global memories. Records in hand are a set and a page is
the set of records it holds; the order in which the budget is spent is a list
(`Ordered`), and `BoundRecords` goes through it as the loop of `boundRecords` does. The
loop of `balanceStartupScopes` is stated by what it gives each record: a round (`Round`:
the newest left of its group in odd rounds, the oldest in even ones) and the order within
a round and before the handoffs (`Sooner`). A record's size is a number of units
instead of its JSON text; at most `MaxDetails` records that were left out are named.

`OwnerView` has memories as versions (what `VersionedStore` promises), the pager's
snapshots `lists` by key, and the tabs. `Evicted` is the loop that makes room, by its
outcomes; `MaxLists`, `MaxRefs` and `MaxRecords` are its limits and the query's own. A page request is a query, a look under the pager's lock
(`Keep` or `Continue`), one `Load` per record and `Send`, or `Fails` if a revision cannot
be read or a record fills more than a page by itself, which ends the tab's list; memories may
change, snapshots expire or the server restart between any two.

## Runs

| Run (cfg) | Result | States | What it shows |
| --- | --- | --- | --- |
| `handoffs` (MCHandoffs) | pass | 208,063 | `HistoryComplete`, `OneHandoffPerScope`, `NotesTruthful`, `ChangesOnRequest`: four requests of agents and the owner over two scopes and an imported handoff; one current handoff per scope however it became active, truthful notes, no effect on other scopes |
| `memories` (MCMemories) | pass | 266,194 | keyed and titled memories saved, corrected, restored, archived and moved by three requests of agents and the owner, with and without a model: both unique indexes, confirmation kept, no lost or doubled update, receipts and moves true, vectors of their own text; the store implements `VersionedStore`; a request the owner's handlers build again is the same (`RetriesAlike`) |
| `service` (MCService) | pass | 204,565 | `NoOverlap`, `ExitJustified`, `GateFrees`, and the whole path from bridge to transaction implements `SavedWrites` |
| `pairing` (MCPairing) | pass | 364,657 | `UndecidedBounded`, `ApprovedHasToken`, `RevocationFinal` under decisions, expiry, restarts, reused fingerprints and codes |
| `connect_alone` (MCConnectAlone) | pass | 336,537 | one run at a time, a kill anywhere: a saved request is discarded only when useless (`DiscardSafe`), runs end (`RunsEnd`), saved requests settle but for one gap (`Settles`) |
| `connect_overlap` (MCConnectOverlap) | pass | 4,240,588 | two overlapping runs and a kill: `ConfigUsable` |
| `upgrade` (MCUpgrade) | pass | 157,670 | one kill anywhere, failing tools, copies and skip records: `ArchivesKept`, `FailureRestores`, `RollbackAimed`, `ServiceKept`, `Converges` |
| `upgrade_skips` (MCUpgradeSkips) | violation | | `NeverRetried`, see Findings |
| `update` (MCUpdate) | pass | 2,043,123 | alone: `CurrentInstalled`, `PreviousKept`; overlapping: `TwoAtRest`, `Follows` |
| `update_quit` (MCUpdateQuit) | violation | | `MatchesServer`, see Findings |
| `owner_access` (MCOwnerAccess) | pass | 171,808 | `SessionsBounded`, `SignedOutStays`, `CredentialKept`, and the owner always gets in again (`OwnerGetsIn`) |
| `reading` (MCOwnerView) | pass | 183,359 | pages of one list fit together (`PagesFaithful`); the preview is what agents get (`PreviewAgrees`); budgets are used and shared (`BudgetWellSpent`) |

### Bounds, and why they are enough

* `handoffs`: four requests make a handoff, replace it, bring it back by restoring,
  unarchiving or moving, and retire the replacement; two scopes to move between.
  `CHECK_DEADLOCK FALSE` in both store runs because request IDs run out.
* Both store runs have two authors: an agent (`Agents`) and the owner, so that an author
  that is kept and one that a failed read replaced by the memory view differ.
* `memories`: three requests suffice for save, archive, save again; for a move there
  and back; for two edits of one revision; two texts with one derived title and one
  row imported with a title of its own tell every copied field apart.
* `pairing`: a queue of one with three request IDs fills the queue, lets a request
  expire and stay known, and starts another; two codes, devices and fingerprints let
  them collide or differ.
* Connect: one run needs three file names (configured, saved, new); two runs two. One
  kill in both runs, because a second kill finds the states the first may leave.
* `upgrade`: three releases give an archive in use, one to return to and one to
  prune. One kill: with a kill in mid-cutover and a second one between the two links
  of the rollback that repairs it, `previous` names an unproven version, which the
  code's comment (one crash) does not promise.
* `update`: three versions, two changes of the server (up and back down), one failure
  or ended session, two bridges bundled with different versions.
* `service`: one agent with two exchanges, so that one may be left behind while the next
  is under way; a write that embeds, one that does not, and searches; two goroutines
  (one may be left behind), stuck after one tick. The proofs cover any number.
* `owner_access`: three tokens (old, new, and one to restore), three cookies for two
  session rows, two addresses for one login window, one try per window, and two
  troubles: a kill, and a second kill, a failure or a lost file while that is repaired. A
  session lasts one tick, so that rows expire between any two requests; at the cap rows
  of one age leave in any order. `SessionLimit` and `SigningOutIsFinal` hold for any life.
* `reading`: two databases of four memories that compete for the budget or hold three
  handoffs, one change between the pages, which may make a record larger than a page, two
  tabs, room for two snapshots of together six references (so that both limits evict), lists
  of up to four, pages of two records, budgets below and above what is there. The tabs are
  symmetric, and no property of the run is temporal.

### Fairness

* `ConnectSpec`: time passes; a run that started goes on (weak); the person runs
  `connect --json` again while a request is saved, as the command's answer asks;
  polls are answered sooner or later (strong: an answer may be lost any number of
  times, but not for ever).
* `ServerUpgrade!Spec`: a run goes on; launchd finishes what it was told; the nightly
  job gets its turn (strong, runs by hand may be in its way); download, backup,
  plutil, loading and the write of the skip file do not fail every night (strong,
  `Succeeds`, `Recorded`). The health check has no fairness: a release that is never
  healthy is backed out, and `Converges` then asks that the skip file comes to name it.
* `ClientUpdate!Spec`: a bridge that runs goes on and agents keep opening sessions.
  Failures and quits are finite by `MaxTroubles`, so nothing is assumed of a download
  that fails for ever.
* `Service!ServiceSpec`: time passes, goroutines and handlers run and bridges give up in
  the end (weak); searches keep being sent and keep arriving (strong), because only a
  request that times out looks for a stuck call. Nothing is assumed of the model
  (`Returns` has no fairness), and nothing says that a write ever arrives.
* `OwnerAccess!Spec`: commands that run go on unless killed; a server with a usable token
  is started; the owner does what the documentation tells somebody who is locked out
  (restart, put an old rollback copy elsewhere, rotate) and tries to sign in again
  (strong). `CopyFails`, `Kill` and lost files are finite by `MaxTroubles`.

### Findings

1. `upgrade_skips`: "never retries a release that was rolled back or failed its
   health check" (`upgrade.go`). The skip file holds one version; an explicit upgrade
   that fails overwrites the record of the nightly one, which is then retried.
2. `update_quit`: `FollowServer` "makes the managed client match the server's
   version, in either direction". An agent that ends while its bridge is between
   removing a version's program and its folder leaves an empty folder; `os.Rename`
   refuses it, and a server rolled back to that version is not followed until some
   other version is installed and prunes it.

The shortest trace of `upgrade_skips` begins with a failed plutil whose plist could not
be copied back; that only saves `adopt` its other steps and has no part in the finding.

Also seen while modelling, without a run of their own:

* A connect run killed between setup's write of the configuration and the removal of the
  saved request leaves a request that matches no configuration, and later runs stop with
  `conflicting_configuration`. `Settles` makes an exception for exactly this state;
  `connect_alone`, which has a kill anywhere, shows that no other kill leaves a saved
  request for good.
* If launchd needs longer than `unloadWait` to stop the job, `adopt` gives up after the
  stop was asked for and the service ends unloaded (hence `slowStop` in `ServiceKept`).
  It also ends unloaded when the move onto `current` fails and copying the plist back or
  the second `launchctl bootstrap` fails too (hence `unrestored`).
* A kill in `adopt` between the new plist and its loading leaves launchd with the old copy
  of the plist, which names an archive. Nothing in `upgrade.go` loads the plist again, so
  every later release fails its health check and is backed out until launchd itself
  reloads it. `ServiceKept` and `RollbackAimed` do not rule this out; to `Converges` each
  such release counts as tried, because the skip file comes to name it.
* A failed write of the skip file, or a kill between the failed health check and the
  record, lets the unattended nightly job try a failed release again (hence
  `unrecorded` in `NeverRetried`). A rollback whose target is unhealthy records nothing.
* With two overlapping connect runs the saved request of one may be removed by the other,
  which removes it by its path alone. The machine then asks again.

## Proofs

TLAPS proves the following for every value of the constants that satisfies the named
assumptions (`ConstantsAssumption`, `ImportedAssumption`, `OwnerAssumption`,
`LimitsAssumption`, `NamesAssumption`, `PagerAssumption` and so on), which TLC evaluates in the runs above.

`MemoryStoreProofs`. `Soundness` proves the inductive invariant `Sound(db)`: types,
complete history, confirmation, unique identity, unique key and one handoff per
scope. No part is inductive alone: a duplicate is refused by looking at rows, so
uniqueness needs the types; a snapshot adds a revision only because the stored ones
end at the row's own (history); a restore takes its text from history; confirmation
along history needs the newest snapshot to be the row. The proof follows the code:
lemmas about `Snapshot`, `Revise` and `RetireHandoffs` under `Fits` (what every caller
gives them), one lemma that a `WriteTx` and one that an `ArchiveTx` keeps the
invariant, and `MoveTx` as one after the other. `StepKinds` reduces every request to one
of these three. `TypeCorrectness`, `CompleteHistory`, `SingleHandoff`, `UniqueRows` and
`KeptConfirmation` follow.

`MemoryHistoryProofs` is about what the store has answered. Every transaction is a
`Change` of one row, plus the handoffs it retires, followed by its receipts. `Persists`
says what such a step leaves alone, and each promise then needs an argument for old
versions (they persist) and for new ones: receipts (`Kept`), one request per version
(`AppliedOnce`), moves (`Conserved`), vectors (`OwnEmbedding`) and notes (`Notes`). Notes
need `NotesCurrent`: an active row carries none, nor does the version before a note, so
nothing can show one again as if it were an author. A move is two changes; the
invariant is carried across the state between them. `Promise` is all of it together;
`EmbeddingsOwn`, `NotesStayTrue`, `AcknowledgementsKept`, `VersionsAccounted`,
`MovesConserve`, the action property `ChangesAreRequested` and the refinement
`StoreImplementsVersions` follow.

Its last part adds the owner: each handler's step is one of the same three kinds
(`OwnerStepKinds`; what a handler may have read is a revision, and the author it passes
on is never a note, `ArchivistOwn`). So all ten invariants, `ChangesOnRequest` and the
refinement hold of agents and owner together (`OwnedInvariants`,
`OwnedChangesOnRequest`, `OwnedImplementsVersions`), and `RetriesStayAlike` follows from
`ReadsPersist`: revisions do not change. It is about requests that are built, with reads
that succeed, as `RetriesAlike` is.

`ServiceProofs`. `ServiceUsesGate` shows that every step of `Service` is one of the gate's
own or leaves it alone, so the gate's facts carry over. `CallsNeverOverlap` needs
`OneHolder`: an admitted caller or a living goroutine is alone and has filled the
channel. `ExitsOnlyWhenStuck` needs `HeldByCall`: `heldSince` is the time of a call that
has not cleared it. `ServiceSavesWrites` is the refinement to `SavedWrites`, from
`ReceiptsTrue`: a handler that is done has its write in the database.

`OwnerAccessProofs`. `RotationKeepsCredential` from `TokenInv` (before the rename, the
copy is the token that is replaced), `SessionLimit` and `SigningOutIsFinal` from
`SessionInv` (a signed-out cookie has no row; only a fresh login adds one, and a login that draws a
cookie value of the model again is a new cookie).

`ServerUpgradeProofs`. `UpgradeInv` says which values run, links and plist share at each
stage, what is on disk, and what holds without a kill. From it `NeededArchivesKept`,
`FailedRunsRestore` and `ServiceStaysLoaded` (for a launchd that stops in time, and unless
putting the old plist back failed as well); `RollbackStaysAimed` adds `Aimed` (the proven
version is the service's, or previous, or held by the cutover) and assumes at most one
kill, as the code does. `NightlyNeverRetries` shows how far the claim of finding 1 goes: it
holds as long as nobody upgrades or rolls back by hand (`Unattended`) and every failed
release was recorded (`~unrecorded`), whatever else fails, is killed or is published. A
release that was backed out is then in the skip file, out of date, or about to be recorded
by the run under way, and a run goes past it (`SkipInv`, with `Owes`).

`ClientUpdateProofs`. `UpdateInv` is about an agent alone: while it holds a version that
version has its program, and pruning never lists the two that matter.
`CurrentStaysInstalled` and `PreviousStaysInstalled` follow. `AtMostTwoLeft` is about any
number of overlapping agents, and about a count that no single step bounds: `TwoRemain`
says that, when nothing fails, either some bridge has installed and still has to list the
folders, or all folders but two are on the lists of bridges that go on to remove them. Any
bridge that adds a folder lists them all later, so whoever lists last settles the count.
`ListingSettles`, `PruningRemoves` and `QuietSteps` are the three ways a step can go.

`PairingProofs`. `TypeCorrectness`, `ApprovalGrants` (an approved request has its
token; inductive because tokens are only appended or marked revoked and `Expire` keeps
what it keeps unchanged), the action property `RevocationIsFinal` (fingerprints are
unique in the table) and `QueueStaysBounded`: `QueueInv` bounds the undecided requests in
every window of one lifetime, and two windows cover all ages a handler leaves.

Its second part is about `Connect`. `ConnectPairs` shows that the composition refines
`Pairing`, so those theorems carry over (`ConnectedPromises`). `ConfigStaysUsable`, for any
number of runs and kills, rests on `ConnectInv`: a path is `Good` when its file holds a
secret the server knows, and what a run will write to the configuration, its own path
once admitted or the one it read before, is good. It stays so because nobody writes a
file that holds a secret (`FilesKept`, the files are opened with O_EXCL) and a known
secret is never forgotten (`KnownStays`). `DiscardsAreSafe` is `DiscardSafe` for one run
after another and any number of kills (`connect_alone` has one), from
`Carries`: a resumed run works for the request that is saved, then its file holds that
request's secret, then the configuration names that file. With two runs it is false
(Findings), which is why the theorem assumes one.

`OwnerViewProofs`, first part: what an agent starts with, for any set of rows with
distinct IDs, any scope and any budget. `Lists(list, S, R)` says that a list has all of S
once and in the order R; `OrderedLists` that counting what comes earlier gives such a list.
`SortedIsList` and `BalancedLists` apply it to the query and to the balance: both orders
are total because memories have IDs, and `RoundsDiffer` because two records of a group
never have the same round (how many of its group are newer and how many older always
add up to the same, so the round tells them). `PageHolds` is about the loop: a record is
on the page exactly when it still fits after those of the page that come before it in the
list. It needs an induction over the turns of the loop, which is done without an
induction theorem that takes an operator: the turns that are right are a set of naturals
without a least gap (`Climbs`), and the same for the loop having an outcome at all
(`LoopRuns`). Sizes are cardinalities, so that they add up (`SizeAdds`) and grow
(`SizeGrows`). From `PageHolds` follow the budget, that no room is wasted, and
(`FirstsGoFirst`) that only the newest of the other scope may go before the newest of
one: `StartsFair`. `PreviewsAgree` splits the records in scope into loaded, over budget,
older handoffs and unconfirmed ones and counts both lists.

Second part: the lists. `PagesStayFaithful` from `ListInv`: a list's references have the
versions the query saw, which no later change touches because revisions are only
appended; a cursor is the digest of view and references, so a snapshot found under a
cursor is the list that tab began, whoever stored it and however often it was evicted
and stored again. The rows of the moment are rows with distinct IDs (`RowsOfTheMoment`),
so `BudgetsAreWellSpent` and `PreviewsStayTrue` hold in every state.

Third part: what the pager's own errors and limits rest on; no run checks these.
`CursorsAlwaysGoOn` says that a cursor the pager sent lies strictly inside its list and
strictly after where its page began, so that "page cursor does not match" answers nobody
who follows the pages and every page brings something new. Its invariant `PageBegins` says
where a page under way began. `ListsStayBounded` is from
`RoomInv`: references are counted as pairs of a key and a place (`Cells`), so that a
snapshot adds its own (`RefsAdd`) and fewer snapshots have fewer (`RefsGrow`); where all
of them go, the query's limit fits the pager's. `RoomIsAlwaysMade` says that the loop that
makes room ends with room or with nothing left (`RoomIsMade`): of the sets of snapshots
that dropping the earliest may leave, one that misses the fewest is an outcome.

Only model-checked, and out of the prover's reach: liveness under fairness and ENABLED
(`OwnerGetsIn`, `GateFrees`, `RunsEnd`, `Settles`, `Follows`, `Converges`). No module has
RECURSIVE operators.

## Plan

The planned modules are written, most important first: the store with its owner, the
service around it, pairing and connect, upgrade, self-update, owner access, the lists.
What would come next: agents' settings files as
one transaction of several files; the backup and its verification.

## Not modelled, and why

* Search ranking and embeddings: numeric. Rendering, routing, origin checks, schemas:
  no state. Audit lines: no state but a rate limit of repeated denials.
* Hooks only read; scope detection runs git. Agent wiring: other programs' settings
  files, one step in Connect that succeeds or fails.
* Export, backup and re-embedding: one read, or a single offline process over SQLite's
  own copy.
* Connect to a second server, with the owner's token, and the Windows migration.
* SQL itself: statements are set and function updates; I/O errors of a transaction
  roll it back, which is a stuttering step.
