---------------------------- MODULE OwnerAccess ----------------------------
(***************************************************************************)
(* How the owner gets in: the server's data directory with the database,   *)
(* access-token and its rollback copy (cmd/grasshopper-server, main.go and *)
(* rotation.go), the token a running handler has loaded, browser sessions  *)
(* (internal/memory/owner_sessions.go) and the limit on wrong tokens       *)
(* (internal/service/visualizer_session.go).                               *)
(*                                                                         *)
(* First start and rotation change one file at a time and may be killed    *)
(* between any two changes.  A cookie's signature is keyed by the token    *)
(* the server has loaded, and its row must be in the database.             *)
(***************************************************************************)
EXTENDS Naturals, FiniteSets

CONSTANTS
  Tokens,        \* owner tokens that quickstart and rotation may draw
  Cookies,       \* cookie values that may be in use at once
  Peers,         \* addresses that send wrong tokens
  Life,          \* ticks a session lasts (a week)
  Window,        \* ticks a login window lasts (five minutes)
  MaxSessions,   \* 256
  MaxTries,      \* 10
  MaxPeers,      \* 1024
  MaxTroubles,   \* kills, failures, lost files and needless restarts or rotations
  None, Torn

ASSUME LimitsAssumption ==
  /\ {Life, Window, MaxSessions, MaxTries, MaxPeers} \subseteq Nat \ {0}
  /\ MaxTroubles \in Nat /\ None \notin Tokens /\ Torn \notin Tokens

VARIABLES
  database,   \* "absent", "empty" (its file only) or "made"
  token,      \* access-token: None, Torn or a token
  previous,   \* access-token.previous: the same
  task,       \* the offline command under way: [at, old, new]
  server,     \* the token its handler has loaded, or None when it is stopped
  cookie,     \* cookie[c]: [key, left], the token that signed it and its ticks left
  sessions,   \* owner_sessions: the cookies with a row
  attempts,   \* attempts[p]: None or [age, count], a login window
  ended,      \* history: cookies a browser has signed out
  troubles

disk == <<database, token, previous>>
browsers == <<cookie, sessions, attempts, ended>>
vars == <<disk, task, server, browsers, troubles>>

NoTask == [at |-> "idle", old |-> None, new |-> None]
Unsigned == [key |-> None, left |-> 0]

Init ==
  /\ database = "absent" /\ token = None /\ previous = None
  /\ task = NoTask
  /\ server = None
  /\ cookie = [c \in Cookies |-> Unsigned]
  /\ sessions = {}
  /\ attempts = [p \in Peers |-> None]
  /\ ended = {}
  /\ troubles = 0

Drawn == {token, previous, server} \cup {cookie[c].key : c \in Cookies}
Trouble == troubles < MaxTroubles /\ troubles' = troubles + 1

\* There is no token to start with, or the server needs another than the file holds.
Unusable == token \notin Tokens \/ (server # None /\ token # server)

\* Rotating or restarting without need is bounded.
Occasionally == IF Unusable THEN UNCHANGED troubles ELSE Trouble

----------------------------------------------------------------------------
(* quickstart *)

\* Neither file exists: the token is created, then the database.
Quickstart(t) ==
  /\ task = NoTask /\ server = None
  /\ database = "absent" /\ token = None /\ previous = None
  /\ t \notin Drawn
  /\ token' = Torn
  /\ task' = [at |-> "first", old |-> None, new |-> t]
  /\ UNCHANGED <<database, previous, server, browsers, troubles>>

FirstToken ==
  /\ task.at = "first"
  /\ token' = task.new
  /\ task' = [task EXCEPT !.at = "database"]
  /\ UNCHANGED <<database, previous, server, browsers, troubles>>

\* CreateEmpty: the file first, its schema in one transaction.
CreateEmpty ==
  /\ task.at = "database"
  /\ IF database = "absent"
       THEN database' = "empty" /\ UNCHANGED task
       ELSE database' = "made" /\ task' = NoTask
  /\ UNCHANGED <<token, previous, server, browsers, troubles>>

\* A failing step takes back what the first start has created.
FirstFails ==
  /\ task.at \in {"first", "database"}
  /\ Trouble
  /\ token' = None
  /\ database' = "absent"
  /\ task' = NoTask
  /\ UNCHANGED <<previous, server, browsers>>

\* A complete pair is reused; an incomplete one is refused, as is an empty token.
Start ==
  /\ task = NoTask /\ server = None
  /\ database = "made" /\ token \in Tokens
  /\ server' = token
  /\ attempts' = [p \in Peers |-> None]
  /\ UNCHANGED <<disk, task, cookie, sessions, ended, troubles>>

\* A person or the supervisor stops it, or it dies.
Stop ==
  /\ server # None
  /\ Occasionally
  /\ server' = None
  /\ UNCHANGED <<disk, task, browsers>>

----------------------------------------------------------------------------
(* rotateOwnerToken: --server-stopped only acknowledges, it detects nothing *)

Rotate(t) ==
  /\ task = NoTask
  /\ database # "absent" /\ previous = None
  /\ t \notin Drawn
  /\ task' = [at |-> IF token = None THEN "replace" ELSE "create", old |-> token, new |-> t]
  /\ Occasionally
  /\ UNCHANGED <<disk, server, browsers>>

\* Mutant: the new token is renamed into place before the old one is kept.
KeepPrevious_Late ==
  /\ \/ /\ task.at = "create" /\ previous = None
        /\ previous' = Torn
        /\ token' = task.new
        /\ task' = [task EXCEPT !.at = "copy"]
     \/ /\ task.at = "copy"
        /\ previous' = task.old
        /\ task' = [task EXCEPT !.at = "replace"]
        /\ UNCHANGED token
  /\ UNCHANGED <<database, server, browsers, troubles>>

\* The rollback copy is created exclusively and then written.
KeepPrevious ==
  /\ \/ /\ task.at = "create" /\ previous = None
        /\ previous' = Torn
        /\ task' = [task EXCEPT !.at = "copy"]
     \/ /\ task.at = "copy"
        /\ previous' = task.old
        /\ task' = [task EXCEPT !.at = "replace"]
  /\ UNCHANGED <<database, token, server, browsers, troubles>>

CopyFails ==
  /\ task.at = "copy"
  /\ Trouble
  /\ previous' = None
  /\ task' = NoTask
  /\ UNCHANGED <<database, token, server, browsers>>

\* The temporary file, complete and synced, is renamed over access-token.
Replace ==
  /\ task.at = "replace"
  /\ token' = task.new
  /\ task' = NoTask
  /\ UNCHANGED <<database, previous, server, browsers, troubles>>

\* A kill between any two steps.
Kill ==
  /\ task # NoTask
  /\ Trouble
  /\ task' = NoTask
  /\ UNCHANGED <<disk, server, browsers>>

\* The owner puts the rollback copy elsewhere, or copies it back; a file gets lost.
Remove ==
  /\ task = NoTask /\ previous # None
  /\ previous' = None
  /\ UNCHANGED <<database, token, task, server, browsers, troubles>>

CopyBack ==
  /\ task = NoTask /\ previous \in Tokens
  /\ Trouble
  /\ token' = previous
  /\ UNCHANGED <<database, previous, task, server, browsers>>

Lose ==
  /\ task = NoTask /\ token # None
  /\ Trouble
  /\ token' = None
  /\ UNCHANGED <<database, previous, task, server, browsers>>

----------------------------------------------------------------------------
(* browsers *)

\* validVisualizerSession and OwnerSessionValid.
Accepted(c) ==
  /\ server # None /\ cookie[c].key = server
  /\ cookie[c].left > 0
  /\ c \in sessions

Live == {c \in sessions : cookie[c].left > 0}

\* Mutant: at the cap nothing is dropped for the new row.
Kept_All == {Live}

\* What AddOwnerSession may leave: at the cap the sessions closest to expiry go.
Kept ==
  {kept \in SUBSET Live :
     /\ Cardinality(kept) = IF Cardinality(Live) < MaxSessions THEN Cardinality(Live) ELSE MaxSessions - 1
     /\ \A c \in kept, d \in Live \ kept : cookie[d].left <= cookie[c].left}

\* Windows that are not over yet.
Current == [p \in Peers |->
  IF attempts[p] # None /\ attempts[p].age >= Window THEN None ELSE attempts[p]]

\* allowLogin: may a wrong token be looked at, or is it too many attempts.
Allows(p) ==
  IF Current[p] = None
    THEN Cardinality({q \in Peers : Current[q] # None}) < MaxPeers
    ELSE Current[p].count < MaxTries

\* Mutant: the limiter also judges whoever has the right token.
Admits_Limited(p, t) == t = server /\ Allows(p)

\* A valid bearer is not limited.
Admits(p, t) == t = server

\* POST session with the token the owner reads from its file.
SignIn(c, p) ==
  /\ server # None /\ Admits(p, token)
  /\ c \notin Live
  /\ \E kept \in Kept : sessions' = kept \cup {c}
  /\ cookie' = [cookie EXCEPT ![c] = [key |-> server, left |-> Life]]
  /\ attempts' = [attempts EXCEPT ![p] = None]
  /\ ended' = ended \ {c}
  /\ UNCHANGED <<disk, task, server, troubles>>

\* ... whose row cannot be stored: the limiter has been reset by then.
SignInFails(p) ==
  /\ server # None /\ Admits(p, token)
  /\ attempts' = [attempts EXCEPT ![p] = None]
  /\ UNCHANGED <<disk, task, server, cookie, sessions, ended, troubles>>

\* POST session with a wrong token.
WrongToken(p) ==
  /\ server # None
  /\ attempts' = IF Allows(p)
                 THEN [Current EXCEPT ![p] = [age   |-> IF @ = None THEN 0 ELSE @.age,
                                              count |-> IF @ = None THEN 1 ELSE @.count + 1]]
                 ELSE Current
  /\ UNCHANGED <<disk, task, server, cookie, sessions, ended, troubles>>

\* Mutant: signing out takes a valid cookie.
SignOut_Valid(c) ==
  /\ server # None /\ cookie[c] # Unsigned
  /\ sessions' = IF Accepted(c) THEN sessions \ {c} ELSE sessions
  /\ ended' = ended \cup {c}
  /\ UNCHANGED <<disk, task, server, cookie, attempts, troubles>>

\* DELETE session removes the row of whatever cookie is sent.
SignOut(c) ==
  /\ server # None /\ cookie[c] # Unsigned
  /\ sessions' = sessions \ {c}
  /\ ended' = ended \cup {c}
  /\ UNCHANGED <<disk, task, server, cookie, attempts, troubles>>

\* revokeAll, by a browser that is signed in or with the owner token.
SignOutEverywhere ==
  /\ server # None
  /\ token = server \/ \E c \in Cookies : Accepted(c)
  /\ sessions' = {}
  /\ ended' = {c \in Cookies : cookie[c] # Unsigned}
  /\ UNCHANGED <<disk, task, server, cookie, attempts, troubles>>

Tick ==
  /\ cookie' = [c \in Cookies |->
       IF cookie[c].left > 1 THEN [cookie[c] EXCEPT !.left = @ - 1] ELSE Unsigned]
  /\ attempts' = [p \in Peers |->
       IF attempts[p] = None \/ attempts[p].age >= Window THEN attempts[p]
       ELSE [attempts[p] EXCEPT !.age = @ + 1]]
  /\ ended' = {c \in ended : cookie[c].left > 1}
  /\ UNCHANGED <<disk, task, server, sessions, troubles>>

Next ==
  \/ \E t \in Tokens : Quickstart(t) \/ Rotate(t)
  \/ FirstToken \/ CreateEmpty \/ FirstFails \/ Start \/ Stop
  \/ KeepPrevious \/ CopyFails \/ Replace \/ Kill \/ Remove \/ CopyBack \/ Lose
  \/ \E c \in Cookies, p \in Peers : SignIn(c, p)
  \/ \E p \in Peers : SignInFails(p) \/ WrongToken(p)
  \/ \E c \in Cookies : SignOut(c)
  \/ SignOutEverywhere \/ Tick

\* What the documentation tells an owner who is locked out: restart, or rotate after
\* putting an old rollback copy elsewhere; commands that run go on.
Spec ==
  /\ Init /\ [][Next]_vars
  /\ WF_vars(FirstToken \/ CreateEmpty \/ KeepPrevious \/ Replace)
  /\ WF_vars(Start)
  /\ WF_vars(Unusable /\ Stop)
  /\ WF_vars(token \notin Tokens /\ \E t \in Tokens : Rotate(t))
  /\ WF_vars(token \notin Tokens /\ Remove)
  /\ SF_vars(\E c \in Cookies, p \in Peers : SignIn(c, p))

----------------------------------------------------------------------------
TypeOK ==
  /\ database \in {"absent", "empty", "made"}
  /\ {token, previous} \subseteq Tokens \cup {None, Torn}
  /\ task \in [at : {"idle", "first", "database", "create", "copy", "replace"},
               old : Tokens \cup {None, Torn}, new : Tokens \cup {None}]
  /\ server \in Tokens \cup {None}
  /\ cookie \in [Cookies -> [key : Tokens \cup {None}, left : 0..Life]]
  /\ sessions \subseteq Cookies /\ ended \subseteq Cookies
  /\ attempts \in [Peers -> {None} \cup [age : 0..Window, count : 1..MaxTries]]
  /\ troubles \in 0..MaxTroubles

\* However logins, expiry and sign-outs alternate, the table holds at most 256 rows.
SessionsBounded == Cardinality(sessions) <= MaxSessions

\* "Retains the old credential in access-token.previous": wherever a rotation is
\* killed, a complete owner token is replaced only once its copy is complete.
CredentialKept ==
  [][(token \in Tokens /\ token' \notin {token, None}) => previous = token \/ CopyBack]_vars

\* Signed out is signed out, for a cookie of another owner token too: no restart,
\* rotation or rollback has it accepted again.
SignedOutStays == \A c \in ended : ~Accepted(c)

\* The owner of a database always gets in again: wrong tokens sent from everywhere,
\* browsers that never signed out, a lost token file, killed rotations and a server
\* that still holds the old token are all got over.
OwnerGetsIn == database = "made" ~> \E c \in Cookies : Accepted(c)
============================================================================
