-------------------------- MODULE OwnerAccessProofs --------------------------
(***************************************************************************)
(* Proofs about OwnerAccess, for any tokens, browsers, addresses and       *)
(* limits.                                                                 *)
(***************************************************************************)
EXTENDS OwnerAccess, FiniteSetTheorems, TLAPS

----------------------------------------------------------------------------
(* The token file *)

\* A first start has no complete token yet, a rotation has the one it will replace,
\* and replaces it once its copy is complete.
TokenInv ==
  /\ {token, previous} \subseteq Tokens \cup {None, Torn}
  /\ task \in [at : {"idle", "first", "database", "create", "copy", "replace"},
              old : Tokens \cup {None, Torn}, new : Tokens \cup {None}]
  /\ task.at = "idle" => task = NoTask
  /\ task.at = "first" => token \notin Tokens
  /\ task.at \in {"create", "copy", "replace"} => token = task.old
  /\ task.at = "replace" => token = None \/ previous = token

\* The steps of the commands on the server's machine.
OnDisk ==
  \/ \E t \in Tokens : Quickstart(t) \/ Rotate(t)
  \/ FirstToken \/ CreateEmpty \/ FirstFails
  \/ KeepPrevious \/ CopyFails \/ Replace \/ Kill \/ Remove \/ CopyBack \/ Lose

\* The steps of the server and of browsers.
OverHTTP ==
  \/ Start \/ Stop \/ SignOutEverywhere \/ Tick
  \/ \E c \in Cookies, p \in Peers : SignIn(c, p)
  \/ \E p \in Peers : SignInFails(p) \/ WrongToken(p)
  \/ \E c \in Cookies : SignOut(c)

LEMMA NextSplit == Next <=> OnDisk \/ OverHTTP
  BY DEF Next, OnDisk, OverHTTP

\* The server and browsers leave the files alone.
LEMMA HTTPKeepsDisk == OverHTTP => UNCHANGED <<token, previous, task>>
  BY DEF OverHTTP, Start, Stop, SignOutEverywhere, Tick, SignIn, SignInFails, WrongToken, SignOut, disk

\* The commands leave the sessions alone.
LEMMA DiskKeepsSessions == OnDisk => UNCHANGED <<cookie, sessions, ended>>
  BY DEF OnDisk, Quickstart, Rotate, FirstToken, CreateEmpty, FirstFails, KeepPrevious, CopyFails,
         Replace, Kill, Remove, CopyBack, Lose, browsers

LEMMA TokenInit == Init => TokenInv
  BY DEF Init, TokenInv, NoTask

LEMMA TokenStep == TokenInv /\ [Next]_vars => TokenInv'
  <1> SUFFICES ASSUME TokenInv, [Next]_vars
               PROVE  TokenInv'
    OBVIOUS
  <1> USE DEF TokenInv, NoTask
  <1>1. ASSUME NEW t \in Tokens, Quickstart(t)
        PROVE  TokenInv'
    BY <1>1, LimitsAssumption DEF Quickstart
  <1>2. ASSUME NEW t \in Tokens, Rotate(t)
        PROVE  TokenInv'
    BY <1>2 DEF Rotate, disk
  <1>3. CASE FirstToken
    BY <1>3 DEF FirstToken
  <1>4. CASE CreateEmpty
    BY <1>4 DEF CreateEmpty
  <1>5. CASE FirstFails \/ CopyFails \/ Replace \/ Kill
    <2>1. task' = NoTask /\ NoTask.at = "idle"
      BY <1>5 DEF FirstFails, CopyFails, Replace, Kill
    <2>2. {token', previous'} \subseteq Tokens \cup {None, Torn}
      BY <1>5 DEF FirstFails, CopyFails, Replace, Kill, disk
    <2> QED BY <2>1, <2>2
  <1>6. CASE KeepPrevious
    <2>1. CASE task.at = "create"
      <3>1. task'.at = "copy" /\ task'.old = task.old /\ task'.new = task.new
        BY <1>6, <2>1 DEF KeepPrevious
      <3> QED BY <1>6, <2>1, <3>1 DEF KeepPrevious
    <2>2. CASE task.at = "copy"
      <3>1. task'.at = "replace" /\ task'.old = task.old /\ task'.new = task.new
        BY <1>6, <2>2 DEF KeepPrevious
      <3> QED BY <1>6, <2>2, <3>1 DEF KeepPrevious
    <2> QED BY <1>6, <2>1, <2>2 DEF KeepPrevious
  <1>7. CASE Remove \/ CopyBack \/ Lose
    BY <1>7 DEF Remove, CopyBack, Lose
  <1>8. CASE OverHTTP \/ UNCHANGED vars
    BY <1>8, HTTPKeepsDisk DEF vars, disk
  <1> QED BY <1>1, <1>2, <1>3, <1>4, <1>5, <1>6, <1>7, <1>8, NextSplit DEF OnDisk

\* Wherever a rotation is killed, the owner token it replaces is kept first; only the
\* owner's own copying back replaces another.
THEOREM RotationKeepsCredential == Spec => CredentialKept
  <1>1. TokenInv /\ [Next]_vars =>
          [(token \in Tokens /\ token' \notin {token, None}) => previous = token \/ CopyBack]_vars
    <2> SUFFICES ASSUME TokenInv, Next, token \in Tokens, token' \notin {token, None}, ~CopyBack
                 PROVE  previous = token
      OBVIOUS
    <2>1. CASE Replace
      BY <2>1, LimitsAssumption DEF Replace, TokenInv
    <2>2. ASSUME NEW t \in Tokens, Quickstart(t) \/ Rotate(t)
          PROVE  FALSE
      BY <2>2, LimitsAssumption DEF Quickstart, Rotate, disk
    <2>3. CASE FirstToken \/ CreateEmpty \/ FirstFails \/ KeepPrevious \/ CopyFails \/ Kill \/ Remove \/ Lose
      BY <2>3 DEF FirstToken, CreateEmpty, FirstFails, KeepPrevious, CopyFails, Kill, Remove, Lose, TokenInv, disk
    <2>4. ~OverHTTP
      BY HTTPKeepsDisk
    <2> QED BY <2>1, <2>2, <2>3, <2>4, NextSplit DEF OnDisk
  <1>2. TokenInv /\ [Next]_vars => TokenInv'
    BY TokenStep
  <1> QED BY TokenInit, <1>1, <1>2, PTL DEF Spec, CredentialKept

----------------------------------------------------------------------------
(* Sessions *)

SessionInv ==
  /\ ended \cap sessions = {}
  /\ IsFiniteSet(sessions) /\ Cardinality(sessions) <= MaxSessions

\* A login makes room for its row, and needs no more than that.
LEMMA LoginFits ==
  ASSUME SessionInv, NEW c \in Cookies, NEW p \in Peers, SignIn(c, p)
  PROVE  SessionInv'
  <1>1. PICK kept \in Kept : sessions' = kept \cup {c}
    BY DEF SignIn
  <1>2. kept \subseteq Live /\ Live \subseteq sessions
    BY <1>1 DEF Kept, Live
  <1>3. /\ IsFiniteSet(Live) /\ IsFiniteSet(kept)
        /\ Cardinality(Live) \in Nat /\ Cardinality(kept) \in Nat /\ MaxSessions \in Nat \ {0}
    BY <1>2, FS_Subset, FS_CardinalityType, LimitsAssumption DEF SessionInv
  <1>4. Cardinality(kept) = IF Cardinality(Live) < MaxSessions THEN Cardinality(Live) ELSE MaxSessions - 1
    BY <1>1 DEF Kept
  <1>5. c \notin kept
    BY <1>2 DEF SignIn
  <1>6. IsFiniteSet(kept \cup {c}) /\ Cardinality(kept \cup {c}) = Cardinality(kept) + 1
    BY <1>3, <1>5, FS_AddElement
  <1>7. Cardinality(sessions') <= MaxSessions
    BY <1>1, <1>3, <1>4, <1>6
  <1>8. ended' \cap sessions' = {}
    BY <1>1, <1>2 DEF SignIn, SessionInv
  <1> QED BY <1>1, <1>6, <1>7, <1>8 DEF SessionInv

\* Rows that go do no harm.
LEMMA RowsGo ==
  ASSUME SessionInv, sessions' \subseteq sessions, ended' \cap sessions' = {}
  PROVE  SessionInv'
  <1>1. /\ IsFiniteSet(sessions') /\ Cardinality(sessions') <= Cardinality(sessions)
        /\ Cardinality(sessions) \in Nat /\ Cardinality(sessions') \in Nat /\ MaxSessions \in Nat
    BY FS_Subset, FS_CardinalityType, LimitsAssumption DEF SessionInv
  <1> QED BY <1>1 DEF SessionInv

LEMMA SessionStep == SessionInv /\ [Next]_vars => SessionInv'
  <1> SUFFICES ASSUME SessionInv, [Next]_vars
               PROVE  SessionInv'
    OBVIOUS
  <1>1. ASSUME NEW c \in Cookies, NEW p \in Peers, SignIn(c, p)
        PROVE  SessionInv'
    BY <1>1, LoginFits
  <1>2. ASSUME NEW c \in Cookies, SignOut(c)
        PROVE  SessionInv'
    <2>1. sessions' = sessions \ {c} /\ ended' = ended \cup {c}
      BY <1>2 DEF SignOut
    <2> QED BY <2>1, RowsGo DEF SessionInv
  <1>3. CASE SignOutEverywhere \/ Tick
    <2>1. sessions' \subseteq sessions /\ ended' \cap sessions' = {}
      BY <1>3 DEF SignOutEverywhere, Tick, SessionInv
    <2> QED BY <2>1, RowsGo
  <1>4. CASE Start \/ Stop \/ (\E p \in Peers : SignInFails(p) \/ WrongToken(p)) \/ OnDisk \/ UNCHANGED vars
    BY <1>4, DiskKeepsSessions DEF Start, Stop, SignInFails, WrongToken, vars, browsers, SessionInv
  <1> QED BY <1>1, <1>2, <1>3, <1>4, NextSplit DEF OverHTTP

LEMMA SessionsSound == Spec => []SessionInv
  <1>1. Init => SessionInv
    BY FS_EmptySet, LimitsAssumption DEF Init, SessionInv
  <1>2. SessionInv /\ [Next]_vars => SessionInv'
    BY SessionStep
  <1> QED BY <1>1, <1>2, PTL DEF Spec

\* The session table keeps its limit, however logins, expiry and sign-outs alternate.
THEOREM SessionLimit == Spec => []SessionsBounded
  <1>1. SessionInv => SessionsBounded
    BY DEF SessionInv, SessionsBounded
  <1> QED BY SessionsSound, <1>1, PTL

\* A signed-out cookie stays signed out through restarts, rotations and rollbacks.
THEOREM SigningOutIsFinal == Spec => []SignedOutStays
  <1>1. SessionInv => SignedOutStays
    BY DEF SessionInv, SignedOutStays, Accepted
  <1> QED BY SessionsSound, <1>1, PTL
==============================================================================
