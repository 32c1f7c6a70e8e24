---------------------------- MODULE ServiceProofs ----------------------------
(***************************************************************************)
(* Proofs about Service and the inference gate in it, for any agents,      *)
(* exchanges, goroutines and requests.                                     *)
(***************************************************************************)
EXTENDS Service, TLAPS

----------------------------------------------------------------------------
(* The gate *)

Calls == [state : {"none", "running", "clearing", "leaving"}, age : Nat, answers : Callers \cup {Nil}]

GateType ==
  /\ caller \in [Callers -> {"idle", "queued", "admitted", "waiting"}]
  /\ gate \in BOOLEAN
  /\ goroutine \in [Goroutines -> Calls]

Admitted(c) == caller[c] = "admitted"
Live(g) == goroutine[g].state # "none"

\* Whoever was admitted, a request before its goroutine or the goroutine after it,
\* is alone and has filled the gate.
OneHolder ==
  /\ \A c, d \in Callers : Admitted(c) /\ Admitted(d) => c = d
  /\ \A g, h \in Goroutines : Live(g) /\ Live(h) => g = h
  /\ \A c \in Callers, g \in Goroutines : ~(Admitted(c) /\ Live(g))
  /\ \A c \in Callers : Admitted(c) => gate
  /\ \A g \in Goroutines : Live(g) => gate

\* A time in heldSince is that of a call which has not cleared it.
HeldByCall ==
  heldSince # Nil =>
    \E g \in Goroutines : goroutine[g].state \in {"running", "clearing"} /\ goroutine[g].age = heldSince

GateInv == GateType /\ OneHolder /\ HeldByCall

LEMMA NoneIsACall == NoGoroutine \in Calls /\ NoGoroutine.state = "none"
  BY DEF NoGoroutine, Calls

LEMMA GateInit == Init => GateInv
  BY NoneIsACall DEF Init, GateInv, GateType, OneHolder, HeldByCall, Admitted, Live

\* Ages stay numbers.
LEMMA OlderType == \A age \in Nat : Older(age) \in Nat
  BY StuckAssumption DEF Older

\* Whatever a process did, a new one holds nothing.
LEMMA RestartsGate == Restarts => GateInv'
  BY NoneIsACall DEF Restarts, GateInv, GateType, OneHolder, HeldByCall, Admitted, Live

LEMMA GateStep == GateInv /\ [Next]_vars => GateInv'
  <1> SUFFICES ASSUME GateInv, [Next]_vars
               PROVE  GateInv'
    OBVIOUS
  <1> USE DEF GateInv, Calls
  <1>1. ASSUME NEW c \in Callers, Ask(c)
        PROVE  GateInv'
    BY <1>1 DEF Ask, GateType, OneHolder, HeldByCall, Admitted, Live
  <1>2. ASSUME NEW c \in Callers, Enter(c)
        PROVE  GateInv'
    BY <1>2 DEF Enter, GateType, OneHolder, HeldByCall, Admitted, Live
  <1>3. ASSUME NEW c \in Callers, Receive(c)
        PROVE  GateInv'
    BY <1>3 DEF Receive, GateType, OneHolder, HeldByCall, Admitted, Live
  <1>4. ASSUME NEW c \in Callers, TimesOut(c)
        PROVE  GateInv'
    <2>1. GateType'
      BY <1>4 DEF TimesOut, Abandons, GateType
    <2>2. \A g \in Goroutines : goroutine'[g].state = goroutine[g].state /\ goroutine'[g].age = goroutine[g].age
      BY <1>4 DEF TimesOut, Abandons, GateType
    <2>3. OneHolder'
      BY <1>4, <2>2 DEF TimesOut, GateType, OneHolder, Admitted, Live
    <2>4. HeldByCall'
      BY <1>4, <2>2 DEF TimesOut, HeldByCall
    <2> QED BY <2>1, <2>3, <2>4
  <1>5. ASSUME NEW c \in Callers, Exits(c)
        PROVE  GateInv'
    BY <1>5, RestartsGate DEF Exits
  <1>6. ASSUME NEW c \in Callers, NEW g \in Goroutines, Hold(c, g)
        PROVE  GateInv'
    <2>1. GateType'
      BY <1>6 DEF Hold, GateType
    <2>2. /\ goroutine'[g].state = "running" /\ goroutine'[g].age = 0
          /\ \A h \in Goroutines \ {g} : goroutine'[h] = goroutine[h]
          /\ ~Live(g) /\ Admitted(c) /\ ~Admitted(c)'
          /\ \A d \in Callers \ {c} : caller'[d] = caller[d]
      BY <1>6 DEF Hold, GateType, Live, Admitted
    <2>3. OneHolder'
      BY <1>6, <2>2 DEF Hold, OneHolder, Admitted, Live
    <2>4. HeldByCall'
      BY <1>6, <2>2 DEF Hold, HeldByCall
    <2> QED BY <2>1, <2>3, <2>4
  <1>7. ASSUME NEW g \in Goroutines, Returns(g)
        PROVE  GateInv'
    <2>1. GateType'
      BY <1>7 DEF Returns, GateType
    <2>2. /\ goroutine'[g].state = "clearing" /\ goroutine'[g].age = goroutine[g].age
          /\ \A h \in Goroutines \ {g} : goroutine'[h] = goroutine[h]
      BY <1>7 DEF Returns, GateType
    <2>3. OneHolder'
      <3>1. \A h \in Goroutines : Live(h)' <=> Live(h)
        BY <1>7, <2>2 DEF Returns, Live
      <3>2. UNCHANGED <<caller, gate>>
        BY <1>7 DEF Returns
      <3> QED BY <3>1, <3>2 DEF OneHolder, Admitted
    <2>4. HeldByCall'
      BY <1>7, <2>2 DEF Returns, HeldByCall
    <2> QED BY <2>1, <2>3, <2>4
  <1>8. ASSUME NEW g \in Goroutines, Leave(g)
        PROVE  GateInv'
    <2>1. CASE goroutine[g].state = "clearing"
      BY <1>8, <2>1 DEF Leave, GateType, OneHolder, HeldByCall, Admitted, Live
    <2>2. CASE goroutine[g].state = "leaving"
      <3>1. heldSince = Nil
        BY <2>2 DEF HeldByCall, OneHolder, Live
      <3>2. \A h \in Goroutines : ~Live(h)'
        BY <1>8, <2>2, NoneIsACall DEF Leave, OneHolder, GateType, Live
      <3>3. \A c \in Callers : ~Admitted(c)'
        BY <1>8, <2>2 DEF Leave, OneHolder, Live, Admitted
      <3>4. GateType'
        BY <1>8, <2>2, NoneIsACall DEF Leave, GateType
      <3> QED BY <1>8, <2>2, <3>1, <3>2, <3>3, <3>4 DEF Leave, OneHolder, HeldByCall
    <2> QED BY <1>8, <2>1, <2>2 DEF Leave
  <1>9. CASE Tick
    <2>1. /\ \A g \in Goroutines : goroutine'[g].state = goroutine[g].state
          /\ \A g \in Goroutines : Live(g) => goroutine'[g].age = Older(goroutine[g].age)
      BY <1>9 DEF Tick, GateType, Live
    <2>2. GateType'
      BY <1>9, OlderType DEF Tick, GateType
    <2>3. OneHolder'
      BY <1>9, <2>1 DEF Tick, OneHolder, Admitted, Live
    <2>4. HeldByCall'
      BY <1>9, <2>1 DEF Tick, HeldByCall, Live
    <2> QED BY <2>2, <2>3, <2>4
  <1>10. CASE UNCHANGED vars
    BY <1>10 DEF vars, GateType, OneHolder, HeldByCall, Admitted, Live
  <1> QED BY <1>1, <1>2, <1>3, <1>4, <1>5, <1>6, <1>7, <1>8, <1>9, <1>10, RestartsGate DEF Next

\* The gate's invariant holds for good.
LEMMA GateSound == Spec => []GateInv
  <1>1. GateInv /\ [Next]_vars => GateInv'
    BY GateStep
  <1> QED BY GateInit, <1>1, PTL DEF Spec

\* The process exits only for one call that has held the model for too long.
LEMMA GateExits == Spec => ExitJustified
  <1>1. GateInv /\ [Next]_vars =>
          [\A c \in Callers : Exits(c) =>
             \E g \in Goroutines : goroutine[g].state # "none" /\ goroutine[g].age > StuckAfter]_vars
    <2> SUFFICES ASSUME GateInv, NEW c \in Callers, Exits(c)
                 PROVE  \E g \in Goroutines : goroutine[g].state # "none" /\ goroutine[g].age > StuckAfter
      OBVIOUS
    <2>1. heldSince # Nil /\ heldSince > StuckAfter
      BY DEF Exits, Stuck
    <2>2. PICK g \in Goroutines : goroutine[g].state \in {"running", "clearing"} /\ goroutine[g].age = heldSince
      BY <2>1 DEF GateInv, HeldByCall
    <2> QED BY <2>1, <2>2
  <1>2. Spec => [][Next]_vars
    BY DEF Spec
  <1> QED BY GateSound, <1>1, <1>2, PTL DEF ExitJustified

----------------------------------------------------------------------------
(* The service *)

\* What the handlers do to the gate is what InferenceGate lets them do.
LEMMA ServiceGateStep == [ServiceNext]_svars => [Next]_vars
  <1> SUFFICES ASSUME [ServiceNext]_svars
               PROVE  [Next]_vars
    OBVIOUS
  <1>1. CASE UNCHANGED svars
    BY <1>1 DEF svars
  <1>2. ASSUME NEW a \in Agents, NEW c \in Callers, NEW r \in Requests, Send(a, c, r)
        PROVE  [Next]_vars
    BY <1>2 DEF Send
  <1>3. ASSUME NEW c \in Callers,
               Arrive(c) \/ Rejected(c) \/ Embedded(c) \/ Unembedded(c) \/ Commit(c) \/ Refuse(c) \/ Unheard(c)
        PROVE  [Next]_vars
    BY <1>3 DEF Arrive, Rejected, Embedded, Unembedded, Commit, Refuse, Unheard, Next
  <1>4. ASSUME NEW a \in Agents, GivesUp(a) \/ \E c \in Callers : Answer(a, c)
        PROVE  [Next]_vars
    BY <1>4 DEF GivesUp, Answer
  <1>5. CASE Restart \/ (Tick /\ Unchanged) \/ \E c \in Callers : (Exits(c) /\ Drops) \/ (Enter(c) /\ Unchanged)
    BY <1>5 DEF Restart, Next
  <1>6. CASE \E g \in Goroutines : \/ (Returns(g) \/ Leave(g)) /\ Unchanged
                                   \/ \E c \in Callers : Hold(c, g) /\ Unchanged
    BY <1>6 DEF Next
  <1> QED BY <1>1, <1>2, <1>3, <1>4, <1>5, <1>6 DEF ServiceNext

\* The service uses the gate as InferenceGate says, so that what is proved of the
\* gate alone holds under the handlers, their clients and restarts.
THEOREM ServiceUsesGate == ServiceSpec => Spec
  <1>1. ServiceInit => Init
    BY DEF ServiceInit
  <1> QED BY <1>1, ServiceGateStep, PTL DEF ServiceSpec, Spec

\* Embedding calls never overlap, whoever gave up on them.
THEOREM CallsNeverOverlap == ServiceSpec => []NoOverlap
  <1>1. GateInv => NoOverlap
    BY DEF GateInv, OneHolder, Live, NoOverlap
  <1> QED BY ServiceUsesGate, GateSound, <1>1, PTL

\* The process exits only for one call that has held the model for too long.
THEOREM ExitsOnlyWhenStuck == ServiceSpec => ExitJustified
  BY ServiceUsesGate, GateExits, PTL

----------------------------------------------------------------------------
(* The writes *)

Places == {"free", "sent", "embedding", "ready", "done", "failed"}

ServiceType ==
  /\ handler \in [Callers -> [at : Places, request : Requests \cup {Nil}]]
  /\ stored \in Seq(Writes)
  /\ told \in [Agents -> SUBSET Writes]

\* A handler that is done has its write in the database, and so has every receipt
\* that reached an agent.
ReceiptsTrue ==
  /\ \A c \in Callers : handler[c].at = "done" /\ handler[c].request \in Writes
                         => handler[c].request \in Range(stored)
  /\ \A a \in Agents : told[a] \subseteq Range(stored)

ServiceInv == ServiceType /\ ReceiptsTrue

\* What is stored stays stored.
LEMMA RangeAppend ==
  ASSUME NEW S, NEW s \in Seq(S), NEW w \in S
  PROVE  Range(Append(s, w)) = Range(s) \cup {w}
  <1>1. Len(s) \in Nat /\ DOMAIN s = 1 .. Len(s) /\ Append(s, w) \in Seq(S)
    OBVIOUS
  <1>2. DOMAIN Append(s, w) = 1 .. Len(s) + 1
    OBVIOUS
  <1>3. \A i \in 1 .. Len(s) : Append(s, w)[i] = s[i]
    OBVIOUS
  <1>4. Append(s, w)[Len(s) + 1] = w
    OBVIOUS
  <1>5. ASSUME NEW x \in Range(Append(s, w))
        PROVE  x \in Range(s) \cup {w}
    <2>1. PICK i \in 1 .. Len(s) + 1 : x = Append(s, w)[i]
      BY <1>2, <1>5 DEF Range
    <2>2. CASE i \in 1 .. Len(s)
      BY <1>1, <1>3, <2>1, <2>2 DEF Range
    <2>3. CASE i = Len(s) + 1
      BY <1>4, <2>1, <2>3
    <2> QED BY <1>1, <2>1, <2>2, <2>3
  <1>6. ASSUME NEW x \in Range(s) \cup {w}
        PROVE  x \in Range(Append(s, w))
    <2>1. CASE x = w
      BY <1>1, <1>2, <1>4, <2>1 DEF Range
    <2>2. CASE x \in Range(s)
      <3>1. PICK i \in 1 .. Len(s) : x = s[i]
        BY <1>1, <2>2 DEF Range
      <3> QED BY <1>1, <1>2, <1>3, <3>1 DEF Range
    <2> QED BY <1>6, <2>1, <2>2
  <1> QED BY <1>5, <1>6

\* The handler moves on, and the writes are as they were.
LEMMA MovesOn ==
  ASSUME ServiceInv, NEW c \in Callers, NEW place \in Places \ {"done"},
         Goes(c, place), UNCHANGED <<stored, told>>
  PROVE  ServiceInv'
  <1>1. ServiceType'
    BY DEF ServiceInv, ServiceType, Goes
  <1>2. \A d \in Callers : handler'[d].at = "done" => handler'[d] = handler[d]
    BY DEF ServiceInv, ServiceType, Goes
  <1> QED BY <1>1, <1>2 DEF ServiceInv, ReceiptsTrue

\* A handler is given up, and the writes are as they were.
LEMMA LetsGo ==
  ASSUME ServiceInv, NEW C \in SUBSET Callers,
         handler' = [c \in Callers |-> IF c \in C THEN handler[c] ELSE Free],
         UNCHANGED <<stored, told>>
  PROVE  ServiceInv'
  BY DEF ServiceInv, ServiceType, ReceiptsTrue, Free, Places

LEMMA ServiceInitInv == ServiceInit => ServiceInv
  BY DEF ServiceInit, ServiceInv, ServiceType, ReceiptsTrue, Free, Places

\* SavedWrites takes Range from the same module.
LEMMA SameRange == \A f : Saved!Range(f) = Range(f)
  BY DEF Range, Saved!Range

\* The transaction applies a write at most once, and leaves it in the database.
LEMMA CommitSaves ==
  ASSUME ServiceInv, NEW c \in Callers, Commit(c)
  PROVE  /\ ServiceInv'
         /\ UNCHANGED stored \/ \E w \in Writes : Saved!Save(w)
  <1> DEFINE w == handler[c].request
  <1>1. /\ handler' = [handler EXCEPT ![c].at = "done"] /\ UNCHANGED told
        /\ stored' = IF w \in Writes \ Range(stored) THEN Append(stored, w) ELSE stored
    BY DEF Commit, Goes
  <1>2. w \in Requests \cup {Nil}
    BY DEF ServiceInv, ServiceType
  <1> HIDE DEF w
  <1>3. stored' \in Seq(Writes)
    BY <1>1 DEF ServiceInv, ServiceType
  <1>4. Range(stored) \subseteq Range(stored') /\ (w \in Writes => w \in Range(stored'))
    BY <1>1, RangeAppend DEF ServiceInv, ServiceType
  <1>5. ServiceType'
    BY <1>1, <1>3 DEF ServiceInv, ServiceType, Places
  <1>6. /\ \A d \in Callers \ {c} : handler'[d] = handler[d]
        /\ handler'[c].request = w
    BY <1>1 DEF ServiceInv, ServiceType, w
  <1>7. ReceiptsTrue'
    BY <1>1, <1>4, <1>6 DEF ServiceInv, ReceiptsTrue
  <1> QED BY <1>1, <1>5, <1>7, SameRange DEF ServiceInv, Saved!Save

\* An agent only learns of a write that is in the database.
LEMMA AnswerAcknowledges ==
  ASSUME ServiceInv, NEW a \in Agents, NEW c \in Callers, Answer(a, c)
  PROVE  /\ ServiceInv'
         /\ UNCHANGED told \/ \E w \in Writes : Saved!Acknowledge(w)
  <1> DEFINE w == handler[c].request
  <1>1. /\ handler' = [handler EXCEPT ![c] = Free] /\ UNCHANGED stored
        /\ told' = IF handler[c].at = "done" /\ w \in Writes
                   THEN [told EXCEPT ![a] = @ \cup {w}] ELSE told
    BY DEF Answer, Learns
  <1>2. handler[c].at = "done" /\ w \in Writes => w \in Range(stored)
    BY DEF ServiceInv, ReceiptsTrue
  <1> HIDE DEF w
  <1>3. ServiceType'
    BY <1>1 DEF ServiceInv, ServiceType, Free, Places
  <1>4. \A d \in Callers : handler'[d].at = "done" => handler'[d] = handler[d]
    BY <1>1 DEF ServiceInv, ServiceType, Free
  <1>5. ReceiptsTrue'
    BY <1>1, <1>2, <1>4 DEF ServiceInv, ServiceType, ReceiptsTrue
  <1>6. CASE handler[c].at = "done" /\ w \in Writes
    <2>1. UNION {told'[b] : b \in Agents} = (UNION {told[b] : b \in Agents}) \cup {w}
      BY <1>1, <1>6 DEF ServiceInv, ServiceType
    <2> QED BY <1>1, <1>2, <1>3, <1>5, <1>6, <2>1, SameRange DEF ServiceInv, Saved!Acknowledge
  <1>7. CASE ~(handler[c].at = "done" /\ w \in Writes)
    BY <1>1, <1>3, <1>5, <1>7 DEF ServiceInv
  <1> QED BY <1>6, <1>7

\* Every step keeps the receipts true and is a step of SavedWrites or none.
LEMMA ServiceStep ==
  ASSUME ServiceInv, [ServiceNext]_svars
  PROVE  /\ ServiceInv'
         /\ \/ UNCHANGED <<stored, told>>
            \/ \E w \in Writes : Saved!Save(w) \/ Saved!Acknowledge(w)
  <1>1. CASE UNCHANGED svars \/ (UNCHANGED handler /\ UNCHANGED <<stored, told>>)
    BY <1>1 DEF svars, ServiceInv, ServiceType, ReceiptsTrue
  <1>2. ASSUME NEW a \in Agents, NEW c \in Callers, NEW r \in Requests, Send(a, c, r)
        PROVE  ServiceInv' /\ UNCHANGED <<stored, told>>
    <2>1. handler' = [handler EXCEPT ![c] = [at |-> "sent", request |-> r]] /\ UNCHANGED <<stored, told>>
      BY <1>2 DEF Send
    <2>2. ServiceType'
      BY <2>1 DEF ServiceInv, ServiceType, Places
    <2>3. \A d \in Callers : handler'[d].at = "done" => handler'[d] = handler[d]
      BY <2>1 DEF ServiceInv, ServiceType
    <2> QED BY <2>1, <2>2, <2>3 DEF ServiceInv, ReceiptsTrue
  <1>3. ASSUME NEW c \in Callers, Arrive(c) \/ Rejected(c) \/ Embedded(c) \/ Unembedded(c) \/ Refuse(c)
        PROVE  ServiceInv' /\ UNCHANGED <<stored, told>>
    BY <1>3, MovesOn DEF Arrive, Rejected, Embedded, Unembedded, Refuse, Places
  <1>4. ASSUME NEW c \in Callers, Unheard(c)
        PROVE  ServiceInv' /\ UNCHANGED <<stored, told>>
    <2>1. handler' = [d \in Callers |-> IF d \in Callers \ {c} THEN handler[d] ELSE Free]
      BY <1>4 DEF Unheard, ServiceInv, ServiceType
    <2> QED BY <1>4, <2>1, LetsGo DEF Unheard
  <1>5. ASSUME Drops
        PROVE  ServiceInv' /\ UNCHANGED <<stored, told>>
    <2> DEFINE C == {d \in Callers : handler[d].at = "sent"}
    <2>1. handler' = [d \in Callers |-> IF d \in C THEN handler[d] ELSE Free] /\ UNCHANGED <<stored, told>>
      BY <1>5 DEF Drops
    <2> HIDE DEF C
    <2>2. C \in SUBSET Callers
      BY DEF C
    <2> QED BY <2>1, <2>2, LetsGo
  <1>6. CASE \E a \in Agents : GivesUp(a)
    BY <1>1, <1>6 DEF GivesUp
  <1>7. CASE Unchanged
    BY <1>1, <1>7 DEF Unchanged
  <1>8. ASSUME NEW c \in Callers, Commit(c)
        PROVE  /\ ServiceInv'
               /\ UNCHANGED <<stored, told>> \/ \E w \in Writes : Saved!Save(w)
    BY <1>8, CommitSaves DEF Commit
  <1>9. ASSUME NEW a \in Agents, NEW c \in Callers, Answer(a, c)
        PROVE  /\ ServiceInv'
               /\ UNCHANGED <<stored, told>> \/ \E w \in Writes : Saved!Acknowledge(w)
    BY <1>9, AnswerAcknowledges DEF Answer
  <1>10. CASE \E a \in Agents, c \in Callers : Answer(a, c) \/ \E r \in Requests : Send(a, c, r)
    BY <1>2, <1>9, <1>10
  <1>11. CASE \E c \in Callers : \/ Arrive(c) \/ Rejected(c) \/ Embedded(c) \/ Unembedded(c)
                                 \/ Commit(c) \/ Refuse(c) \/ Unheard(c)
    BY <1>3, <1>4, <1>8, <1>11
  <1>12. CASE Restart \/ \E c \in Callers : Exits(c) /\ Drops
    BY <1>5, <1>12 DEF Restart
  <1>13. CASE ServiceNext
    BY <1>6, <1>7, <1>10, <1>11, <1>12, <1>13 DEF ServiceNext
  <1> QED BY <1>1, <1>13

\* The service does what SavedWrites promises: a write is applied at most once and
\* acknowledged only when it is applied, whatever is lost, late, repeated, abandoned
\* or cut off by a restart.
THEOREM ServiceSavesWrites == ServiceSpec => ImplementsSavedWrites
  <1>1. ServiceInit => ServiceInv /\ Saved!Init
    <2>1. ServiceInit => UNION {told[a] : a \in Agents} = {}
      BY DEF ServiceInit
    <2> QED BY <2>1, ServiceInitInv DEF ServiceInit, Saved!Init
  <1>2. ServiceInv /\ [ServiceNext]_svars => ServiceInv'
    BY ServiceStep
  <1>3. ServiceInv /\ [ServiceNext]_svars
          => [Saved!Next]_<<stored, UNION {told[a] : a \in Agents}>>
    BY ServiceStep DEF Saved!Next
  <1> QED BY <1>1, <1>2, <1>3, PTL DEF ServiceSpec, ImplementsSavedWrites, Saved!Spec
==============================================================================
