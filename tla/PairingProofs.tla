--------------------------- MODULE PairingProofs ---------------------------
(***************************************************************************)
(* What holds of Pairing for every number of requests, codes, devices and  *)
(* fingerprints, whatever the limits are, and of Connect for every number  *)
(* of runs, token files and crashes besides.                               *)
(***************************************************************************)
EXTENDS Connect, SequenceTheorems, FiniteSetTheorems, TLAPS

\* A request or a table of the right type after Expire.
LEMMA ExpireType ==
  ASSUME DOMAIN requests \subseteq RequestIDs,
         \A id \in DOMAIN requests : requests[id] \in Request
  PROVE  /\ DOMAIN Expire(requests) \subseteq RequestIDs
         /\ \A id \in DOMAIN Expire(requests) : Expire(requests)[id] \in Request
  BY DEF Expire, Request

\* Expire neither approves a request nor changes what it asks for.
LEMMA ExpireKeeps ==
  ASSUME NEW id \in DOMAIN Expire(requests), Expire(requests)[id].status = "approved",
         \A i \in DOMAIN requests : requests[i] \in Request
  PROVE  id \in DOMAIN requests /\ requests[id] = Expire(requests)[id]
  BY DEF Expire, Request

\* Requests and tokens stay well-formed through every handler, the passing of
\* time and restarts of the server.
THEOREM TypeCorrectness == Spec => []TypeOK
<1>1. Init => TypeOK
  BY DEF Init, TypeOK
<1>2. ASSUME TypeOK, [Next]_vars PROVE TypeOK'
  <2> USE DEF TypeOK
  <2>1. ASSUME NEW id \in RequestIDs, NEW device \in Devices, NEW hash \in Hashes, NEW code \in Codes,
               Start(id, device, hash, code)
        PROVE  TypeOK'
    <3> DEFINE kept == Expire(requests)
    <3>1. /\ DOMAIN kept \subseteq RequestIDs
          /\ \A i \in DOMAIN kept : kept[i] \in Request
      BY <1>2, ExpireType
    <3>2. NewRequest(device, hash, code) \in Request
      BY DEF NewRequest, Request
    <3> HIDE DEF kept
    <3>3. CASE Admits(kept)
      <4>1. requests' = [i \in DOMAIN kept \cup {id} |->
                           IF i = id THEN NewRequest(device, hash, code) ELSE kept[i]]
        BY <2>1, <3>3 DEF Start, kept
      <4> QED BY <1>2, <2>1, <3>1, <3>2, <4>1 DEF Start
    <3>4. CASE ~Admits(kept)
      <4>1. requests' = kept
        BY <2>1, <3>4 DEF Start, kept
      <4> QED BY <1>2, <2>1, <3>1, <4>1 DEF Start
    <3> QED BY <3>3, <3>4
  <2>2. ASSUME NEW id \in RequestIDs, NEW code \in Codes, Approve(id, code) PROVE TypeOK'
    <3>1. requests[id] \in Request /\ id \in DOMAIN requests
      BY <1>2, <2>2 DEF Approve, Decidable
    <3>2. [device |-> requests[id].device, hash |-> requests[id].hash, revoked |-> FALSE] \in Token
      BY <3>1 DEF Request, Token
    <3>3. tokens' \in Seq(Token)
      BY <1>2, <2>2, <3>2 DEF Approve, AddClientToken
    <3>4. /\ DOMAIN requests' \subseteq RequestIDs
          /\ \A i \in DOMAIN requests' : requests'[i] \in Request
      <4>1. CASE UNCHANGED requests
        BY <1>2, <4>1
      <4>2. CASE requests' = [requests EXCEPT ![id].status = "approved"]
        BY <1>2, <3>1, <4>2 DEF Request
      <4> QED BY <2>2, <4>1, <4>2 DEF Approve
    <3> QED BY <3>3, <3>4
  <2>3. ASSUME NEW id \in RequestIDs, NEW code \in Codes, Deny(id, code) PROVE TypeOK'
    BY <1>2, <2>3 DEF Deny, Decidable, Request
  <2>4. ASSUME NEW n \in DOMAIN tokens, Revoke(n) PROVE TypeOK'
    <3>1. tokens' = [tokens EXCEPT ![n].revoked = TRUE] /\ tokens[n] \in Token
      BY <1>2, <2>4 DEF Revoke
    <3>2. [tokens[n] EXCEPT !.revoked = TRUE] \in Token
      BY <3>1 DEF Token
    <3>3. tokens \in Seq(Token) /\ n \in 1 .. Len(tokens)
      BY <1>2
    <3>4. [tokens EXCEPT ![n] = [tokens[n] EXCEPT !.revoked = TRUE]] \in Seq(Token)
      BY <3>2, <3>3, ExceptSeq
    <3> QED BY <1>2, <2>4, <3>1, <3>4 DEF Revoke
  <2>5. CASE Look
    BY <1>2, <2>5, ExpireType DEF Look
  <2>6. CASE Tick
    <3>1. DOMAIN requests' = DOMAIN requests /\ tokens' = tokens
      BY <2>6 DEF Tick
    <3>2. ASSUME NEW i \in DOMAIN requests'
          PROVE  requests'[i] \in Request
      <4>1. requests[i] \in Request
        BY <1>2, <3>1
      <4>2. \/ requests'[i] = requests[i]
            \/ requests'[i] = [requests[i] EXCEPT !.age = @ + 1]
        BY <2>6, <3>1 DEF Tick
      <4> QED BY <4>1, <4>2 DEF Request
    <3> QED BY <1>2, <3>1, <3>2
  <2>7. CASE Restart
    BY <1>2, <2>7 DEF Restart
  <2>8. CASE UNCHANGED vars
    BY <1>2, <2>8 DEF vars
  <2> QED BY <1>2, <2>1, <2>2, <2>3, <2>4, <2>5, <2>6, <2>7, <2>8 DEF Next
<1> QED BY <1>1, <1>2, PTL DEF Spec

\* The inductive step of ApprovedHasToken: tokens are added and revoked but keep
\* their device and fingerprint.
LEMMA ApprovedStep ==
  ASSUME TypeOK, ApprovedHasToken, [Next]_vars
  PROVE  ApprovedHasToken'
<1> DEFINE Granted(request) ==
      \E n \in DOMAIN tokens : tokens[n].hash = request.hash /\ tokens[n].device = request.device
<1> USE DEF TypeOK
<1>1. ASSUME UNCHANGED tokens,
             \A id \in DOMAIN requests' : requests'[id].status = "approved" =>
               /\ id \in DOMAIN requests
               /\ requests[id].status = "approved"
               /\ requests'[id].hash = requests[id].hash
               /\ requests'[id].device = requests[id].device
      PROVE  ApprovedHasToken'
  BY <1>1 DEF ApprovedHasToken
<1>2. ASSUME NEW id \in RequestIDs, NEW device \in Devices, NEW hash \in Hashes, NEW code \in Codes,
             Start(id, device, hash, code)
      PROVE  ApprovedHasToken'
  <2> DEFINE kept == Expire(requests)
  <2>1. \A i \in DOMAIN kept : kept[i].status = "approved" => i \in DOMAIN requests /\ requests[i] = kept[i]
    BY ExpireKeeps
  <2> HIDE DEF kept
  <2>2. CASE Admits(kept)
    <3>1. requests' = [i \in DOMAIN kept \cup {id} |->
                         IF i = id THEN NewRequest(device, hash, code) ELSE kept[i]]
      BY <1>2, <2>2 DEF Start, kept
    <3> QED BY <1>1, <1>2, <2>1, <3>1 DEF Start, NewRequest
  <2>3. CASE ~Admits(kept)
    <3>1. requests' = kept
      BY <1>2, <2>3 DEF Start, kept
    <3> QED BY <1>1, <1>2, <2>1, <3>1 DEF Start
  <2> QED BY <2>2, <2>3
<1>3. ASSUME NEW id \in RequestIDs, NEW code \in Codes, Approve(id, code) PROVE ApprovedHasToken'
  <2> DEFINE token == [device |-> requests[id].device, hash |-> requests[id].hash, revoked |-> FALSE]
  <2>1. /\ tokens' = Append(tokens, token)
        /\ requests' = [requests EXCEPT ![id].status = "approved"] \/ UNCHANGED requests
    BY <1>3 DEF Approve, AddClientToken
  <2>2. id \in DOMAIN requests /\ requests[id] \in Request
    BY <1>3 DEF Approve, Decidable
  <2>3. token \in Token
    BY <2>2 DEF Request, Token
  <2>4. /\ DOMAIN tokens = 1 .. Len(tokens) /\ Len(tokens) \in Nat
        /\ DOMAIN tokens' = 1 .. Len(tokens) + 1
        /\ tokens'[Len(tokens) + 1] = token
        /\ \A n \in DOMAIN tokens : tokens'[n] = tokens[n]
    BY <2>1, <2>3
  <2> SUFFICES ASSUME NEW i \in DOMAIN requests', requests'[i].status = "approved"
               PROVE  \E n \in DOMAIN tokens' :
                        tokens'[n].hash = requests'[i].hash /\ tokens'[n].device = requests'[i].device
    BY DEF ApprovedHasToken
  <2>5. CASE i = id /\ ~UNCHANGED requests
    <3>1. requests'[i].hash = requests[id].hash /\ requests'[i].device = requests[id].device
      BY <2>1, <2>2, <2>5 DEF Request
    <3>2. Len(tokens) + 1 \in DOMAIN tokens'
      BY <2>4
    <3> QED BY <2>4, <3>1, <3>2
  <2>6. CASE i # id \/ UNCHANGED requests
    <3>1. i \in DOMAIN requests /\ requests'[i] = requests[i]
      BY <2>1, <2>6
    <3>2. PICK n \in DOMAIN tokens : tokens[n].hash = requests[i].hash /\ tokens[n].device = requests[i].device
      BY <3>1 DEF ApprovedHasToken
    <3>3. n \in DOMAIN tokens'
      BY <2>4
    <3> QED BY <2>4, <3>1, <3>2, <3>3
  <2> QED BY <2>5, <2>6
<1>4. ASSUME NEW id \in RequestIDs, NEW code \in Codes, Deny(id, code) PROVE ApprovedHasToken'
  <2>1. id \in DOMAIN requests /\ requests[id] \in Request
    BY <1>4 DEF Deny, Decidable
  <2> QED BY <1>1, <1>4, <2>1 DEF Deny, Request
<1>5. ASSUME NEW n \in DOMAIN tokens, Revoke(n) PROVE ApprovedHasToken'
  <2>1. /\ requests' = requests /\ DOMAIN tokens' = DOMAIN tokens
        /\ \A m \in DOMAIN tokens : tokens'[m].hash = tokens[m].hash /\ tokens'[m].device = tokens[m].device
    BY <1>5 DEF Revoke, Token
  <2> QED BY <2>1 DEF ApprovedHasToken
<1>6. CASE Look
  <2>1. \A i \in DOMAIN Expire(requests) : Expire(requests)[i].status = "approved" =>
          i \in DOMAIN requests /\ requests[i] = Expire(requests)[i]
    BY ExpireKeeps
  <2> QED BY <1>1, <1>6, <2>1 DEF Look
<1>7. CASE Tick
  BY <1>1, <1>7 DEF Tick, Request
<1>8. CASE Restart
  BY <1>8 DEF Restart, ApprovedHasToken
<1>9. CASE UNCHANGED vars
  BY <1>9 DEF vars, ApprovedHasToken
<1> QED BY <1>2, <1>3, <1>4, <1>5, <1>6, <1>7, <1>8, <1>9 DEF Next

\* An approved request always has its token: adminPairings stores the token and
\* the decision under one lock.
THEOREM ApprovalGrants == Spec => []ApprovedHasToken
<1>1. Init => ApprovedHasToken
  BY DEF Init, ApprovedHasToken
<1> QED BY <1>1, ApprovedStep, TypeCorrectness, PTL DEF Spec

\* A revoked secret stays revoked: AddClientToken refuses every fingerprint the
\* table has ever held, and nothing clears a revocation.
THEOREM RevocationIsFinal == Spec => RevocationFinal
<1>1. ASSUME TypeOK, [Next]_vars, NEW hash \in Hashes, Known(hash), ~Valid(hash)
      PROVE  ~Valid(hash)'
  <2> USE DEF TypeOK
  <2>1. CASE UNCHANGED tokens
    BY <1>1, <2>1 DEF Valid
  <2>2. ASSUME NEW id \in RequestIDs, NEW code \in Codes, Approve(id, code) PROVE ~Valid(hash)'
    <3> DEFINE token == [device |-> requests[id].device, hash |-> requests[id].hash, revoked |-> FALSE]
    <3>1. tokens' = Append(tokens, token) /\ ~Known(requests[id].hash)
      BY <2>2 DEF Approve, AddClientToken
    <3>2. token \in Token
      BY <1>1, <2>2 DEF Approve, Decidable, Request, Token
    <3>3. /\ \A n \in DOMAIN tokens' : n \in DOMAIN tokens \/ n = Len(tokens) + 1
          /\ tokens'[Len(tokens) + 1] = token
          /\ \A n \in DOMAIN tokens : tokens'[n] = tokens[n]
      BY <1>1, <3>1, <3>2
    <3>4. token.hash # hash
      BY <1>1, <3>1
    <3> QED BY <1>1, <3>3, <3>4 DEF Valid
  <2>3. ASSUME NEW n \in DOMAIN tokens, Revoke(n) PROVE ~Valid(hash)'
    <3>1. /\ DOMAIN tokens' = DOMAIN tokens
          /\ \A m \in DOMAIN tokens : /\ tokens'[m].hash = tokens[m].hash
                                      /\ tokens[m].revoked => tokens'[m].revoked
      BY <1>1, <2>3 DEF Revoke, Token
    <3> QED BY <1>1, <3>1 DEF Valid
  <2> QED BY <1>1, <2>1, <2>2, <2>3 DEF Next, Start, Deny, Look, Tick, Restart, vars
<1>2. TypeOK /\ [Next]_vars => [\A hash \in Hashes : Known(hash) /\ ~Valid(hash) => ~Valid(hash)']_vars
  BY <1>1
<1> QED BY <1>2, TypeCorrectness, PTL DEF Spec, RevocationFinal
----------------------------------------------------------------------------
(***************************************************************************)
(* The bound on undecided requests.  A queue of MaxPending is admitted per *)
(* lifetime: whatever window of one lifetime is put over the ages, it      *)
(* shows at most MaxPending undecided requests, and every handler forgets  *)
(* what is older than two lifetimes before it admits another.              *)
(***************************************************************************)

Undecided(reqs) == {id \in DOMAIN reqs : reqs[id].status \in {"pending", "expired"}}

\* The undecided requests of one lifetime.
Window(reqs, k) == {id \in Undecided(reqs) : reqs[id].age \in k .. k + Lifetime - 1}

\* The inductive invariant.
QueueInv ==
  /\ IsFiniteSet(DOMAIN requests)
  /\ \A id \in DOMAIN requests : requests[id].status = "expired" => requests[id].age >= Lifetime
  /\ \A k \in 0 .. Lifetime : Cardinality(Window(requests, k)) <= MaxPending
  /\ Cardinality(Undecided(requests)) <= 2 * MaxPending

\* A part of a bounded finite set is bounded.
LEMMA PartBounded ==
  ASSUME NEW S, NEW T, IsFiniteSet(S), T \subseteq S, NEW n \in Nat, Cardinality(S) <= n
  PROVE  IsFiniteSet(T) /\ Cardinality(T) <= n
  <1>1. IsFiniteSet(T) /\ Cardinality(T) <= Cardinality(S)
    BY FS_Subset
  <1> QED BY <1>1, FS_CardinalityType

\* Handlers that only decide, forget or expire requests keep the bound.
LEMMA FewerUndecided ==
  ASSUME QueueInv, NEW reqs, DOMAIN reqs \subseteq DOMAIN requests,
         \A id \in DOMAIN reqs : reqs[id].age = requests[id].age,
         \A id \in DOMAIN reqs : reqs[id].status = "expired" => reqs[id].age >= Lifetime,
         \A id \in DOMAIN reqs : reqs[id].status \in {"pending", "expired"}
                                   => requests[id].status \in {"pending", "expired"}
  PROVE  /\ IsFiniteSet(DOMAIN reqs)
         /\ \A k \in 0 .. Lifetime : Cardinality(Window(reqs, k)) <= MaxPending
         /\ Cardinality(Undecided(reqs)) <= 2 * MaxPending
  <1>1. IsFiniteSet(DOMAIN reqs) /\ IsFiniteSet(Undecided(requests))
    <2>1. Undecided(requests) \subseteq DOMAIN requests
      BY DEF Undecided
    <2> QED BY <2>1, FS_Subset DEF QueueInv
  <1>2. Undecided(reqs) \subseteq Undecided(requests)
    BY DEF Undecided
  <1>3. Cardinality(Undecided(reqs)) <= 2 * MaxPending
    BY <1>1, <1>2, PartBounded, LimitsAssumption DEF QueueInv
  <1>4. ASSUME NEW k \in 0 .. Lifetime PROVE Cardinality(Window(reqs, k)) <= MaxPending
    <2>1. Window(reqs, k) \subseteq Window(requests, k) /\ Window(requests, k) \subseteq Undecided(requests)
      BY <1>2 DEF Window, Undecided
    <2>2. IsFiniteSet(Window(requests, k))
      BY <1>1, <2>1, FS_Subset
    <2> QED BY <2>1, <2>2, PartBounded, LimitsAssumption DEF QueueInv
  <1> QED BY <1>1, <1>3, <1>4

\* What Expire leaves: nothing of two lifetimes, and of the undecided requests
\* the pending ones are exactly those of the last lifetime.
LEMMA ExpireQueue ==
  ASSUME TypeOK, QueueInv
  PROVE  LET kept == Expire(requests)
         IN  /\ DOMAIN kept \subseteq DOMAIN requests
             /\ \A id \in DOMAIN kept :
                  /\ kept[id].age = requests[id].age /\ kept[id].age \in Nat /\ kept[id].age < 2 * Lifetime
                  /\ kept[id].status = "expired" => kept[id].age >= Lifetime
                  /\ kept[id].status = "pending" => kept[id].age < Lifetime
                  /\ kept[id].status \in {"pending", "expired"} => requests[id].status \in {"pending", "expired"}
  <1> DEFINE kept == Expire(requests)
  <1>1. /\ DOMAIN kept = {i \in DOMAIN requests : requests[i].age < 2 * Lifetime}
        /\ \A id \in DOMAIN kept :
             kept[id] = IF requests[id].age >= Lifetime /\ requests[id].status = "pending"
                        THEN [requests[id] EXCEPT !.status = "expired"]
                        ELSE requests[id]
    BY DEF Expire
  <1> HIDE DEF kept
  <1>2. ASSUME NEW id \in DOMAIN kept
        PROVE  /\ kept[id].age = requests[id].age /\ kept[id].age \in Nat /\ kept[id].age < 2 * Lifetime
               /\ kept[id].status = "expired" => kept[id].age >= Lifetime
               /\ kept[id].status = "pending" => kept[id].age < Lifetime
               /\ kept[id].status \in {"pending", "expired"} => requests[id].status \in {"pending", "expired"}
    <2>1. id \in DOMAIN requests /\ requests[id] \in Request /\ requests[id].age \in Nat
      BY <1>1 DEF TypeOK, Request
    <2>2. CASE requests[id].age >= Lifetime /\ requests[id].status = "pending"
      <3>1. kept[id] = [requests[id] EXCEPT !.status = "expired"]
        BY <1>1, <2>2
      <3>2. kept[id].age = requests[id].age /\ kept[id].status = "expired"
        BY <2>1, <3>1 DEF Request
      <3> QED BY <1>1, <2>1, <2>2, <3>2
    <2>3. CASE ~ (requests[id].age >= Lifetime /\ requests[id].status = "pending")
      <3>1. kept[id] = requests[id]
        BY <1>1, <2>3
      <3> QED BY <1>1, <2>1, <2>3, <3>1, LimitsAssumption DEF QueueInv
    <2> QED BY <2>2, <2>3
  <1> QED BY <1>1, <1>2 DEF kept

\* Every step keeps the bound.
LEMMA QueueStep ==
  ASSUME TypeOK, QueueInv, [Next]_vars
  PROVE  QueueInv'
  <1> USE LimitsAssumption
  <1>1. ASSUME NEW id \in RequestIDs, NEW device \in Devices, NEW hash \in Hashes, NEW code \in Codes,
               Start(id, device, hash, code)
        PROVE  QueueInv'
    <2> DEFINE kept  == Expire(requests)
               begun == [i \in DOMAIN kept \cup {id} |->
                           IF i = id THEN NewRequest(device, hash, code) ELSE kept[i]]
    <2>1. /\ DOMAIN kept \subseteq DOMAIN requests
          /\ \A i \in DOMAIN kept :
               /\ kept[i].age = requests[i].age /\ kept[i].age \in Nat /\ kept[i].age < 2 * Lifetime
               /\ kept[i].status = "expired" => kept[i].age >= Lifetime
               /\ kept[i].status = "pending" => kept[i].age < Lifetime
               /\ kept[i].status \in {"pending", "expired"} => requests[i].status \in {"pending", "expired"}
      BY ExpireQueue
    <2>2. id \notin DOMAIN kept /\ requests' = (IF Admits(kept) THEN begun ELSE kept)
      BY <1>1, <2>1 DEF Start
    <2>3. Admits(kept) <=> Cardinality({i \in DOMAIN kept : kept[i].status = "pending"}) < MaxPending
      BY DEF Admits
    <2> HIDE DEF kept
    <2>4. /\ IsFiniteSet(DOMAIN kept)
          /\ \A k \in 0 .. Lifetime : Cardinality(Window(kept, k)) <= MaxPending
          /\ Cardinality(Undecided(kept)) <= 2 * MaxPending
      BY <2>1, FewerUndecided
    <2>5. CASE ~Admits(kept)
      BY <2>1, <2>2, <2>4, <2>5 DEF QueueInv
    <2>6. CASE Admits(kept)
      <3> DEFINE waiting == {i \in DOMAIN kept : kept[i].status = "pending"}
      <3>1. /\ DOMAIN begun = DOMAIN kept \cup {id}
            /\ begun[id].age = 0 /\ begun[id].status = "pending"
            /\ \A i \in DOMAIN kept : begun[i] = kept[i]
        BY <2>2 DEF NewRequest
      <3> HIDE DEF begun
      <3>2. IsFiniteSet(DOMAIN begun)
        BY <2>4, <3>1, FS_AddElement
      <3>3. \A i \in DOMAIN begun : begun[i].status = "expired" => begun[i].age >= Lifetime
        BY <2>1, <3>1
      <3>4. IsFiniteSet(waiting) /\ Cardinality(waiting) \in Nat /\ Cardinality(waiting) < MaxPending /\ id \notin waiting
        BY <2>2, <2>3, <2>4, <2>6, FS_Subset, FS_CardinalityType
      <3>5. Window(begun, 0) = waiting \cup {id}
        BY <2>1, <3>1 DEF Window, Undecided
      <3>6. IsFiniteSet(Window(begun, 0)) /\ Cardinality(Window(begun, 0)) <= MaxPending
        <4> HIDE DEF waiting
        <4>1. IsFiniteSet(waiting \cup {id}) /\ Cardinality(waiting \cup {id}) = Cardinality(waiting) + 1
          BY <3>4, FS_AddElement
        <4> QED BY <3>4, <3>5, <4>1
      <3>7. ASSUME NEW k \in 1 .. Lifetime PROVE Window(begun, k) = Window(kept, k)
        BY <2>2, <3>1 DEF Window, Undecided
      <3>8. \A k \in 0 .. Lifetime : Cardinality(Window(begun, k)) <= MaxPending
        <4> SUFFICES ASSUME NEW k \in 0 .. Lifetime PROVE Cardinality(Window(begun, k)) <= MaxPending
          OBVIOUS
        <4>1. CASE k = 0
          BY <3>6, <4>1
        <4>2. CASE k # 0
          BY <2>4, <3>7, <4>2
        <4> QED BY <4>1, <4>2
      <3>9. Undecided(begun) = Window(begun, 0) \cup Window(kept, Lifetime)
        BY <2>1, <3>1, <3>3 DEF Window, Undecided
      <3>10. IsFiniteSet(Window(kept, Lifetime)) /\ Cardinality(Window(kept, Lifetime)) <= MaxPending
        <4>1. Window(kept, Lifetime) \subseteq DOMAIN kept
          BY DEF Window, Undecided
        <4> QED BY <2>4, <4>1, FS_Subset
      <3>11. Cardinality(Undecided(begun)) <= 2 * MaxPending
        <4> DEFINE A == Window(begun, 0)
                   B == Window(kept, Lifetime)
        <4>1. IsFiniteSet(A) /\ IsFiniteSet(B) /\ Cardinality(A) <= MaxPending /\ Cardinality(B) <= MaxPending
          BY <3>6, <3>10
        <4>2. Undecided(begun) = A \cup B
          BY <3>9
        <4> HIDE DEF A, B
        <4>3. IsFiniteSet(A \cap B)
          BY <4>1, FS_Subset
        <4>4. Cardinality(A) \in Nat /\ Cardinality(B) \in Nat /\ Cardinality(A \cap B) \in Nat
          BY <4>1, <4>3, FS_CardinalityType
        <4>5. Cardinality(A \cup B) = Cardinality(A) + Cardinality(B) - Cardinality(A \cap B)
          BY <4>1, FS_Union
        <4> QED BY <4>1, <4>2, <4>4, <4>5
      <3>12. requests' = begun
        BY <2>2, <2>6
      <3> QED BY <3>2, <3>3, <3>8, <3>11, <3>12 DEF QueueInv
    <2> QED BY <2>5, <2>6
  <1>2. ASSUME NEW id \in RequestIDs, NEW code \in Codes, Approve(id, code) \/ Deny(id, code) PROVE QueueInv'
    <2>1. id \in DOMAIN requests /\ requests[id] \in Request
      BY <1>2 DEF Approve, Deny, Decidable, TypeOK
    <2>2. \/ UNCHANGED requests
          \/ \E status \in {"approved", "denied"} : requests' = [requests EXCEPT ![id].status = status]
      BY <1>2 DEF Approve, Deny
    <2>3. /\ DOMAIN requests' = DOMAIN requests
          /\ \A i \in DOMAIN requests : requests'[i].age = requests[i].age
          /\ \A i \in DOMAIN requests : requests'[i].status \in {"pending", "expired"}
                                          => requests'[i].status = requests[i].status
      BY <2>1, <2>2 DEF Request
    <2>4. \A i \in DOMAIN requests' : requests'[i].status = "expired" => requests'[i].age >= Lifetime
      BY <2>3 DEF QueueInv
    <2> HIDE DEF QueueInv
    <2> QED BY <2>3, <2>4, FewerUndecided DEF QueueInv
  <1>3. CASE Look
    <2> DEFINE kept == Expire(requests)
    <2>1. /\ DOMAIN kept \subseteq DOMAIN requests
          /\ \A i \in DOMAIN kept :
               /\ kept[i].age = requests[i].age
               /\ kept[i].status = "expired" => kept[i].age >= Lifetime
               /\ kept[i].status \in {"pending", "expired"} => requests[i].status \in {"pending", "expired"}
      BY ExpireQueue
    <2>2. requests' = kept
      BY <1>3 DEF Look
    <2> HIDE DEF kept
    <2> QED BY <2>1, <2>2, FewerUndecided DEF QueueInv
  <1>4. CASE Tick
    <2>1. /\ DOMAIN requests' = DOMAIN requests
          /\ \A i \in DOMAIN requests :
               /\ requests[i].age \in Nat /\ requests'[i].status = requests[i].status
               /\ requests'[i].age = IF requests[i].age < 2 * Lifetime THEN requests[i].age + 1 ELSE requests[i].age
      BY <1>4 DEF Tick, TypeOK, Request
    <2>2. Undecided(requests') = Undecided(requests)
      BY <2>1 DEF Undecided
    <2>3. ASSUME NEW k \in 0 .. Lifetime PROVE Cardinality(Window(requests', k)) <= MaxPending
      <3> DEFINE j == IF k = 0 THEN 0 ELSE k - 1
      <3>1. j \in 0 .. Lifetime
        OBVIOUS
      <3>2. Window(requests', k) \subseteq Window(requests, j)
        BY <2>1 DEF Window, Undecided
      <3>3. Window(requests, j) \subseteq DOMAIN requests
        BY DEF Window, Undecided
      <3> HIDE DEF j
      <3>4. IsFiniteSet(Window(requests, j)) /\ Cardinality(Window(requests, j)) <= MaxPending
        BY <3>1, <3>3, FS_Subset DEF QueueInv
      <3> QED BY <3>2, <3>4, PartBounded
    <2>4. \A i \in DOMAIN requests' : requests'[i].status = "expired" => requests'[i].age >= Lifetime
      BY <2>1 DEF QueueInv
    <2> QED BY <2>1, <2>2, <2>3, <2>4 DEF QueueInv
  <1>5. CASE Restart
    <2>1. DOMAIN requests' = {} /\ Undecided(requests') = {} /\ \A k \in 0 .. Lifetime : Window(requests', k) = {}
      BY <1>5 DEF Restart, Undecided, Window
    <2>2. IsFiniteSet({}) /\ Cardinality({}) = 0
      BY FS_EmptySet
    <2>3. \A k \in 0 .. Lifetime : Cardinality(Window(requests', k)) <= MaxPending
      BY <2>1, <2>2
    <2>4. Cardinality(Undecided(requests')) <= 2 * MaxPending
      BY <2>1, <2>2
    <2>5. IsFiniteSet(DOMAIN requests') /\ \A id \in DOMAIN requests' : requests'[id].age >= Lifetime
      BY <2>1, <2>2
    <2> QED BY <2>3, <2>4, <2>5 DEF QueueInv
  <1>6. CASE UNCHANGED requests
    BY <1>6 DEF QueueInv
  <1> QED BY <1>1, <1>2, <1>3, <1>4, <1>5, <1>6 DEF Next, Revoke, vars

\* However many clients ask, for however long, the requests nobody decided never
\* take more room than two queues.
THEOREM QueueStaysBounded == Spec => []UndecidedBounded
  <1>1. Init => QueueInv
    <2> SUFFICES ASSUME Init PROVE QueueInv
      OBVIOUS
    <2>1. DOMAIN requests = {} /\ Undecided(requests) = {} /\ \A k \in 0 .. Lifetime : Window(requests, k) = {}
      BY DEF Init, Undecided, Window
    <2>2. IsFiniteSet({}) /\ Cardinality({}) = 0
      BY FS_EmptySet
    <2>3. \A k \in 0 .. Lifetime : Cardinality(Window(requests, k)) <= MaxPending
      BY <2>1, <2>2, LimitsAssumption
    <2>4. Cardinality(Undecided(requests)) <= 2 * MaxPending
      BY <2>1, <2>2, LimitsAssumption
    <2>5. IsFiniteSet(DOMAIN requests) /\ \A id \in DOMAIN requests : requests[id].age >= Lifetime
      BY <2>1, <2>2
    <2> QED BY <2>3, <2>4, <2>5 DEF QueueInv
  <1>2. QueueInv => UndecidedBounded
    BY DEF QueueInv, Undecided, UndecidedBounded
  <1> QED BY <1>1, <1>2, QueueStep, TypeCorrectness, PTL DEF Spec
----------------------------------------------------------------------------
(***************************************************************************)
(* Connect: the machine's side, for any number of runs, crashes, files and *)
(* requests.  Every step of the composition is a step of the pairing       *)
(* server or none of its business.  A token file that something names is   *)
(* never written again once it holds a secret, and a secret that was once  *)
(* admitted stays known, so a configuration that was usable when a run     *)
(* read it can be restored at any later time.                              *)
(***************************************************************************)

LEMMA ServerSteps == [ConnectNext]_all => [Next]_vars
  <1> SUFFICES ASSUME [ConnectNext]_all
               PROVE  [Next]_vars
    OBVIOUS
  <1>1. ASSUME NEW r \in Runs, StartPair(r)
        PROVE  [Next]_vars
    <2>1. CASE UNCHANGED <<requests, tokens>>
      BY <2>1 DEF vars
    <2>2. ASSUME NEW id \in RequestIDs, NEW device \in Devices, NEW code \in Codes, Start(id, device, id, code)
          PROVE  [Next]_vars
      <3>1. id \in Hashes
        BY NamesAssumption
      <3> QED BY <2>2, <3>1 DEF Next
    <2> QED BY <1>1, <2>1, <2>2 DEF StartPair
  <1>2. ASSUME NEW r \in Runs, Polled(r)
        PROVE  [Next]_vars
    BY <1>2 DEF Polled, Next
  <1>3. ASSUME NEW r \in Runs,
               \/ \E json, reconnect, update \in BOOLEAN : Begin(r, json, reconnect, update)
               \/ Check(r) \/ Aim(r) \/ SavePending(r) \/ WriteToken(r) \/ Setup(r) \/ Configure(r) \/ Wire(r)
               \/ Finish(r) \/ Unanswered(r) \/ Crash(r)
        PROVE  UNCHANGED <<requests, tokens>>
    BY <1>3 DEF Begin, Check, Aim, SavePending, WriteToken, Setup, Configure, Wire, Finish, Unanswered, Crash
  <1>4. CASE Server
    BY <1>4 DEF Server, Next
  <1>5. CASE TimePasses
    BY <1>5 DEF TimePasses, Next
  <1>6. CASE UNCHANGED all
    BY <1>6 DEF all, vars
  <1> QED BY <1>1, <1>2, <1>3, <1>4, <1>5, <1>6 DEF ConnectNext, Step, vars

\* The machine's side drives the server as the server's own specification allows.
THEOREM ConnectPairs == ConnectSafety => Spec
  <1>1. ConnectInit => Init
    BY DEF ConnectInit
  <1> QED BY ServerSteps, <1>1, PTL DEF ConnectSafety, Spec

\* With real clients at work the server's promises hold as well.
THEOREM ConnectedPromises ==
  ConnectSafety => [](TypeOK /\ ApprovedHasToken /\ UndecidedBounded) /\ RevocationFinal
  BY ConnectPairs, TypeCorrectness, ApprovalGrants, RevocationIsFinal, QueueStaysBounded, PTL

\* A path whose secret the owner granted.
Good(fs, ts, path) ==
  /\ path \in Paths /\ fs[path] \in Secrets
  /\ \E n \in DOMAIN ts : ts[n].hash = fs[path]

\* What a run has made sure of.
Knows(fs, ts, run) ==
  /\ run.pc \notin {"idle", "aim"} \/ run.resumed => run.path \in Paths
  /\ run.pc \in {"save", "poll", "write"} \/ (run.pc = "aim" /\ run.resumed) => run.id \in RequestIDs
  /\ run.pc = "configure" => Good(fs, ts, run.path)
  /\ run.pc \in {"configure", "wire"} => run.seen = Nil \/ Good(fs, ts, run.seen)

ConnectInv ==
  /\ ConnectTypeOK /\ crashes \in Nat
  /\ config = Nil \/ Good(files, tokens, config)
  /\ \A r \in Runs : Knows(files, tokens, runs[r])

LEMMA IdleRun == Idle \in Run /\ Idle.pc = "idle" /\ ~Idle.resumed
  BY DEF Idle, Run

LEMMA KnownStays ==
  ASSUME TypeOK, [Next]_vars, NEW hash
  PROVE  (\E n \in DOMAIN tokens : tokens[n].hash = hash) => \E n \in DOMAIN tokens' : tokens'[n].hash = hash
  <1> SUFFICES ASSUME NEW n \in DOMAIN tokens, tokens[n].hash = hash
               PROVE  \E m \in DOMAIN tokens' : tokens'[m].hash = hash
    OBVIOUS
  <1>1. CASE UNCHANGED tokens
    BY <1>1
  <1>2. ASSUME NEW id \in RequestIDs, NEW code \in Codes, Approve(id, code)
        PROVE  n \in DOMAIN tokens' /\ tokens'[n] = tokens[n]
    <2> DEFINE token == [device |-> requests[id].device, hash |-> requests[id].hash, revoked |-> FALSE]
    <2>1. tokens' = Append(tokens, token) /\ tokens \in Seq(Token)
      BY <1>2 DEF Approve, AddClientToken, TypeOK
    <2>2. token \in Token
      BY <1>2 DEF Approve, Decidable, Request, Token, TypeOK
    <2> HIDE DEF token
    <2> QED BY <2>1, <2>2
  <1>3. ASSUME NEW m \in DOMAIN tokens, Revoke(m)
        PROVE  n \in DOMAIN tokens' /\ tokens'[n].hash = tokens[n].hash
    <2>1. tokens[m] \in Token /\ tokens' = [tokens EXCEPT ![m].revoked = TRUE]
      BY <1>3 DEF Revoke, TypeOK
    <2> QED BY <2>1 DEF Token
  <1> QED BY <1>1, <1>2, <1>3 DEF Next, Start, Deny, Look, Tick, Restart, vars

\* Nobody touches a file that is named and holds a secret.
LEMMA FilesKept ==
  ASSUME ConnectTypeOK, [ConnectNext]_all, NEW path \in Paths, path \in Named, files[path] \in Secrets
  PROVE  files'[path] = files[path]
  <1>1. files[path] # Nil /\ files \in [Paths -> Secrets \cup {Nil, Torn}]
    BY NamesAssumption DEF ConnectTypeOK, Secrets
  <1>2. ASSUME NEW r \in Runs, NEW json, NEW reconnect, NEW update, Begin(r, json, reconnect, update)
        PROVE  files'[path] = files[path]
    BY <1>2 DEF Begin
  <1>3. ASSUME NEW r \in Runs, WriteToken(r)
        PROVE  files'[path] = files[path]
    BY <1>1, <1>3 DEF WriteToken
  <1>4. ASSUME NEW r \in Runs, Crash(r)
        PROVE  files'[path] = files[path]
    BY <1>1, <1>4 DEF Crash
  <1>5. CASE UNCHANGED files
    BY <1>5
  <1>6. ASSUME NEW r \in Runs, \/ Check(r) \/ Aim(r) \/ StartPair(r) \/ SavePending(r) \/ Polled(r) \/ Setup(r)
                               \/ Configure(r) \/ Wire(r) \/ Finish(r) \/ Unanswered(r)
        PROVE  UNCHANGED files
    BY <1>6 DEF Check, Aim, StartPair, SavePending, Polled, Setup, Configure, Wire, Finish, Unanswered
  <1>7. Server \/ TimePasses \/ UNCHANGED all => UNCHANGED files
    BY DEF Server, TimePasses, client, all
  <1> QED BY <1>2, <1>3, <1>4, <1>5, <1>6, <1>7 DEF ConnectNext, Step

LEMMA GoodStays ==
  ASSUME TypeOK, ConnectTypeOK, [ConnectNext]_all
  PROVE  \A path \in Named : Good(files, tokens, path) => Good(files', tokens', path)
  <1> SUFFICES ASSUME NEW path \in Named, Good(files, tokens, path)
               PROVE  Good(files', tokens', path)
    OBVIOUS
  <1>1. path \in Paths /\ files[path] \in Secrets /\ \E n \in DOMAIN tokens : tokens[n].hash = files[path]
    BY DEF Good
  <1>2. files'[path] = files[path]
    BY <1>1, FilesKept
  <1>3. \E n \in DOMAIN tokens' : tokens'[n].hash = files[path]
    BY <1>1, ServerSteps, KnownStays
  <1> QED BY <1>1, <1>2, <1>3 DEF Good

\* A step changes one run, which knows what it needs; what the others know stays true.
LEMMA OneRun ==
  ASSUME ConnectInv, NEW r \in Runs, NEW run \in Run, runs' = [runs EXCEPT ![r] = run],
         \A path \in Named : Good(files, tokens, path) => Good(files', tokens', path),
         Knows(files', tokens', run),
         pending' \in Pending \cup {Nil, Torn}, files' \in [Paths -> Secrets \cup {Nil, Torn}],
         config' \in {config, Nil} \/ Good(files', tokens', config'), crashes' \in Nat
  PROVE  ConnectInv'
  <1>1. runs' \in [Runs -> Run] /\ runs'[r] = run /\ \A q \in Runs : q # r => runs'[q] = runs[q]
    BY DEF ConnectInv, ConnectTypeOK
  <1>2. config' = Nil \/ Good(files', tokens', config')
    BY DEF ConnectInv, Named
  <1>3. config' \in Paths \cup {Nil}
    BY <1>2 DEF Good
  <1>4. ASSUME NEW q \in Runs
        PROVE  Knows(files', tokens', runs'[q])
    <2>1. CASE q = r
      BY <1>1, <2>1
    <2>2. CASE q # r
      <3>1. runs[q].path \in Named /\ runs[q].seen \in Named
        BY DEF Named
      <3> QED BY <1>1, <2>2, <3>1 DEF ConnectInv, Knows
    <2> QED BY <2>1, <2>2
  <1> QED BY <1>1, <1>2, <1>3, <1>4 DEF ConnectInv, ConnectTypeOK

LEMMA ConnectInvInit == ConnectInit => ConnectInv
  BY IdleRun DEF ConnectInit, ConnectInv, ConnectTypeOK, Knows

LEMMA StepBegin ==
  ASSUME ConnectInv, \A path \in Named : Good(files, tokens, path) => Good(files', tokens', path),
         NEW r \in Runs, NEW json \in BOOLEAN, NEW reconnect \in BOOLEAN, NEW update \in BOOLEAN,
         Begin(r, json, reconnect, update)
  PROVE  ConnectInv'
  <1>1. files \in [Paths -> Secrets \cup {Nil, Torn}] /\ pending \in Pending \cup {Nil, Torn}
        /\ config \in Paths \cup {Nil} /\ crashes \in Nat
    BY DEF ConnectInv, ConnectTypeOK
  <1>2. /\ UNCHANGED <<pending, config, crashes>>
        /\ files' = [path \in Paths |-> IF path \in Named THEN files[path] ELSE Nil]
    BY DEF Begin
  <1>3. files' \in [Paths -> Secrets \cup {Nil, Torn}]
    BY <1>1, <1>2
  <1>4. ASSUME NEW run \in Run, Goes(r, run), run.pc \in {"aim", "check"},
               run.pc = "check" \/ run.resumed => run.path \in Paths, run.resumed => run.id \in RequestIDs
        PROVE  ConnectInv'
    <2>1. Knows(files', tokens', run)
      BY <1>4 DEF Knows
    <2> QED BY <1>1, <1>2, <1>3, <1>4, <2>1, OneRun DEF Goes
  <1>5. CASE config = Nil /\ Goes(r, [Idle EXCEPT !.pc = "aim", !.json = json, !.update = update])
    <2> DEFINE run == [Idle EXCEPT !.pc = "aim", !.json = json, !.update = update]
    <2>1. run \in Run /\ run.pc = "aim" /\ ~run.resumed
      BY DEF Idle, Run
    <2> HIDE DEF run
    <2> QED BY <1>4, <1>5, <2>1 DEF run
  <1>6. CASE config # Nil /\ Goes(r, [Idle EXCEPT !.pc = "check", !.json = json, !.reconnect = reconnect,
                                                  !.update = update, !.path = config])
    <2> DEFINE run == [Idle EXCEPT !.pc = "check", !.json = json, !.reconnect = reconnect,
                                   !.update = update, !.path = config]
    <2>1. run \in Run /\ run.pc = "check" /\ ~run.resumed /\ run.path = config
      BY <1>1 DEF Idle, Run
    <2> HIDE DEF run
    <2> QED BY <1>1, <1>4, <1>6, <2>1 DEF run
  <1>7. CASE IsSaved /\ json /\ Goes(r, [Idle EXCEPT !.pc = "aim", !.json = TRUE, !.update = pending.update,
                               !.resumed = TRUE, !.id = pending.id, !.path = pending.path, !.seen = pending.over])
    <2> DEFINE run == [Idle EXCEPT !.pc = "aim", !.json = TRUE, !.update = pending.update, !.resumed = TRUE,
                                   !.id = pending.id, !.path = pending.path, !.seen = pending.over]
    <2>1. pending \in Pending
      BY <1>1, <1>7 DEF IsSaved
    <2>2. pending.id \in RequestIDs /\ pending.path \in Paths /\ pending.update \in BOOLEAN
          /\ pending.over \in Paths \cup {Nil}
      BY <2>1 DEF Pending
    <2>3. run \in Run /\ run.pc = "aim" /\ run.path = pending.path /\ run.id = pending.id
      BY <2>2 DEF Idle, Run
    <2> HIDE DEF run
    <2> QED BY <1>4, <1>7, <2>2, <2>3 DEF run
  <1> QED BY <1>5, <1>6, <1>7 DEF Begin

\* A run that ends knows nothing.
LEMMA StepEnds ==
  ASSUME ConnectInv, \A path \in Named : Good(files, tokens, path) => Good(files', tokens', path),
         NEW r \in Runs, Ends(r),
         pending' \in Pending \cup {Nil, Torn}, files' \in [Paths -> Secrets \cup {Nil, Torn}],
         config' \in {config, Nil} \/ Good(files', tokens', config'), crashes' \in Nat
  PROVE  ConnectInv'
  <1>1. Idle \in Run /\ Knows(files', tokens', Idle)
    BY IdleRun DEF Knows
  <1> QED BY <1>1, OneRun DEF Ends, Goes

\* A run goes on with what it has.
LEMMA StepMoves ==
  ASSUME ConnectInv, \A path \in Named : Good(files, tokens, path) => Good(files', tokens', path),
         NEW r \in Runs, NEW pc \in {"poll", "write", "setup", "finish"},
         Goes(r, [runs[r] EXCEPT !.pc = pc]), runs[r].path \in Paths,
         pc \in {"poll", "write"} => runs[r].id \in RequestIDs,
         UNCHANGED <<pending, files, config, crashes>>
  PROVE  ConnectInv'
  <1> DEFINE run == [runs[r] EXCEPT !.pc = pc]
  <1>1. runs[r] \in Run /\ pending \in Pending \cup {Nil, Torn} /\ files \in [Paths -> Secrets \cup {Nil, Torn}]
    BY DEF ConnectInv, ConnectTypeOK
  <1>2. run \in Run /\ run.pc = pc /\ run.path = runs[r].path /\ run.id = runs[r].id /\ run.resumed = runs[r].resumed
    BY <1>1 DEF Run
  <1>3. Goes(r, run)
    OBVIOUS
  <1> HIDE DEF run
  <1>4. Knows(files', tokens', run)
    BY <1>2 DEF Knows
  <1> QED BY <1>1, <1>2, <1>3, <1>4, OneRun DEF Goes, ConnectInv

LEMMA RunSteps ==
  ASSUME ConnectInv, \A path \in Named : Good(files, tokens, path) => Good(files', tokens', path),
         NEW r \in Runs, Step(r) \/ Unanswered(r) \/ Crash(r)
  PROVE  ConnectInv'
  <1>1. /\ runs[r] \in Run /\ pending \in Pending \cup {Nil, Torn} /\ files \in [Paths -> Secrets \cup {Nil, Torn}]
        /\ config \in Paths \cup {Nil} /\ crashes \in Nat /\ Knows(files, tokens, runs[r])
    BY DEF ConnectInv, ConnectTypeOK
  <1>2. CASE Check(r)
    <2>1. runs[r].path \in Paths /\ UNCHANGED <<pending, files, config, crashes>>
      BY <1>1, <1>2 DEF Check, Knows
    <2>2. CASE Ends(r)
      BY <1>1, <2>1, <2>2, StepEnds
    <2>3. CASE Goes(r, [Idle EXCEPT !.pc = "setup", !.update = runs[r].update, !.path = runs[r].path])
      <3> DEFINE run == [Idle EXCEPT !.pc = "setup", !.update = runs[r].update, !.path = runs[r].path]
      <3>1. run \in Run /\ run.pc = "setup" /\ run.path = runs[r].path
        BY <1>1, <2>1 DEF Idle, Run
      <3>2. Goes(r, run)
        BY <2>3
      <3> HIDE DEF run
      <3>3. Knows(files', tokens', run)
        BY <2>1, <3>1 DEF Knows
      <3> QED BY <1>1, <2>1, <3>1, <3>2, <3>3, OneRun DEF Goes
    <2>4. CASE Goes(r, [Idle EXCEPT !.pc = "aim", !.json = runs[r].json, !.update = TRUE])
      <3> DEFINE run == [Idle EXCEPT !.pc = "aim", !.json = runs[r].json, !.update = TRUE]
      <3>1. run \in Run /\ run.pc = "aim" /\ ~run.resumed
        BY <1>1 DEF Idle, Run
      <3>2. Goes(r, run)
        BY <2>4
      <3> HIDE DEF run
      <3>3. Knows(files', tokens', run)
        BY <3>1 DEF Knows
      <3> QED BY <1>1, <2>1, <3>1, <3>2, <3>3, OneRun DEF Goes
    <2> QED BY <1>2, <2>2, <2>3, <2>4 DEF Check
  <1>3. CASE Aim(r)
    <2> DEFINE old == runs[r]
    <2>1. PICK path \in Paths :
            /\ Goes(r, [old EXCEPT !.pc = IF old.resumed THEN "poll" ELSE "start", !.path = path, !.seen = Nil])
            /\ \/ old.resumed /\ pending' = [id |-> old.id, path |-> path, update |-> old.update, over |-> old.seen]
               \/ UNCHANGED pending
      BY <1>3 DEF Aim
    <2> DEFINE run == [old EXCEPT !.pc = IF old.resumed THEN "poll" ELSE "start", !.path = path, !.seen = Nil]
    <2>2. old \in Run /\ (old.resumed => old.id \in RequestIDs)
      BY <1>1, <1>3 DEF Aim, Knows
    <2>3. Goes(r, run)
      BY <2>1
    <2>4. /\ UNCHANGED <<files, config, crashes>>
      BY <1>3 DEF Aim
    <2> HIDE DEF old
    <2>5. pending' \in Pending \cup {Nil, Torn}
      BY <1>1, <2>1, <2>2 DEF Run, Pending
    <2>6. /\ run \in Run /\ run.pc = (IF old.resumed THEN "poll" ELSE "start") /\ run.path = path
          /\ run.id = old.id /\ run.resumed = old.resumed
      BY <2>2 DEF Run
    <2> HIDE DEF run
    <2>7. Knows(files', tokens', run)
      BY <2>2, <2>6 DEF Knows
    <2> QED BY <1>1, <2>3, <2>4, <2>5, <2>6, <2>7, OneRun DEF Goes
  <1>4. CASE StartPair(r)
    <2>1. runs[r].path \in Paths /\ UNCHANGED <<pending, files, config, crashes>>
      BY <1>1, <1>4 DEF StartPair, Knows
    <2>2. CASE Ends(r)
      BY <1>1, <2>1, <2>2, StepEnds
    <2>3. ASSUME NEW id \in RequestIDs, NEW pc \in {"save", "poll"}, NEW seen \in Paths \cup {Nil},
                 Goes(r, [runs[r] EXCEPT !.pc = pc, !.id = id, !.seen = seen])
          PROVE  ConnectInv'
      <3> DEFINE run == [runs[r] EXCEPT !.pc = pc, !.id = id, !.seen = seen]
      <3>1. run \in Run /\ run.pc = pc /\ run.path = runs[r].path /\ run.id = id
        BY <1>1 DEF Run
      <3>2. Goes(r, run)
        BY <2>3
      <3> HIDE DEF run
      <3>3. Knows(files', tokens', run)
        BY <2>1, <3>1 DEF Knows
      <3> QED BY <1>1, <2>1, <3>1, <3>2, <3>3, OneRun DEF Goes
    <2>4. ASSUME NEW id \in RequestIDs, Goes(r, [runs[r] EXCEPT !.pc = "save", !.id = id, !.seen = config])
          PROVE  ConnectInv'
      BY <1>1, <2>3, <2>4
    <2>5. ASSUME NEW id \in RequestIDs, Goes(r, [runs[r] EXCEPT !.pc = "poll", !.id = id])
          PROVE  ConnectInv'
      <3>1. runs[r].seen \in Paths \cup {Nil} /\ [runs[r] EXCEPT !.pc = "poll", !.id = id] =
              [runs[r] EXCEPT !.pc = "poll", !.id = id, !.seen = runs[r].seen]
        BY <1>1 DEF Run
      <3> QED BY <2>3, <2>5, <3>1
    <2> QED BY <1>4, <2>2, <2>4, <2>5 DEF StartPair
  <1>5. CASE SavePending(r)
    <2> DEFINE run == runs[r]
    <2>1. run.path \in Paths /\ run.id \in RequestIDs /\ run \in Run
      BY <1>1, <1>5 DEF SavePending, Knows
    <2>2. [id |-> run.id, path |-> run.path, update |-> run.update, over |-> run.seen] \in Pending
      BY <2>1 DEF Run, Pending
    <2>3. pending' \in Pending \cup {Nil, Torn}
      BY <1>1, <1>5, <2>2 DEF SavePending
    <2> QED BY <1>1, <1>5, <2>3, StepEnds DEF SavePending
  <1>6. CASE Polled(r)
    <2>1. runs[r].path \in Paths /\ runs[r].id \in RequestIDs /\ UNCHANGED <<files, config, crashes>> /\ runs[r].pc = "poll"
      BY <1>1, <1>6 DEF Polled, Knows
    <2>2. CASE Ends(r) /\ pending' \in {Nil, pending}
      BY <1>1, <2>1, <2>2, StepEnds
    <2>3. CASE Goes(r, [runs[r] EXCEPT !.pc = "write"]) /\ UNCHANGED pending
      BY <2>1, <2>3, StepMoves
    <2>4. CASE Goes(r, runs[r]) /\ UNCHANGED pending
      <3>1. Goes(r, [runs[r] EXCEPT !.pc = "poll"])
        BY <1>1, <2>1, <2>4 DEF Run
      <3> QED BY <2>1, <2>4, <3>1, StepMoves
    <2>5. \/ Ends(r) /\ pending' \in {Nil, pending}
          \/ Goes(r, [runs[r] EXCEPT !.pc = "write"]) /\ UNCHANGED pending
          \/ Goes(r, runs[r]) /\ UNCHANGED pending
      BY <1>6 DEF Polled, Ends
    <2> QED BY <2>2, <2>3, <2>4, <2>5
  <1>7. CASE WriteToken(r)
    <2>1. /\ runs[r].path \in Paths /\ runs[r].id \in RequestIDs /\ UNCHANGED <<pending, config, crashes>>
      BY <1>1, <1>7 DEF WriteToken, Knows
    <2>2. CASE Ends(r) /\ UNCHANGED files
      BY <1>1, <2>1, <2>2, StepEnds
    <2>3. CASE /\ files' = [files EXCEPT ![runs[r].path] = runs[r].id]
               /\ Goes(r, [runs[r] EXCEPT !.pc = "setup", !.id = Nil])
      <3> DEFINE run == [runs[r] EXCEPT !.pc = "setup", !.id = Nil]
      <3>1. run \in Run /\ run.pc = "setup" /\ run.path = runs[r].path
        BY <1>1 DEF Run
      <3>2. Goes(r, run)
        BY <2>3
      <3> HIDE DEF run
      <3>3. Knows(files', tokens', run)
        BY <2>1, <3>1 DEF Knows
      <3>4. files' \in [Paths -> Secrets \cup {Nil, Torn}]
        BY <1>1, <2>1, <2>3, NamesAssumption DEF Secrets
      <3> QED BY <1>1, <2>1, <3>1, <3>2, <3>3, <3>4, OneRun DEF Goes
    <2> QED BY <1>7, <2>2, <2>3 DEF WriteToken
  <1>8. CASE Setup(r)
    <2>1. runs[r].path \in Paths /\ UNCHANGED <<requests, tokens, pending, files, config, crashes>>
      BY <1>1, <1>8 DEF Setup, Knows
    <2>2. CASE Ends(r)
      BY <1>1, <2>1, <2>2, StepEnds
    <2>3. CASE Admitted(runs[r].path) /\ Goes(r, [runs[r] EXCEPT !.pc = "configure", !.seen = config])
      <3> DEFINE run == [runs[r] EXCEPT !.pc = "configure", !.seen = config]
      <3>1. run \in Run /\ run.pc = "configure" /\ run.path = runs[r].path /\ run.seen = config
        BY <1>1 DEF Run
      <3>2. Goes(r, run)
        BY <2>3
      <3> HIDE DEF run
      <3>3. Good(files, tokens, runs[r].path)
        BY <2>1, <2>3 DEF Admitted, Valid, Good
      <3>4. config = Nil \/ Good(files, tokens, config)
        BY DEF ConnectInv
      <3>5. Knows(files', tokens', run)
        BY <2>1, <3>1, <3>3, <3>4 DEF Knows
      <3> QED BY <1>1, <2>1, <3>1, <3>2, <3>5, OneRun DEF Goes
    <2> QED BY <1>8, <2>2, <2>3 DEF Setup
  <1>9. CASE RollBack(r) /\ runs[r].pc \in {"configure", "wire"} /\ UNCHANGED <<requests, tokens, pending, files, crashes>>
    <2>1. config' = Nil \/ Good(files, tokens, config')
      BY <1>1, <1>9 DEF RollBack, Knows
    <2> QED BY <1>1, <1>9, <2>1, StepEnds DEF RollBack
  <1>10. CASE Configure(r)
    <2>1. /\ runs[r].path \in Paths /\ Good(files, tokens, runs[r].path)
          /\ runs[r].seen = Nil \/ Good(files, tokens, runs[r].seen)
          /\ UNCHANGED <<requests, tokens, pending, files, crashes>>
      BY <1>1, <1>10 DEF Configure, Knows
    <2>2. CASE config' = runs[r].path /\ Goes(r, [runs[r] EXCEPT !.pc = "wire"])
      <3> DEFINE run == [runs[r] EXCEPT !.pc = "wire"]
      <3>1. run \in Run /\ run.pc = "wire" /\ run.path = runs[r].path /\ run.seen = runs[r].seen
        BY <1>1 DEF Run
      <3>2. Goes(r, run)
        BY <2>2
      <3> HIDE DEF run
      <3>3. Knows(files', tokens', run) /\ Good(files', tokens', config')
        BY <2>1, <2>2, <3>1 DEF Knows
      <3> QED BY <1>1, <2>1, <3>1, <3>2, <3>3, OneRun DEF Goes
    <2> QED BY <1>9, <1>10, <2>2 DEF Configure
  <1>11. CASE Wire(r)
    <2>1. /\ runs[r].path \in Paths /\ UNCHANGED <<requests, tokens, pending, files, crashes>>
      BY <1>1, <1>11 DEF Wire, Knows
    <2>2. CASE Goes(r, [runs[r] EXCEPT !.pc = "finish"]) /\ UNCHANGED config
      BY <2>1, <2>2, StepMoves
    <2>3. CASE Ends(r) /\ UNCHANGED config
      BY <1>1, <2>1, <2>3, StepEnds
    <2> QED BY <1>9, <1>11, <2>2, <2>3 DEF Wire, Ends
  <1>12. CASE Finish(r) \/ Unanswered(r)
    BY <1>1, <1>12, StepEnds DEF Finish, Unanswered
  <1>13. CASE Crash(r)
    <2>1. pending' \in Pending \cup {Nil, Torn} /\ UNCHANGED config /\ crashes' \in Nat /\ Ends(r)
      BY <1>1, <1>13 DEF Crash
    <2>2. files' \in [Paths -> Secrets \cup {Nil, Torn}]
      BY <1>1, <1>13 DEF Crash
    <2> QED BY <2>1, <2>2, StepEnds
  <1> QED BY <1>2, <1>3, <1>4, <1>5, <1>6, <1>7, <1>8, <1>10, <1>11, <1>12, <1>13 DEF Step

LEMMA ConnectInvStep == TypeOK /\ ConnectInv /\ [ConnectNext]_all => ConnectInv'
  <1> SUFFICES ASSUME TypeOK, ConnectInv, [ConnectNext]_all
               PROVE  ConnectInv'
    OBVIOUS
  <1>1. \A path \in Named : Good(files, tokens, path) => Good(files', tokens', path)
    BY GoodStays DEF ConnectInv
  <1>2. ASSUME NEW r \in Runs, Step(r) \/ Unanswered(r) \/ Crash(r)
        PROVE  ConnectInv'
    BY <1>1, <1>2, RunSteps
  <1>3. ASSUME NEW r \in Runs, NEW json \in BOOLEAN, NEW reconnect \in BOOLEAN, NEW update \in BOOLEAN,
               Begin(r, json, reconnect, update)
        PROVE  ConnectInv'
    BY <1>1, <1>3, StepBegin
  <1>4. CASE UNCHANGED client
    <2>1. UNCHANGED <<pending, files, config, runs, crashes>>
      BY <1>4 DEF client
    <2>2. ASSUME NEW r \in Runs
          PROVE  Knows(files', tokens', runs[r])
      <3>1. runs[r].path \in Named /\ runs[r].seen \in Named
        BY DEF Named
      <3> QED BY <1>1, <3>1 DEF ConnectInv, Knows
    <2>3. config = Nil \/ Good(files', tokens', config)
      BY <1>1 DEF ConnectInv, Named
    <2> QED BY <2>1, <2>2, <2>3 DEF ConnectInv, ConnectTypeOK
  <1> QED BY <1>2, <1>3, <1>4 DEF ConnectNext, Server, TimePasses, all, client

LEMMA ConnectSound == ConnectSafety => []ConnectInv
  BY ConnectInvInit, ConnectInvStep, ConnectPairs, TypeCorrectness, PTL DEF ConnectSafety

\* The saved request, the token files and the runs stay well-formed.
THEOREM ConnectTypes == ConnectSafety => []ConnectTypeOK
  <1>1. ConnectInv => ConnectTypeOK
    BY DEF ConnectInv
  <1> QED BY ConnectSound, <1>1, PTL

\* However many runs overlap, fail, roll back or are killed, the configuration in force
\* names a complete token file whose secret the owner granted.
THEOREM ConfigStaysUsable == ConnectSafety => []ConfigUsable
  <1>1. ConnectInv => ConfigUsable
    BY DEF ConnectInv, ConfigUsable, Good, Known
  <1> QED BY ConnectSound, <1>1, PTL

(***************************************************************************)
(* One run at a time.  A resumed run works for the request that is saved:  *)
(* it carries its secret to the file, and the file to the configuration,   *)
(* before it removes the saved request.  With two runs this is false, for  *)
(* the path of the saved request is all a run holds of it.                 *)
(***************************************************************************)

Carries(run) ==
  /\ run.pc = "finish" => run.resumed
  /\ run.resumed =>
       /\ IsSaved /\ run.pc \in {"aim", "poll", "write", "setup", "configure", "wire", "finish"}
       /\ run.pc \in {"aim", "poll", "write"} => pending.id = run.id
       /\ run.pc \in {"setup", "configure", "wire", "finish"} => files[run.path] = pending.id
       /\ run.pc \in {"wire", "finish"} => config = run.path

\* No other run takes part.
LEMMA RunCarries ==
  ASSUME ConnectInv, NEW r \in Runs, Carries(runs[r]),
         \/ \E json, reconnect, update \in BOOLEAN : Begin(r, json, reconnect, update)
         \/ Step(r) \/ Unanswered(r) \/ Crash(r)
  PROVE  Carries(runs[r])'
  <1> DEFINE old == runs[r]
  <1>1. /\ runs \in [Runs -> Run] /\ old \in Run /\ pending \in Pending \cup {Nil, Torn}
        /\ files \in [Paths -> Secrets \cup {Nil, Torn}] /\ Knows(files, tokens, old)
    BY DEF ConnectInv, ConnectTypeOK
  <1>2. ASSUME Ends(r) PROVE Carries(runs[r])'
    BY <1>1, <1>2, IdleRun DEF Ends, Goes, Carries
  <1>3. ASSUME NEW run, Goes(r, run), ~run.resumed, run.pc \in {"check", "aim", "save", "poll", "setup"}
        PROVE  Carries(runs[r])'
    BY <1>1, <1>3 DEF Goes, Carries
  <1>4. CASE \E json, reconnect, update \in BOOLEAN : Begin(r, json, reconnect, update)
    <2>1. PICK json \in BOOLEAN, reconnect \in BOOLEAN, update \in BOOLEAN : Begin(r, json, reconnect, update)
      BY <1>4
    <2>3. CASE Goes(r, [Idle EXCEPT !.pc = "aim", !.json = json, !.update = update])
      <3> DEFINE run == [Idle EXCEPT !.pc = "aim", !.json = json, !.update = update]
      <3>1. run.pc = "aim" /\ ~run.resumed
        BY <1>1, IdleRun DEF Idle, Run
      <3>2. Goes(r, run)
        BY <2>3
      <3> HIDE DEF run
      <3> QED BY <1>3, <3>1, <3>2
    <2>4. CASE Goes(r, [Idle EXCEPT !.pc = "check", !.json = json, !.reconnect = reconnect, !.update = update,
                                    !.path = config])
      <3> DEFINE run == [Idle EXCEPT !.pc = "check", !.json = json, !.reconnect = reconnect, !.update = update,
                                   !.path = config]
      <3>1. run.pc = "check" /\ ~run.resumed
        BY <1>1, IdleRun DEF Idle, Run
      <3>2. Goes(r, run)
        BY <2>4
      <3> HIDE DEF run
      <3> QED BY <1>3, <3>1, <3>2
    <2>5. CASE IsSaved /\ Goes(r, [Idle EXCEPT !.pc = "aim", !.json = TRUE, !.update = pending.update,
                               !.resumed = TRUE, !.id = pending.id, !.path = pending.path, !.seen = pending.over])
      <3>1. runs'[r].pc = "aim" /\ runs'[r].id = pending.id /\ runs'[r].resumed
        BY <1>1, <2>5 DEF Goes, Idle
      <3>2. UNCHANGED pending
        BY <2>1 DEF Begin
      <3> QED BY <2>5, <3>1, <3>2 DEF Carries, IsSaved
    <2> QED BY <2>1, <2>3, <2>4, <2>5 DEF Begin
  <1>5. CASE Check(r)
    <2>2. CASE Goes(r, [Idle EXCEPT !.pc = "aim", !.json = old.json, !.update = TRUE])
      <3> DEFINE run == [Idle EXCEPT !.pc = "aim", !.json = old.json, !.update = TRUE]
      <3>1. run.pc = "aim" /\ ~run.resumed
        BY <1>1, IdleRun DEF Idle, Run
      <3>2. Goes(r, run)
        BY <2>2
      <3> HIDE DEF run
      <3> QED BY <1>3, <3>1, <3>2
    <2>3. CASE Goes(r, [Idle EXCEPT !.pc = "setup", !.update = old.update, !.path = old.path])
      <3> DEFINE run == [Idle EXCEPT !.pc = "setup", !.update = old.update, !.path = old.path]
      <3>1. run.pc = "setup" /\ ~run.resumed
        BY <1>1, IdleRun DEF Idle, Run
      <3>2. Goes(r, run)
        BY <2>3
      <3> HIDE DEF run
      <3> QED BY <1>3, <3>1, <3>2
    <2> QED BY <1>2, <1>5, <2>2, <2>3 DEF Check
  <1>6. CASE Aim(r)
    <2>1. PICK path \in Paths :
            /\ Goes(r, [old EXCEPT !.pc = IF old.resumed THEN "poll" ELSE "start", !.path = path, !.seen = Nil])
            /\ \/ old.resumed /\ pending' = [id |-> old.id, path |-> path, update |-> old.update, over |-> old.seen]
               \/ UNCHANGED pending
      BY <1>6 DEF Aim
    <2>2. /\ runs'[r].pc = (IF old.resumed THEN "poll" ELSE "start")
          /\ runs'[r].id = old.id /\ runs'[r].resumed = old.resumed
      BY <1>1, <2>1 DEF Goes, Run
    <2>3. CASE ~old.resumed
      BY <2>2, <2>3 DEF Carries
    <2>4. CASE old.resumed
      <3>1. IsSaved /\ pending.id = old.id /\ old.id \in RequestIDs
        BY <1>1, <1>6, <2>4 DEF Carries, Aim, Knows
      <3>2. CASE UNCHANGED pending
        BY <2>2, <2>4, <3>1, <3>2 DEF Carries, IsSaved
      <3>3. CASE pending' = [id |-> old.id, path |-> path, update |-> old.update, over |-> old.seen]
        <4>1. pending' \in Pending /\ pending'.id = old.id
          BY <1>1, <3>1, <3>3 DEF Run, Pending
        <4> QED BY <2>2, <2>4, <4>1, NamesAssumption DEF Carries, IsSaved
      <3> QED BY <2>1, <3>2, <3>3
    <2> QED BY <2>3, <2>4
  <1>7. CASE StartPair(r)
    <2>1. old.pc = "start" /\ ~old.resumed
      BY <1>7 DEF StartPair, Carries
    <2>2. ASSUME NEW id, Goes(r, [old EXCEPT !.pc = "save", !.id = id, !.seen = config])
          PROVE  Carries(runs[r])'
      <3> DEFINE run == [old EXCEPT !.pc = "save", !.id = id, !.seen = config]
      <3>1. run.pc = "save" /\ ~run.resumed /\ Goes(r, run)
        BY <1>1, <2>1, <2>2 DEF Run
      <3> HIDE DEF run
      <3> QED BY <1>3, <3>1
    <2>3. ASSUME NEW id, Goes(r, [old EXCEPT !.pc = "poll", !.id = id])
          PROVE  Carries(runs[r])'
      <3> DEFINE run == [old EXCEPT !.pc = "poll", !.id = id]
      <3>1. run.pc = "poll" /\ ~run.resumed /\ Goes(r, run)
        BY <1>1, <2>1, <2>3 DEF Run
      <3> HIDE DEF run
      <3> QED BY <1>3, <3>1
    <2> QED BY <1>2, <1>7, <2>2, <2>3 DEF StartPair
  <1>8. CASE Polled(r)
    <2>1. CASE Goes(r, [old EXCEPT !.pc = "write"]) /\ UNCHANGED pending
      <3>1. runs'[r].pc = "write" /\ runs'[r].id = old.id /\ runs'[r].resumed = old.resumed /\ old.pc = "poll"
        BY <1>1, <1>8, <2>1 DEF Goes, Run, Polled
      <3> QED BY <2>1, <3>1 DEF Carries, IsSaved
    <2>2. CASE Goes(r, old) /\ ~old.resumed
      <3>1. runs'[r] = old /\ old.pc = "poll"
        BY <1>1, <1>8, <2>2 DEF Goes, Polled
      <3> QED BY <2>2, <3>1 DEF Carries
    <2> QED BY <1>2, <1>8, <2>1, <2>2 DEF Polled, Ends
  <1>9. CASE WriteToken(r)
    <2>1. CASE /\ files' = [files EXCEPT ![old.path] = old.id]
               /\ Goes(r, [old EXCEPT !.pc = "setup", !.id = Nil])
      <3>1. /\ runs'[r].pc = "setup" /\ runs'[r].path = old.path /\ runs'[r].resumed = old.resumed
            /\ old.pc = "write" /\ UNCHANGED pending /\ old.path \in Paths
        BY <1>1, <1>9, <2>1 DEF Goes, Run, WriteToken, Knows
      <3>2. files'[old.path] = old.id
        BY <1>1, <2>1, <3>1
      <3> QED BY <3>1, <3>2 DEF Carries, IsSaved
    <2> QED BY <1>2, <1>9, <2>1 DEF WriteToken
  <1>10. CASE Setup(r)
    <2>1. CASE Goes(r, [old EXCEPT !.pc = "configure", !.seen = config])
      <3>1. /\ runs'[r].pc = "configure" /\ runs'[r].path = old.path /\ runs'[r].resumed = old.resumed
            /\ old.pc = "setup" /\ UNCHANGED <<pending, files>>
        BY <1>1, <1>10, <2>1 DEF Goes, Run, Setup
      <3> QED BY <3>1 DEF Carries, IsSaved
    <2> QED BY <1>2, <1>10, <2>1 DEF Setup
  <1>11. CASE Configure(r)
    <2>1. CASE config' = old.path /\ Goes(r, [old EXCEPT !.pc = "wire"])
      <3>1. /\ runs'[r].pc = "wire" /\ runs'[r].path = old.path /\ runs'[r].resumed = old.resumed
            /\ old.pc = "configure" /\ UNCHANGED <<pending, files>>
        BY <1>1, <1>11, <2>1 DEF Goes, Run, Configure
      <3> QED BY <2>1, <3>1 DEF Carries, IsSaved
    <2> QED BY <1>2, <1>11, <2>1 DEF Configure, RollBack
  <1>12. CASE Wire(r)
    <2>1. CASE old.resumed /\ Goes(r, [old EXCEPT !.pc = "finish"]) /\ UNCHANGED config
      <3>1. /\ runs'[r].pc = "finish" /\ runs'[r].path = old.path /\ runs'[r].resumed
            /\ old.pc = "wire" /\ UNCHANGED <<pending, files, config>>
        BY <1>1, <1>12, <2>1 DEF Goes, Run, Wire
      <3> QED BY <2>1, <3>1 DEF Carries, IsSaved
    <2> QED BY <1>2, <1>12, <2>1 DEF Wire, RollBack, Ends
  <1>13. CASE SavePending(r) \/ Finish(r) \/ Unanswered(r) \/ Crash(r)
    BY <1>2, <1>13 DEF SavePending, Finish, Unanswered, Crash
  <1> QED BY <1>4, <1>5, <1>6, <1>7, <1>8, <1>9, <1>10, <1>11, <1>12, <1>13 DEF Step

\* Who removes a saved request has the server's word that it is over, or has it configured.
LEMMA DiscardStep ==
  ASSUME ConnectInv, NEW r \in Runs, Carries(runs[r]), IsSaved, pending' = Nil,
         \/ \E json, reconnect, update \in BOOLEAN : Begin(r, json, reconnect, update)
         \/ Step(r) \/ Unanswered(r) \/ Crash(r)
  PROVE  \/ Answer(pending.id) \notin {"pending", "approved"}
         \/ config # Nil /\ files[config] = pending.id
  <1>1. pending # Nil /\ runs[r] \in Run /\ Knows(files, tokens, runs[r])
    BY DEF IsSaved, ConnectInv, ConnectTypeOK
  <1>2. CASE Polled(r)
    <2>1. runs[r].resumed /\ Answer(runs[r].id) \notin {"pending", "approved"} /\ runs[r].pc = "poll"
      BY <1>1, <1>2 DEF Polled
    <2> QED BY <2>1 DEF Carries
  <1>3. CASE Finish(r)
    BY <1>1, <1>3, NamesAssumption DEF Finish, Carries, Knows
  <1>4. CASE Aim(r)
    <2>1. PICK path \in Paths : pending' = [id |-> runs[r].id, path |-> path, update |-> runs[r].update, over |-> runs[r].seen]
      BY <1>1, <1>4 DEF Aim
    <2>2. runs[r].resumed
      BY <1>1, <1>4 DEF Aim
    <2>3. pending' \in Pending
      BY <1>1, <1>4, <2>1, <2>2 DEF Aim, Knows, Run, Pending
    <2> QED BY <2>3, NamesAssumption
  <1>5. CASE SavePending(r)
    BY <1>1, <1>5 DEF SavePending
  <1>6. CASE Crash(r)
    BY <1>1, <1>6, NamesAssumption DEF Crash
  <1>7. ASSUME \/ \E json, reconnect, update \in BOOLEAN : Begin(r, json, reconnect, update)
               \/ Check(r) \/ StartPair(r) \/ WriteToken(r) \/ Setup(r) \/ Configure(r) \/ Wire(r) \/ Unanswered(r)
        PROVE  UNCHANGED pending
    BY <1>7 DEF Begin, Check, StartPair, WriteToken, Setup, Configure, Wire, Unanswered
  <1> QED BY <1>1, <1>2, <1>3, <1>4, <1>5, <1>6, <1>7 DEF Step

\* As long as one run of the command follows another, whatever the owner and the server do
\* meanwhile and wherever a run is killed, a saved request is discarded only when nothing can
\* come of it.
THEOREM DiscardsAreSafe ==
  ASSUME NEW r, Runs = {r}
  PROVE  ConnectSafety => DiscardSafe
  <1>1. ConnectInit => Carries(runs[r])
    BY IdleRun DEF ConnectInit, Carries
  <1>2. [ConnectNext]_all =>
          \/ \E json, reconnect, update \in BOOLEAN : Begin(r, json, reconnect, update)
          \/ Step(r) \/ Unanswered(r) \/ Crash(r)
          \/ UNCHANGED client
    BY DEF ConnectNext, Server, TimePasses, all, client
  <1>3. ConnectInv /\ Carries(runs[r]) /\ [ConnectNext]_all => Carries(runs[r])'
    <2>1. CASE UNCHANGED client
      BY <2>1 DEF client, Carries, IsSaved
    <2> QED BY <1>2, <2>1, RunCarries
  <1>4. ConnectInv /\ Carries(runs[r]) /\ [ConnectNext]_all =>
          [IsSaved /\ pending' = Nil =>
             \/ Answer(pending.id) \notin {"pending", "approved"}
             \/ config # Nil /\ files[config] = pending.id]_all
    <2>1. UNCHANGED client => ~(IsSaved /\ pending' = Nil)
      BY DEF client, IsSaved
    <2> QED BY <1>2, <2>1, DiscardStep
  <1> QED BY <1>1, <1>3, <1>4, ConnectSound, PTL DEF ConnectSafety, DiscardSafe
============================================================================
