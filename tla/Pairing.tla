------------------------------ MODULE Pairing ------------------------------
(***************************************************************************)
(* Device pairing on the server: pairingManager (internal/service), which  *)
(* keeps connection requests in memory, and the client_tokens table it     *)
(* grants access in (internal/memory).                                     *)
(*                                                                         *)
(* Every handler holds the manager's mutex from its first look at a        *)
(* request to its last change, the token INSERT included, so a handler is  *)
(* one step.  Requests are kept by age instead of by expiry time: Expires  *)
(* is the creation time plus Lifetime, and only differences are compared.  *)
(***************************************************************************)
EXTENDS Naturals, FiniteSets, Sequences

CONSTANTS
  RequestIDs,   \* request IDs: 32 random bytes, never drawn twice
  Codes,        \* the codes shown to both sides, which may collide
  Devices,      \* device names
  Hashes,       \* SHA-256 fingerprints of the secrets clients keep
  Lifetime,     \* pairingLifetime
  MaxPending    \* maxPendingPairings

ASSUME LimitsAssumption == Lifetime \in Nat \ {0} /\ MaxPending \in Nat \ {0}

VARIABLES
  requests,   \* pairingManager.requests: lost when the server restarts
  tokens      \* client_tokens, in the order of their IDs

vars == <<requests, tokens>>

Request == [device : Devices, hash : Hashes, code : Codes, age : Nat,
            status : {"pending", "approved", "denied", "expired"}]

Token == [device : Devices, hash : Hashes, revoked : BOOLEAN]

Known(hash) == \E n \in DOMAIN tokens : tokens[n].hash = hash

\* ClientTokenValid: what a bearer of the secret is admitted by.
Valid(hash) == \E n \in DOMAIN tokens : tokens[n].hash = hash /\ ~tokens[n].revoked

----------------------------------------------------------------------------
\* Mutant: outcomes are forgotten as late as ever, expired requests never.
Expire_KeepsExpired(reqs) ==
  [id \in {i \in DOMAIN reqs : reqs[i].age < 2 * Lifetime \/ reqs[i].status \in {"pending", "expired"}} |->
     IF reqs[id].age >= Lifetime /\ reqs[id].status = "pending"
     THEN [reqs[id] EXCEPT !.status = "expired"]
     ELSE reqs[id]]

\* expire: an undecided request expires after one lifetime, every request is
\* forgotten after two.
Expire(reqs) ==
  [id \in {i \in DOMAIN reqs : reqs[i].age < 2 * Lifetime} |->
     IF reqs[id].age >= Lifetime /\ reqs[id].status = "pending"
     THEN [reqs[id] EXCEPT !.status = "expired"]
     ELSE reqs[id]]

Admits(reqs) == Cardinality({id \in DOMAIN reqs : reqs[id].status = "pending"}) < MaxPending

NewRequest(device, hash, code) ==
  [device |-> device, hash |-> hash, code |-> code, age |-> 0, status |-> "pending"]

\* POST /pair/start, answered with the request ID and the code, or 429.
Start(id, device, hash, code) ==
  /\ id \notin DOMAIN requests
  /\ LET kept == Expire(requests)
     IN  requests' = IF Admits(kept)
                     THEN [i \in DOMAIN kept \cup {id} |->
                             IF i = id THEN NewRequest(device, hash, code) ELSE kept[i]]
                     ELSE kept
  /\ UNCHANGED tokens

\* POST /pair/poll and GET of the owner's list: expire, then look.
Look ==
  /\ requests' = Expire(requests)
  /\ UNCHANGED tokens

\* What a poll of a request is answered with.
Answer(id) ==
  LET kept == Expire(requests)
  IN  IF id \in DOMAIN kept THEN kept[id].status ELSE "not found"

Decidable(id, code) ==
  /\ id \in DOMAIN requests
  /\ requests[id].age < Lifetime /\ requests[id].status = "pending"
  /\ requests[id].code = code

\* Mutant: the INSERT forgets that fingerprints are unique.
AddClientToken_AnyHash(device, hash) ==
  tokens' = Append(tokens, [device |-> device, hash |-> hash, revoked |-> FALSE])

\* AddClientToken: a fingerprint can be stored once, revoked ones included.
AddClientToken(device, hash) ==
  /\ ~Known(hash)
  /\ tokens' = Append(tokens, [device |-> device, hash |-> hash, revoked |-> FALSE])

\* Mutant: the token is stored after the lock was released, if it can be.
Approve_Unlocked(id, code) ==
  /\ Decidable(id, code)
  /\ requests' = [requests EXCEPT ![id].status = "approved"]
  /\ \/ AddClientToken(requests[id].device, requests[id].hash)
     \/ UNCHANGED tokens

\* The owner's POST with decision "approve"; an error leaves the request as it was,
\* whether or not the INSERT that reports it has stored the token.
Approve(id, code) ==
  /\ Decidable(id, code)
  /\ AddClientToken(requests[id].device, requests[id].hash)
  /\ \/ requests' = [requests EXCEPT ![id].status = "approved"]
     \/ UNCHANGED requests

\* The owner's POST with decision "deny".
Deny(id, code) ==
  /\ Decidable(id, code)
  /\ requests' = [requests EXCEPT ![id].status = "denied"]
  /\ UNCHANGED tokens

\* RevokeClientToken.
Revoke(n) ==
  /\ ~tokens[n].revoked
  /\ tokens' = [tokens EXCEPT ![n].revoked = TRUE]
  /\ UNCHANGED requests

\* Time passes.  Ages beyond the second lifetime are alike.
Tick ==
  /\ requests' = [id \in DOMAIN requests |->
       IF requests[id].age < 2 * Lifetime THEN [requests[id] EXCEPT !.age = @ + 1] ELSE requests[id]]
  /\ UNCHANGED tokens

\* The server stops and starts: only the table survives.
Restart ==
  /\ requests' = [id \in {} |-> {}]
  /\ UNCHANGED tokens

Init ==
  /\ requests = [id \in {} |-> {}]
  /\ tokens = <<>>

Next ==
  \/ \E id \in RequestIDs, device \in Devices, hash \in Hashes, code \in Codes :
       Start(id, device, hash, code)
  \/ \E id \in RequestIDs, code \in Codes : Approve(id, code) \/ Deny(id, code)
  \/ \E n \in DOMAIN tokens : Revoke(n)
  \/ Look
  \/ Tick
  \/ Restart

Spec == Init /\ [][Next]_vars

----------------------------------------------------------------------------
\* Requests and tokens are well-formed.
TypeOK ==
  /\ DOMAIN requests \subseteq RequestIDs
  /\ \A id \in DOMAIN requests : requests[id] \in Request
  /\ tokens \in Seq(Token)

\* Anyone may ask to be paired, yet the requests nobody decided never take more
\* room than two queues: those that can still be approved, and those that expired
\* within the last lifetime.
UndecidedBounded ==
  Cardinality({id \in DOMAIN requests : requests[id].status \in {"pending", "expired"}}) <= 2 * MaxPending

\* Whoever polls "approved" holds a secret that was granted access, for the
\* device the owner saw: the decision and the token never come apart, whichever
\* decisions race and whatever fails.
ApprovedHasToken ==
  \A id \in DOMAIN requests : requests[id].status = "approved" =>
    \E n \in DOMAIN tokens : tokens[n].hash = requests[id].hash /\ tokens[n].device = requests[id].device

\* A secret that was granted access and revoked is never admitted again, not even
\* if it is paired and approved once more.
RevocationFinal ==
  [][\A hash \in Hashes : Known(hash) /\ ~Valid(hash) => ~Valid(hash)']_vars
============================================================================
