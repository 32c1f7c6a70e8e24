SPECIFICATION Spec
CONSTANTS
  Tokens = {t1, t2, t3}
  Cookies = {c1, c2, c3}
  Peers = {p1, p2}
  Life = 1
  Window = 1
  MaxSessions = 2
  MaxTries = 1
  MaxPeers = 1
  MaxTroubles = 2
  None = None
  Torn = Torn
INVARIANTS SessionsBounded SignedOutStays
PROPERTIES CredentialKept OwnerGetsIn
