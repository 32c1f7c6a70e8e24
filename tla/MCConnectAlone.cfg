SPECIFICATION ConnectSpec
CONSTANTS
  RequestIDs = {q1, q2}
  Hashes = {q1, q2}
  Codes = {c1}
  Devices = {laptop}
  Lifetime = 1
  MaxPending = 2
  Runs = {r1}
  Paths = {p1, p2, p3}
  Nil = Nil
  Torn = Torn
  MaxCrashes = 1
PROPERTIES DiscardSafe RunsEnd Settles
