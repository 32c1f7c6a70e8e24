SPECIFICATION ConnectSafety
CONSTANTS
  RequestIDs = {q1, q2}
  Hashes = {q1, q2}
  Codes = {c1}
  Devices = {laptop}
  Lifetime = 1
  MaxPending = 2
  Runs = {r1, r2}
  Paths = {p1, p2}
  Nil = Nil
  Torn = Torn
  MaxCrashes = 1
SYMMETRY Symmetry
INVARIANTS ConfigUsable
