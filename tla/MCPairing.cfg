SPECIFICATION Spec
CONSTANTS
  RequestIDs = {q1, q2, q3}
  Codes = {c1, c2}
  Devices = {laptop, phone}
  Hashes = {h1, h2}
  Lifetime = 2
  MaxPending = 1
SYMMETRY Symmetry
INVARIANTS UndecidedBounded ApprovedHasToken
PROPERTIES RevocationFinal
