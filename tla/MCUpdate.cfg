SPECIFICATION Spec
CONSTANTS
  b1 = b1
  b2 = b2
  None = None
  Bridges = {b1, b2}
  Bundled <- BundledEach
  MaxVersion = 3
  FirstServer = 2
  MaxChanges = 2
  MaxTroubles = 1
INVARIANTS CurrentInstalled PreviousKept TwoAtRest
PROPERTIES Follows
