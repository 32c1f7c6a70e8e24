SPECIFICATION Spec
CONSTANTS
  b1 = b1
  b2 = b2
  None = None
  Bridges = {b1}
  Bundled <- BundledEach
  MaxVersion = 3
  FirstServer = 1
  MaxChanges = 3
  MaxTroubles = 1
PROPERTIES MatchesServer
