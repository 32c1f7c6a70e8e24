SPECIFICATION Spec
CONSTANTS
  MaxVersion = 4
  MaxCrashes = 0
PROPERTIES NeverRetried
