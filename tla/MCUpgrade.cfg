SPECIFICATION Spec
CONSTANTS
  MaxVersion = 3
  MaxCrashes = 1
INVARIANTS ArchivesKept FailureRestores RollbackAimed ServiceKept
PROPERTIES Converges
