SPECIFICATION OwnedSpec
CONSTANTS
  Owner = "owner"
  Preference = "preference"
  Scopes = {"a", "b", "legacy"}
  Legacy = "legacy"
  DurableScopes = {"a", "b"}
  Contents = {"c1", "c2"}
  Long = {"c1", "c2"}
  Titles = {"prefix", "named"}
  FirstRunes <- MCFirstRunes
  Tags = {""}
  Types = {"knowledge"}
  Purposes = {"preference"}
  Keys = {"k"}
  Authors = {"agent", "owner"}
  Agents = {"agent"}
  Metadata <- MCPlain
  RequestIDs = {r1, r2, r3}
  Vectors = {TRUE, FALSE}
  Nil = Nil
  Blank = Blank
  NoText = NoText
  ImportedCount = 1
  ImportedRows <- MCNamed
SYMMETRY Symmetry
CHECK_DEADLOCK FALSE
INVARIANTS TypeOK AcknowledgedKept MoveConserves EmbeddingOfOwnText UniqueIndexes ConfirmationKept EveryVersionAccounted
PROPERTIES ImplementsVersionedStore RetriesAlike
