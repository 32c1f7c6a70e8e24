SPECIFICATION OwnedSpec
CONSTANTS
  Owner = "owner"
  Preference = "preference"
  Scopes = {"a", "b", "legacy"}
  Legacy = "legacy"
  DurableScopes = {"a", "b"}
  Contents = {"c1"}
  Long = {}
  Titles = {"c1"}
  FirstRunes <- MCFirstRunes
  Tags = {""}
  Types = {"knowledge"}
  Purposes = {"handoff", "preference"}
  Keys = {}
  Authors = {"agent", "owner"}
  Agents = {"agent"}
  Metadata <- MCPlain
  RequestIDs = {r1, r2, r3, r4}
  Vectors = {TRUE}
  Nil = Nil
  Blank = Blank
  NoText = NoText
  ImportedCount = 1
  ImportedRows <- MCLegacy
SYMMETRY Symmetry
CHECK_DEADLOCK FALSE
INVARIANTS HistoryComplete OneHandoffPerScope NotesTruthful
PROPERTIES ChangesOnRequest
