SPECIFICATION Spec
CONSTANTS
  Absent = Absent
  AllProjects = AllProjects
  None = None
  MinBudget = 2
  MaxBudget = 5
  MaxDetails = 4
  Tabs = {t1, t2}
  Worlds <- MCWorlds
  Says <- MCSays
  Scopes <- MCScopes
  Views <- MCViews
  Limit = 2
  PageBytes = 3
  Lifetime = 1
  MaxLists = 2
  MaxRefs = 6
  MaxRecords = 4
  MaxChanges = 1
  Readers <- MCReaders
  Budgets = {3, 6}
SYMMETRY Symmetry
INVARIANTS PagesFaithful PreviewAgrees BudgetWellSpent
