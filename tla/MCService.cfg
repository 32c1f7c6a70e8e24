SPECIFICATION ServiceSpec
CONSTANTS
  Callers = {c1, c2}
  Goroutines = {g1, g2}
  StuckAfter = 1
  Nil = Nil
  Agents = {a1}
  Stores = {s1}
  Archives = {r1}
  Search = Search
INVARIANTS NoOverlap
PROPERTIES ExitJustified ImplementsSavedWrites GateFrees
