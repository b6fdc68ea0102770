SPECIFICATION Spec
CONSTANTS
  Replicas = {1, 2}
  Cards = {c1}
  Columns = {k1, k2}
  Ranks = {p1, p2}
  NoRow = NoRow
  BoardColumns = {k1}
  PastClocks = {1}
  MaxClock = 3
  MaxBatch = 2
  PlannerOverlapsSync = FALSE
  RelayIsCausal = TRUE
SYMMETRY Symmetry
INVARIANTS
  Convergence
  LastWriterWins
  CardsSitInBoardColumns
PROPERTIES
  LocalEditsSurviveMerge
CHECK_DEADLOCK FALSE
