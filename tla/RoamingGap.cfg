SPECIFICATION Spec
CONSTANTS
  Replicas = {1, 2}
  Cards = {c1}
  Columns = {k1}
  Ranks = {p1, p2}
  NoRow = NoRow
  BoardColumns = {k1}
  PastClocks = {1}
  MaxClock = 4
  MaxBatch = 1
  PlannerOverlapsSync = TRUE
  RelayIsCausal = TRUE
SYMMETRY Symmetry
PROPERTIES
  LocalEditsSurviveMerge
CHECK_DEADLOCK FALSE
