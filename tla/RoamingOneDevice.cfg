SPECIFICATION Spec
CONSTANTS
  Replicas = {1}
  Cards = {c1, c2}
  Columns = {k1}
  Ranks = {p1, p2}
  NoRow = NoRow
  BoardColumns = {k1}
  PastClocks = {0}
  MaxClock = 4
  MaxBatch = 2
  PlannerOverlapsSync = TRUE
  RelayIsCausal = FALSE
SYMMETRY Symmetry
INVARIANTS
  StampsIdentifyEvents
PROPERTIES
  EchoChangesNothing
CHECK_DEADLOCK FALSE
