SPECIFICATION Spec
CONSTANTS
  Replicas = {1, 2}
  Cards = {c1}
  Columns = {k1}
  Ranks = {p1}
  NoRow = NoRow
  BoardColumns = {k1}
  PastClocks = {1}
  MaxClock = 3
  MaxBatch = 1
  PlannerOverlapsSync = TRUE
  RelayIsCausal = FALSE
INVARIANTS
  TombstoneIsNewestDelete
  LamportFloor
PROPERTIES
  DeletedStaysDeleted
  ImplementsLifecycle
CHECK_DEADLOCK FALSE
