SPECIFICATION Spec
CONSTANTS
  Edits = {e1, e2}
  Latest = 2
  NoFile = NoFile
SYMMETRY Symmetry
INVARIANTS
  EditsHaveAWayBack
  LogMatchesDatabase
  BlockedProfileIsRestorable
  RollbackIsComplete
  FailedMigrationIsUndone
CHECK_DEADLOCK FALSE
