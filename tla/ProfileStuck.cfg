SPECIFICATION Spec
CONSTANTS
  Edits = {e1, e2}
  Latest = 2
  NoFile = NoFile
SYMMETRY Symmetry
INVARIANTS
  BlockedProfileHasAPoint
CHECK_DEADLOCK FALSE
