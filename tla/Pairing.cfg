SPECIFICATION PairSpec
CONSTANTS
  s1 = s1
  s2 = s2
  b = b
  Sessions = {s1, s2}
  Links = {s1, s2}
  Boards = {b}
  BoardsOf <- OneBoard
  MaxAttempts = 1
  None = None
  NoLink = NoLink
SYMMETRY Symmetry
INVARIANTS
  NoLinkWithoutBridge
  CompletedMeansLinked
CHECK_DEADLOCK FALSE
