SPECIFICATION ImportSpec
CONSTANTS
  l1 = l1
  l2 = l2
  l3 = l3
  Links = {l1, l2, l3}
  Boards = {"b1", "b2"}
  BoardsOf <- LinkBoards
  NoLink = NoLink
  NoId = NoId
  NoPlan = NoPlan
  Files <- MCFiles
  LinkFiles <- MCLinkFiles
  Grants <- MCGrants
  WebPlans <- MCWebPlans
INVARIANTS
  LinkedProfileHasItsSecrets
  RejectedLinkLeavesNothing
  ValidGraphsFit
  ImportedBoardsAreWhole
  ExportReimports
PROPERTY LinkedOnlyWhenEmpty
CHECK_DEADLOCK FALSE
