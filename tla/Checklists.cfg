SPECIFICATION Spec
CONSTANTS
  c = c
  l = l
  i = i
  Replicas = {1, 2, 3}
  Natives = {1, 2}
  Cards = {c}
  Lists = {l}
  Items = {i}
  Parent <- MCParent
  Board = Board
  SnapshotParts = {c, l, i}
  Worlds <- MCWorlds
  MaxBatch = 1
INVARIANTS
  NoOrphans
  NothingLeavesAnonymously
  ChangesHaveTheirOwnStamps
  PartsConverge
  PartTombIsNewestDelete
  NewestMarkWins
PROPERTIES
  DeletedPartsStayDeleted
  LocalMarksSurvive
CHECK_DEADLOCK FALSE
