SPECIFICATION Spec
CONSTANTS
  Launches = {p1, p2, p3}
  Nobody = Nobody
  MaxLinks = 2
  MaxDatagrams = 1
INVARIANTS
  InstanceTypeOK
  OneWriter
PROPERTIES
  OnlyAPredecessorTakesTheSocket
  LinksKeepTheirOrder
  RefusedLaunchesEnd
CHECK_DEADLOCK FALSE
