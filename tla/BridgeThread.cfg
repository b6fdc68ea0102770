SPECIFICATION BridgeSpec
CONSTANTS
  Sessions = {s1, s2}
  MaxAttempts = 2
  None = None
INVARIANTS
  CapabilityIsOneTime
  OneBridgeAtATime
  StoppedBridgeIsQuiet
PROPERTY EveryBridgeCloses
CHECK_DEADLOCK FALSE
