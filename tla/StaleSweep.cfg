SPECIFICATION Spec
CONSTANTS
  HeartbeatInterval = 2
  StaleProcessingTimeout = 7
  SweepPeriod = 3
  WriteLatency = 1
  MaxTime = 19
INVARIANTS
  RecoveredInTime
PROPERTIES
  OnlyTheSilentAreSwept
CHECK_DEADLOCK FALSE
