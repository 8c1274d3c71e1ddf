SPECIFICATION Spec
CONSTANTS
  Connections = {"mysql", "postgres"}
  Deployed = {0, 7}
  MaxInterrupts = 1
  MaxRollbacks = 4
  Workers = {w1, w2}
  OldOutputs = 2
  None = None
  MaxOutputs = 3
  MaxTime = 1
  MaxFaults = 1
INVARIANTS
  TypeOK
  LoggedIsApplied
  MigratedServesProgram
  RerunIsAccepted
  CleanRunClears
PROPERTIES
  PermanentOutputsStay
  NoOrphanOnImages
SYMMETRY Interchangeable
CHECK_DEADLOCK FALSE
