SPECIFICATION Spec
CONSTANTS
  Unset = Unset
  Garbage = Garbage
  Nil = Nil
  Inputs <- MCInputs
INVARIANTS
  TypeOK
  OutputsDoNotCollide
  BoxIsRespected
  NeverEnlarged
  LimitsHold
  FailsClosed
PROPERTIES
  AdmissibleIsServed
CHECK_DEADLOCK FALSE
