SPECIFICATION Spec
CONSTANTS
  Slices <- NoOperand
  Debug = FALSE
INVARIANT OperandsPresent
CHECK_DEADLOCK FALSE
