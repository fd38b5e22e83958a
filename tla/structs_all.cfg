SPECIFICATION Spec
CONSTANT Programs <- AllPrograms
INVARIANTS
  CyclesAreReported
  ErrorsJustified
  AllResolved
  HeldAreComplete
CHECK_DEADLOCK FALSE
