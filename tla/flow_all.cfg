SPECIFICATION Spec
CONSTANTS
  Op = {"stmt", "return", "break", "continue", "if", "elif", "else", "while", "for", "end"}
  MaxItems = 5
INVARIANTS
  MalformedIsExplained
  InsertAtHome
PROPERTY ImplementsStructuredRun
CHECK_DEADLOCK FALSE
