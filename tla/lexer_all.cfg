SPECIFICATION FairSpec
CONSTANTS
  Texts <- AllTexts
  Debug = TRUE
INVARIANTS
  ReadsTokens
PROPERTY LexingEnds
CHECK_DEADLOCK FALSE
