SPECIFICATION FairSpec
CONSTANTS
  Slices <- AllSlices
  Debug = TRUE
INVARIANTS
  AcceptsLegal
  QualifiersExact
  FollowsPrecedence
  NothingLost
  AcceptedNests
PROPERTY ParsingEnds
CHECK_DEADLOCK FALSE
