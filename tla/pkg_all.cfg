SPECIFICATION FairSpec
CONSTANTS
  File = {"a", "a2", "b", "c"}
  Name = {"a", "b", "c", "z"}
  NoName = NoName
  Trees <- AllTrees
INVARIANTS
  CyclicIffImportCycle
  FailureIsJustified
  StatusIsStack
  ImportsVisible
  OneObjectPerPackage
  CompiledAreChecked
PROPERTY AnalysisEnds
CHECK_DEADLOCK FALSE
