SPECIFICATION Spec
CONSTANTS
  Var = {x}
  NoVar = NoVar
  Ops = {"fn", "loop", "block", "tce", "bad_tce", "end", "import", "var", "use", "break", "return"}
  MaxItems = 7
INVARIANTS
  ScopesExact
  AcceptsIffLegal
  ResolvesLexically
  ScopesEnclose
  EveryTestFailed
  
CHECK_DEADLOCK FALSE
