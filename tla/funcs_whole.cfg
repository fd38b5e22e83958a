CONSTANTS
  Name = {f, g}
  NoDecl = NoDecl
  MaxDepth = 5
  Programs <- TwoFiles
SPECIFICATION Spec
CHECK_DEADLOCK FALSE
INVARIANT ModulesAreWhole
