CONSTANTS
  Name = {f, g}
  NoDecl = NoDecl
  MaxDepth = 5
  Programs <- ProgramsDef
SPECIFICATION Spec
CHECK_DEADLOCK FALSE
INVARIANT NamesMeanNearest
INVARIANT DeclaredFirstIsWhole
INVARIANT OverflowsIffRecursive
INVARIANT LinksToCallee
