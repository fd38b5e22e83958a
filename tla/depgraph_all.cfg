SPECIFICATION FairSpec
CONSTANTS
  Node = {a, b, c}
  NoNode = NoNode
  MaxAdds = 5
INVARIANTS
  SortedIsTopological
  CyclicIffCycle
  CountersExact
PROPERTIES
  ImplementsTopologicalSort
  SortAnswers
