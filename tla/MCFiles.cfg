SPECIFICATION Spec
CONSTANTS
  Paths <- MCPaths
  Trees <- MCTrees
  Calls <- MCCalls
  MaxFailures = 1
  MaxOthers = 1
  Objects = {o1, o2}
  Files = {f1, f2}
  NoFile = NoFile
  Bytes = {0, 1}
  MaxSize = 2
  Space = 2
SYMMETRY Symmetry
VIEW WithoutAnswers
CHECK_DEADLOCK FALSE
INVARIANTS
  StaysInside
  TrueMeansDone
PROPERTIES
  ImplementsByteFile
