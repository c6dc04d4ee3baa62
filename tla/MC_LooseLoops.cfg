SPECIFICATION FairBackendSpec
CONSTANTS
  NULL = NULL
  Name <- Names
  Node <- LoopNodes
  Program <- LooseLoops
  MaxStack = 12
INVARIANT
  CallValuesDiscarded
