SPECIFICATION RulesSpec
CONSTANTS
  NULL = NULL
  Name <- MCName
  Node <- MCNode
  Program <- MCProgram
INVARIANTS
  ScopesMatchWalk
  VisibleSlotsDistinct
  LocalsInsideFrame
  IInv
  CodeInv
  RegionInv
  RulesInv
  PatchStackMatchesWalk
  ControlFlowClosed
PROPERTIES
  EmittedCodeIsStable
  ImplementsVerdict
