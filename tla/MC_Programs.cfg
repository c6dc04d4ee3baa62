SPECIFICATION BackendSpec
CONSTANTS
  NULL = NULL
  Name <- MCName
  Node <- MCNode
  Program <- MCProgram
  MaxStack = 16
INVARIANTS
  JumpsLand
  ControlStaysInCode
  OperandsAreTemporaries
  LocalsAreInFrame
  ReturnsBalanced
  ImageHoldsProgram
  BackendInv
PROPERTIES
  ImplementsCallStack
