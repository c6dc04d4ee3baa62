SPECIFICATION ProcessorSpec
CONSTANTS
  NULL = NULL
  Name <- MCName
  Node <- MCNode
  Program <- MCProgram
  MaxStack = 40
  Input <- MCInput
PROPERTIES
  ComputesMeaning
