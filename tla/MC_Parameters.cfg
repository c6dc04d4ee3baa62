SPECIFICATION FairBackendSpec
CONSTANTS
  NULL = NULL
  Name <- Names
  Node <- ParameterNodes
  Program <- Parameters
  MaxStack = 12
INVARIANT
  ParametersAreVariables
