SPECIFICATION ToolchainSpec
CONSTANTS
  NULL = NULL
  Tree <- MCTree
  Word <- MCWord
  WordsOf <- MCWordsOf
  TreeOf <- MCTreeOf
  Kept <- MCKept
  Simplified <- MCSimplified
  Sources <- MCSources
  Compilable <- MCCompilable
  Crashing <- MCCrashing
  PAGE = 8
  Piece = 20
INVARIANT
  ToolInv
PROPERTY
  ImplementsPipeline
