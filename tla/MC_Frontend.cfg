SPECIFICATION FrontendSpec
CONSTANTS
  NULL = NULL
  Input <- MCInput
  Environment <- MCEnvironment
INVARIANTS
  WrittenTreesAreRead
  NothingLostUnreported
  EarlierDefinitionsKept
  HolesAreReported
  DerivativesCorrect
  TextKeepsTokens
  DecompiledTreesReadBack
CHECK_DEADLOCK FALSE
