SPECIFICATION FrontendSpec
CONSTANTS
  NULL = NULL
  Input <- LostOperator
  Environment <- MCEnvironment
INVARIANT
  CodeMadeOfTreesReadsBack
CHECK_DEADLOCK FALSE
