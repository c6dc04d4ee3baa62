SPECIFICATION FrontendSpec
CONSTANTS
  NULL = NULL
  Input <- FailedDefinition
  Environment <- MCEnvironment
INVARIANT
  OnlyWholeProgramsAccepted
CHECK_DEADLOCK FALSE
