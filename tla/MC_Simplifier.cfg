SPECIFICATION SimplifierSpec
CONSTANTS
  NULL = NULL
  Source <- MCSource
  Environment <- MCEnvironment
INVARIANTS
  ValuesKept
  RejectsOnlyHopeless
  CallsKept
CHECK_DEADLOCK FALSE
