SPECIFICATION ExchangeSpec
CONSTANTS
  NULL = NULL
  Tree <- MCTree
  Word <- MCWord
INVARIANTS
  PrintedTreesAreRead
  CutFilesAreRefused
  EditedFilesAreChecked
CHECK_DEADLOCK FALSE
