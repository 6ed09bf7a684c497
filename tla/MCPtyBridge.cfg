CONSTANTS
  BufSize = 2
  InCap = 1
  OutCap = 1
  MaxTyped = 2
  MaxWritten = 1
SPECIFICATION FairSpec
INVARIANTS TypeOK CarriedInOrder MasterClosedOnce LastWordsRead
PROPERTIES TermEndsLoop OutputMoves EndsWithContainer
CHECK_DEADLOCK FALSE
