SPECIFICATION LiveSpec
CONSTANTS
  Timeout = 2
  MaxId = 3
  MaxCalls = 4
  MaxNotes = 3
INVARIANTS
  ConnectIsBounded
  AnswersThisCall
  IdentifiersDiffer
  NotesAreKept
PROPERTIES
  EachReturns
  LateConnectionCloses
CHECK_DEADLOCK FALSE
