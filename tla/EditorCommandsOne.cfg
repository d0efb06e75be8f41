SPECIFICATION LiveSpec
CONSTANTS
  Commands = {c1}
  Buffers = {b1, b2, b3}
  Listed = {b1, b2}
  Windows = {w1, w2}
  None = None
  Arguments <- AllArguments
  MaxUser = 2
INVARIANTS
  AnswersAgree
  FreshRecord
  ReportsOnTarget
  EndsInFocus
PROPERTIES
  CommandEnds
CHECK_DEADLOCK FALSE
