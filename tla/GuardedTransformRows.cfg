SPECIFICATION LiveSpec
CONSTANTS
  Commands = {c1}
  Buffers = {b1, b2}
  Rows = {r1, r2}
  Edits = {e1}
  Current = Current
  Arguments <- AnyArguments
  MaxTick = 2
INVARIANTS
  OnTarget
  OnlyGoodResults
  Truthful
PROPERTIES
  NoLostUpdate
  CommandEnds
  EarlyInterruptPreventsApply
CHECK_DEADLOCK FALSE
