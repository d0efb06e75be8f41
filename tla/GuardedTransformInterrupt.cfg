SPECIFICATION LiveSpec
CONSTANTS
  Commands = {c1}
  Buffers = {b1, b2}
  Rows = {r1}
  Edits = {}
  Current = Current
  Arguments <- WholeBuffers
  MaxTick = 0
PROPERTIES
  InterruptPreventsApply
CHECK_DEADLOCK FALSE
