SPECIFICATION Spec
CONSTANTS
  Commands = {c1, c2}
  Buffers = {b1, b2}
  Rows = {r1}
  Edits = {}
  Current = Current
  Arguments <- WholeBuffers
  MaxTick = 0
SYMMETRY Interchangeable
INVARIANTS
  OneWriterPerVersion
CHECK_DEADLOCK FALSE
