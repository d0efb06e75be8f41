SPECIFICATION Spec
CONSTANTS
  Watches = {w1}
  Buffers = {b1}
  Events <- BothEvents
  MaxEvents = 1
  MaxDue = 1
INVARIANTS
  KeptWhileOpen
CHECK_DEADLOCK FALSE
