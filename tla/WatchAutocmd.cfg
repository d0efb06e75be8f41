SPECIFICATION LiveSpec
CONSTANTS
  Watches = {w1, w2}
  Buffers = {b1}
  Events <- BothEvents
  MaxEvents = 2
  MaxDue = 2
INVARIANTS
  TimerClosedOnce
  KeptUntilHeard
  DetachThenClose
  WipeEndsUnheard
PROPERTIES
  NothingStays
CHECK_DEADLOCK FALSE
