SPECIFICATION LiveSpec
CONSTANTS
  Capacity = 2
  MaxMessages = 4
INVARIANTS
  OverflowAfterQueue
  DropLeavesNothing
PROPERTIES
  ImplementsFeed
  DropCompletes
  InterruptEndsPull
  OverflowReported
  HangupEndsStream
