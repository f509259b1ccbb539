\* What the peer receives, when the buffer is compacted under a send
SPECIFICATION SendSpec
CONSTANTS
  Capacity = 5
  Lengths <- MCLengths
  MaxSent = 7
INVARIANT WireInOrder
CHECK_DEADLOCK FALSE
