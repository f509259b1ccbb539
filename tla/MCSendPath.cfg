\* The send side of one session
SPECIFICATION SendFairSpec
CONSTANTS
  Capacity = 5
  Lengths <- MCLengths
  MaxSent = 7
INVARIANTS
  BacklogInOrder
  NothingStranded
  OverflowOnlyWhenFull
PROPERTY EveryByteSent
\* all the bytes may have been sent, and a closed session stops
CHECK_DEADLOCK FALSE
