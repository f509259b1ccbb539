SPECIFICATION FairSpec
CONSTANTS
  Sessions = {s1, s2, s3}
  MaxSquad = 2
  Window = 1
  MaxAuth = 1
  MaxRooms = 3
  None = None
INVARIANTS
  GoneNowhere
PROPERTIES
  EventuallyMatched
  RoomsReclaimed
  ImplementsSquads
\* all the sessions may have gone
CHECK_DEADLOCK FALSE
