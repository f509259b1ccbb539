\* The receive side of one session
SPECIFICATION RecvSpec
CONSTANTS
  Capacity = 6
  HeaderSize = 2
  Bodies <- MCBodies
  MaxReceived = 13
INVARIANTS
  BytesInOrder
  InSync
  RoomForMore
  NoPacketLeftBehind
\* a closed session, or a peer that has sent all it will, stops
CHECK_DEADLOCK FALSE
