\* A room, its roster, its world and its leavers
SPECIFICATION Spec
CONSTANTS
  Players = {p1, p2}
  ClearOrder <- MCClearOrder
  Enemies = {e1}
  MaxResync = 1
  None = None
SYMMETRY AnyPlayer
INVARIANTS
  TypeOK
  EveryoneSeen
  FreshWorld
  OwnerPresent
\* everybody may have left
CHECK_DEADLOCK FALSE
