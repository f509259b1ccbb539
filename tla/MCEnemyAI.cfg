SPECIFICATION Spec
CONSTANTS
  Boxes <- MCBoxes
  Margin = 5
  CellSize = 4
  AgentRadius = 1
  MaxExpansions = 40
  CellCost = 5
  DiagonalCost = 7
  Enemies = {e1,e2}
  Players = {p1,p2}
  Records <- MCRecords
  Posts <- MCPosts
  Spawn <- MCSpawn
  Deltas = {2}
  AttackRange = 4
  AttackCooldown = 3
  Windup = 3
  ArrivalRadius = 2
  RepathCooldown = 3
  RepathMove = 8
  CallRadius = 8
  CallCooldown = 3
  None = None
  MaxEvents = 2
INVARIANTS
  TypeOK
  PathClear
  PathShortest
PROPERTIES
  FairFight
  ChaseEnds
