\* Accounts, grids and tickets under failing statements and crashes
SPECIFICATION Spec
CONSTANTS
  Accounts = {a1, a2}
  Sessions = {s1}
  i1 = i1
  i2 = i2
  i3 = i3
  n1 = n1
  n2 = n2
  Grids <- MCGrids
  Tickets = {t1}
  Stashes = {n1, n2}
  Lifetime = 1
  MaxTime = 1
  MaxSaved = 1
  Spawn = Spawn
  Elsewhere = Elsewhere
  None = None
SYMMETRY Alike
INVARIANTS
  GridWhole
  TicketOnce
  ProgressIsOwn
