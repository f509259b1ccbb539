SPECIFICATION Spec
CONSTANTS
  Sessions = {s1, s2, s3}
  MaxSquad = 2
  MaxLogins = 1
  None = None
SYMMETRY Symmetry
INVARIANTS
  TypeOK
  NoCircularWait
