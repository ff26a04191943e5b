SPECIFICATION Spec
CONSTANTS
  Ids = {b1, b2, b3}
  Requests = {r1, r2}
  MaxActive = 2
  Ttl = 1
  MaxRead = 0
  None = None
SYMMETRY Symmetry
INVARIANTS ActiveWithinLimit TakenOffVanishes
