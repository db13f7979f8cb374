SPECIFICATION Spec

CONSTANTS
  r1 = r1
  r2 = r2
  Requests = {r1, r2}
  IdleTimeout = 4
  CheckInterval = 2

INVARIANTS
  LoadDrains
