SPECIFICATION Spec
CONSTANTS
  Devices = {1, 2}
  Keys = {k1, k2}
  LeaseIds = {l1, l2}
  Clients = {c1, c2}
  TTLs = {0, 2}
  DefaultTTL = 5
  MaxTTL = 3
  IdleTimeout = 3
  MaxLifetime = 3
  AdmitTimeout = 1
  MaxTime = 4
  ClaimHorizon = 1
  WrittenStates = {"ready"}
CHECK_DEADLOCK FALSE
SYMMETRY Symmetry
INVARIANTS TypeOK Exclusive
PROPERTIES ReleasedForGood ImplementsAllocator NoEarlyReap
