SPECIFICATION FairSpec
CONSTANTS
  Devices = {1, 2}
  Keys = {k1, k2}
  LeaseIds = {l1, l2, l3}
  Clients = {c1}
  TTLs = {0}
  DefaultTTL = 2
  MaxTTL = 2
  IdleTimeout = 0
  MaxLifetime = 2
  AdmitTimeout = 1
  MaxTime = 3
  ClaimHorizon = 1
  WrittenStates = {}
CHECK_DEADLOCK FALSE
PROPERTIES EveryLeaseEnds
