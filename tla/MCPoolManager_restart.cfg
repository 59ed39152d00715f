SPECIFICATION FairSpec
CONSTANTS
  Devices = {1, 2}
  Keys = {k1}
  LeaseIds = {l1, l2}
  Identities = {i1}
  Threshold = 1
  Actors = {"reaper"}
  Faults = {}
  MaxCrashes = 1
CHECK_DEADLOCK FALSE
INVARIANTS LeasedMeansHeld
PROPERTIES PoolRecovers
