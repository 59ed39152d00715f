SPECIFICATION Spec
CONSTANTS
  Devices = {1, 2}
  Keys = {k1, k2}
  LeaseIds = {l1, l2}
  Identities = {i1}
  Threshold = 1
  Actors = {"reaper"}
  Faults = {"wipe"}
  MaxCrashes = 1
CHECK_DEADLOCK FALSE
INVARIANTS CleanHandover
