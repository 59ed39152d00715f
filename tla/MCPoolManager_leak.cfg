SPECIFICATION FairSpec
CONSTANTS
  Devices = {1}
  Keys = {k1}
  LeaseIds = {l1}
  Identities = {i1}
  Threshold = 1
  Actors = {"health"}
  Faults = {}
  MaxCrashes = 0
CHECK_DEADLOCK FALSE
PROPERTIES GivenBackReturns
