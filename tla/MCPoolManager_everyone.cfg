SPECIFICATION Spec
CONSTANTS
  Devices = {1}
  Keys = {k1, k2}
  LeaseIds = {l1, l2}
  Identities = {i1}
  Threshold = 1
  Actors = {"health", "identity"}
  Faults = {}
  MaxCrashes = 0
CHECK_DEADLOCK FALSE
SYMMETRY Symmetry
PROPERTIES ImplementsAllocator
