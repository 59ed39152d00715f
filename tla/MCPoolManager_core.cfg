SPECIFICATION Spec
CONSTANTS
  Devices = {1, 2}
  Keys = {k1, k2}
  LeaseIds = {l1, l2, l3, l4}
  Identities = {i1}
  Threshold = 1
  Actors = {"reaper"}
  Faults = {"remove", "wipe", "create", "boot", "list", "hang", "exit"}
  MaxCrashes = 0
CHECK_DEADLOCK FALSE
SYMMETRY Symmetry
INVARIANTS TypeOK CleanHandover ExclusiveRebuild TablesAgree
PROPERTIES LegalTransitions
