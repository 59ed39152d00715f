SPECIFICATION FairSpec
CONSTANTS
  Devices = {1, 2}
  k1 = k1
  k2 = k2
  Keys <- MCKeys
  LeaseIds = {l1, l2}
  p1 = p1
  p2 = p2
  Places <- MCPlaces
  KeyOf <- MCKeyOf
  Setups <- MCSetups
  NoLease = NoLease
  NoDevice = NoDevice
CHECK_DEADLOCK FALSE
INVARIANTS TypeOK NoForgottenLease RecordNotMixed SharedIsSeen
PROPERTIES LeavingEnds
