SPECIFICATION FairSpec
CONSTANTS
  Devices = {d1, d2}
  Ports = 3
  MaxDevices = 1
  Faults = {"push", "die"}
  MaxSessions = 3
  MaxExits = 1
  FirstDevice = d1
CHECK_DEADLOCK FALSE
CONSTRAINT ChoicesBound
INVARIANTS TypeOK OwnerServed SoleServer OwnPicture NothingLeft
PROPERTIES TakenOverEnds
