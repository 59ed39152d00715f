SPECIFICATION Spec
CONSTANTS
  Clients = {c1, c2}
  Rivals = {rival}
  Proxies = {"proxy"}
  Sources = {"rtsp"}
  Places = {"here"}
  Images = {i1, i2}
  Reasons = {"reset", "health"}
  Faults = {"run", "exec", "boot", "exit", "golden"}
  Restarts <- KeptOrSwitchedOn
  MaxRequests = 2
  MaxRestarts = 1
SYMMETRY SettingsSymmetry
CONSTRAINTS CalmStart CalmBase RivalsAlone BaseBound
CHECK_DEADLOCK FALSE
INVARIANTS TypeOK  NetworkStays TakenBaseIsComplete
PROPERTIES NoCollision
