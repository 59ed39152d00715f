SPECIFICATION FairSpec
CONSTANTS
  Devices = {d1}
  Sizes = {thumb, full}
  Requests = {a1, r1, r2}
  Agents = {a1}
  MaxStreams = 1
  MaxInputs = 2
  MaxRequests = 3
  MaxUpsets = 2
  Mixes <- MCMixes
  Free = Free
  Empty = Empty
CHECK_DEADLOCK FALSE
INVARIANTS TypeOK FreshAfterInput StreamCap
PROPERTIES EveryRequestAnswered DumpsRecover
