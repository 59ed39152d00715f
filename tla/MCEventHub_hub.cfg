SPECIFICATION FairSpec
CONSTANTS
  Writers = {w1}
  Cap = 1
  MaxStreams = 2
  MaxWrites = 2
CHECK_DEADLOCK FALSE
INVARIANTS TypeOK NeverSendsOnClosed NothingMissed
PROPERTIES GoneStreamsEnd PageCatchesUp
