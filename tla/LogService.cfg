SPECIFICATION FairSpec
CONSTANTS
  r1 = r1
  e1 = e1
  e2 = e2
  Requests = {r1}
  EventsOf <- Two
  Capacity = 1
  MaxLines = 1
  MaxSize = 2
  Wrap = 100
  MaxFaults = 1
  MaxSeconds = 1
CHECK_DEADLOCK FALSE
INVARIANTS
  NothingLost
PROPERTIES
  LinesReachDisk
  ProcessReturns
