SPECIFICATION FairSpec
CONSTANTS
  c1 = c1
  Conns <- OneConn
  MaxRequests = 2
  MaxEntries = 1
  ReadTimeout = FALSE
  WriteTimeout = TRUE
CHECK_DEADLOCK FALSE
INVARIANTS
  AnsweredInOrder
  GracefulUnlessUncounted
PROPERTY
  ConnectionsEnd
