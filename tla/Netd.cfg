SPECIFICATION Spec
CONSTANTS
  here = here
  there = there
  c1 = c1
  c2 = c2
  wide = wide
  theirs = theirs
  Nodes = {here, there}
  Keys = {theirs}
  Cidrs = {c1, c2, wide}
  Address <- AddressOf
  LocalNode = here
  InitialNodes <- FreshNode
  NodeValues <- TwoNodes
  Absent = Absent
  Unparsable = Unparsable
  NoKey = NoKey
  BufferSize = 1
  MaxChanges = 1
  MaxFaults = 1
  MaxStarts = 2
CHECK_DEADLOCK FALSE
INVARIANTS
  AgentsFollow
  KeyDurable
  RulesRemoved
