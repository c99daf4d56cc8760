SPECIFICATION Spec
CONSTANTS
  k1 = k1
  k2 = k2
  v1 = v1
  v2 = v2
  v3 = v3
  p1 = p1
  p2 = p2
  Keys = {k1, k2}
  Versions = {v1, v2, v3}
  Procs = {p1, p2}
  None = None
  Size <- SizeOf
  Buckets <- Full
  Warm <- OneWarm
  Capacity = 5
  EntrySize = 1
  MaxCalls = 3
  MaxUids = 4
  MaxMishaps = 1
SYMMETRY Symmetry
CHECK_DEADLOCK FALSE
INVARIANTS
  EntriesAreFiles
  WithinCapacity
PROPERTY
  ImplementsObjectStore
