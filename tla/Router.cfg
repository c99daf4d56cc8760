SPECIFICATION FairSpec
CONSTANTS
    Nodes = {l, n1, n2}
    LocalNode = l
    Addrs = {a1, a2}
    NoAddr = NoAddr
    Cidrs = {c1}
    Absent = Absent
    Direct = Direct
    BufferSize = 1
    MaxUpdates = 3
    MaxFaults = 1
    MaxStarts = 2
INVARIANTS
    RouterTypeOK
    KernelTracked
    ErrorsExplained
    CaughtUp
    CleanExit
PROPERTY EventuallyFollows
CHECK_DEADLOCK FALSE
