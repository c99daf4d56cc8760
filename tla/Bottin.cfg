\* Two concurrent clients, every kind of request, two users and a group.
CONSTANTS
    base = base
    u1 = u1
    u2 = u2
    u3 = u3
    g = g
    ou = ou
    oux = oux
    x = x
    c1 = c1
    c2 = c2
    DN = {base, u1, u2, g}
    Base = base
    Parent <- FlatParent
    Depth <- FlatDepth
    Starts <- FlatStarts
    Clients = {c1, c2}
    Ops = {"add", "del", "modify", "passwd"}
    Directories <- FlatDirectories
    MaxOps = 2
    ChangeLists <- FlatChanges
    MaxFaults = 1
    MaxRestarts = 1
    NoEntry = NoEntry
SPECIFICATION Spec
INVARIANTS
    BottinTypeOK
    MirrorUnlessCaused
    TreeClosedUnlessRaced
CHECK_DEADLOCK FALSE
