\* Two processes whose pool has one connection, so that one leak exhausts it.
CONSTANTS
    i1 = i1
    i2 = i2
    k1 = k1
    k2 = k2
    t1 = t1
    t2 = t2
    t3 = t3
    Inst = {i1, i2}
    Keys = {k1}
    Tx = {t1, t2}
    Home <- HomeTwo
    PoolSize = 1
    MaxTries = 2
    MaxOpen = 2
    MaxUpdates = 1
    MaxFaults = 1
    MaxRestarts = 0
    None = None
    Seed = Seed
    Same = Same
    NoSnap = NoSnap
SPECIFICATION FairSpec
PROPERTY
    EventsHandled
CHECK_DEADLOCK FALSE
