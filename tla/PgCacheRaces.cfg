\* Two processes, two concurrent transactions on one key.
CONSTANTS
    i1 = i1
    i2 = i2
    k1 = k1
    k2 = k2
    t1 = t1
    t2 = t2
    t3 = t3
    Inst = {i1, i2}
    Keys = {k1}
    Tx = {t1, t2}
    Home <- HomeTwo
    PoolSize = 2
    MaxTries = 2
    MaxOpen = 2
    MaxUpdates = 2
    MaxFaults = 1
    MaxRestarts = 1
    None = None
    Seed = Seed
    Same = Same
    NoSnap = NoSnap
SPECIFICATION Spec
INVARIANTS
    TypeOK
    AgreeUnlessRaced
    CommittedOnly
CHECK_DEADLOCK FALSE
