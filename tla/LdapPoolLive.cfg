CONSTANTS
    Fillers = {w1}
    Callers = {a, b}
    Conns = {k1, k2, k3}
    Size = 1
    MaxTries = 2
    MaxOutages = 1
    MaxRefused = 0
    NoConn = NoConn
SPECIFICATION FairSpec
PROPERTIES CallersServed FillersStop
CHECK_DEADLOCK FALSE
