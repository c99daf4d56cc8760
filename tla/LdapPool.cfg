CONSTANTS
    Fillers = {w1, w2}
    Callers = {a, b}
    Conns = {k1, k2, k3, k4, k5}
    Size = 2
    MaxTries = 2
    MaxOutages = 1
    MaxRefused = 1
    NoConn = NoConn
SPECIFICATION Spec
SYMMETRY Symmetry
INVARIANTS LdapPoolTypeOK SendsNeverBlock OneOwner PanicOnlyAtTheEnd
CHECK_DEADLOCK FALSE
