\* Two daemons, every pair of configurations, a lost packet and an LCP renegotiation.
CONSTANTS
    IdMod = 4
    MaxConf = 3
    MaxTerm = 1
    MaxNak = 3
    Addrs = {0, 1, 2, 3}
    MaxSlot = 1
    A = A
    B = B
    Ends <- MCEnds
    Confs <- MCConfs
    MaxLosses = 1
    MaxDowns = 1
    MaxWire = 3
SPECIFICATION LiveSpec
INVARIANTS
    TypeOK
    Agreement
PROPERTIES
    Settles
CHECK_DEADLOCK FALSE
