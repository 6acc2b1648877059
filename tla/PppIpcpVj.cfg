\* Two daemons, one of them configured with no_vjccomp.
CONSTANTS
    IdMod = 4
    MaxConf = 3
    MaxTerm = 1
    MaxNak = 3
    Addrs = {0, 1, 2, 3}
    MaxSlot = 1
    A = A
    B = B
    Ends <- MCEnds
    Confs <- VjConfs
    MaxLosses = 1
    MaxDowns = 1
    MaxWire = 3
SPECIFICATION Spec
INVARIANTS
    NoVjccomp
CHECK_DEADLOCK FALSE
