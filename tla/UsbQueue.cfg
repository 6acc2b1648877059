\* A ring of two slots, two writers and two readers.
CONSTANTS
    Producers = {p1, p2}
    Consumers = {c1, c2}
    Depth = 2
    MaxPuts = 2
    NoTask = NoTask
    NoMsg = NoMsg
SPECIFICATION LiveSpec
INVARIANTS TypeOK
PROPERTIES
    IsFifo
    Delivered
    PutReturns
CHECK_DEADLOCK FALSE
