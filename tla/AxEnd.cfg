\* The Ethernet driver: senders, the interrupt task, start and stop.
CONSTANTS
    TxPages = 3
    MaxNeed = 2
    TxQueue = 2
    RxFrames = 2
    MaxSem = 1
    Patient = TRUE
SPECIFICATION LiveSpec
INVARIANTS
    TypeOK
    NoOverwrite
PROPERTIES
    Served
    Unblocks
    TaskEnds
