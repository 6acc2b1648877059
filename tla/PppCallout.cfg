\* Callouts: calm signals, or any signals at any time.
CONSTANTS
    Funcs = {f1, f2}
    MaxDelay = 4
    MaxQueue = 3
SPECIFICATION LiveSpec
INVARIANTS
    TypeOK
    AlarmArmed
PROPERTIES
    OnTime
    Drains
