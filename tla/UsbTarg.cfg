\* A target channel, its host, its application and its TCD.  One request for each
\* way in which parseSetupPacket handles them.
CONSTANTS
    Sent = {"CLEAR_FEATURE", "SET_CONFIGURATION", "GET_DESCRIPTOR", "SET_ADDRESS",
            "VENDOR", "SHORT"}
    MaxFaults = 1
    MaxErrors = 1
    MaxGiveUps = 1
    MaxPacket = 2
    MaxLen = 1
    MaxMoved = 2
SPECIFICATION LiveSpec
INVARIANTS
    TypeOK
    Responsive
    OnePhase
    ToggleInSync
PROPERTIES
    Answered
    DestroyReturns
\* destroyPipe may wait for ever for a callback that waits for its mutex.
CHECK_DEADLOCK FALSE
