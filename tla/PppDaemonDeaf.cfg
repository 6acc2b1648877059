\* All modes: does the daemon listen after an echo failure?
CONSTANTS
    IdMod = 1
    MaxConf = 1
    MaxTerm = 1
    MaxNak = 0
    MaxChal = 2
    Rechallenge = FALSE
    LcpFlagSets <- AllModes
    AuthRequired = TRUE
    AuthProtocols = {"none", "CHAP", "UPAP"}
    EchoInterval = TRUE
    EchoFails = 1
    MaxPending = 2
SPECIFICATION Spec
INVARIANTS AlwaysListening
