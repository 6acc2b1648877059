\* Active mode: does authentication come before IP?
CONSTANTS
    IdMod = 1
    MaxConf = 1
    MaxTerm = 1
    MaxNak = 0
    MaxChal = 2
    Rechallenge = FALSE
    LcpFlagSets <- Active
    AuthRequired = TRUE
    AuthProtocols = {"none", "CHAP", "UPAP"}
    EchoInterval = TRUE
    EchoFails = 1
    MaxPending = 2
SPECIFICATION Spec
INVARIANTS AuthBeforeIp
