\* The daemon, all modes, any peer.
CONSTANTS
    IdMod = 1
    MaxConf = 1
    MaxTerm = 1
    MaxNak = 0
    MaxChal = 1
    Rechallenge = TRUE
    LcpFlagSets <- AllModes
    AuthRequired = TRUE
    AuthProtocols = {"none", "CHAP", "UPAP"}
    EchoInterval = TRUE
    EchoFails = 1
    MaxPending = 2
SPECIFICATION Spec
INVARIANTS
    TypeOK
    InterfaceNeedsLink
    NetworkIsAuthenticated
    EchoTimerTracked
    ChallengeTracked
