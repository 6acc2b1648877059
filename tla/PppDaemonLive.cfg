\* An active and a passive daemon, a peer that falls silent.
CONSTANTS
    IdMod = 1
    MaxConf = 1
    MaxTerm = 1
    MaxNak = 0
    MaxChal = 2
    Rechallenge = FALSE
    LcpFlagSets <- TwoModes
    AuthRequired = TRUE
    AuthProtocols = {"none", "CHAP"}
    EchoInterval = TRUE
    EchoFails = 1
    MaxPending = 1
SPECIFICATION LiveSpec
PROPERTIES SilentPeerNoticed
INVARIANTS
    ActiveListening
    PhaseNeedsLink
