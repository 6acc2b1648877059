\* One automaton, any peer, callouts that do expire.
CONSTANTS
    IdMod = 4
    MaxConf = 3
    MaxTerm = 2
    MaxNak = 2
    MaxTimers = 3
    FlagSets <- MCFlagSets
SPECIFICATION LiveSpec
INVARIANTS
    TypeOK
    ActiveHasTimer
    UpMeansAgreed
    BoundedRetries
PROPERTIES GivesUp
