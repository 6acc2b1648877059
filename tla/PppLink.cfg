\* Two daemons, a good line or one that loses packets.
CONSTANTS
    IdMod = 3
    MaxConf = 2
    MaxTerm = 1
    MaxNak = 2
    Magics = {0, 1}
    Chars = {"x"}
    MinMru = 2
    DefMru = 3
    A = A
    B = B
    Ends <- MCEnds
    Want <- MCWant
    Allow <- MCAllow
    Prompt = TRUE
    MaxKills = 1
    MaxWire = 2
SPECIFICATION LiveSpec
INVARIANTS
    Agreement
    MagicDiffers
PROPERTIES
    Connects
    NoGivingUp
CHECK_DEADLOCK FALSE
