SPECIFICATION Spec
CONSTANTS
    Speeds <- MCSpeeds
    Commands <- MCCommands
    Pings <- QuitPings
    Samples <- NoSamples
    Lines <- OpenLine
    Debug = FALSE
    Verbose = FALSE
    MaxSignals = 0
    NoPing = NoPing
    Garbage = Garbage
INVARIANTS DrivesWholeCommands
