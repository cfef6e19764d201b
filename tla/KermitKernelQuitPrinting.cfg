SPECIFICATION FairSpec
CONSTANTS
    Speeds <- MCSpeeds
    Commands <- OneCommand
    Pings <- StopPings
    Samples <- NoSamples
    Lines <- OpenLine
    Debug = FALSE
    Verbose = TRUE
    MaxSignals = 1
    NoPing = NoPing
    Garbage = Garbage
PROPERTIES QuitEnds
CHECK_DEADLOCK FALSE
