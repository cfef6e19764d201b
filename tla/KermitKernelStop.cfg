SPECIFICATION FairSpec
CONSTANTS
    Speeds <- MCSpeeds
    Commands <- OneCommand
    Pings <- QuitPings
    Samples <- NoSamples
    Lines <- OpenLine
    Debug = FALSE
    Verbose = TRUE
    MaxSignals = 0
    NoPing = NoPing
    Garbage = Garbage
PROPERTIES StopReachesTeensy
