SPECIFICATION Spec
CONSTANTS
    Speeds <- MCSpeeds
    Commands <- OneCommand
    Pings <- OredPings
    Samples <- NoSamples
    Lines <- OpenLine
    Debug = TRUE
    Verbose = FALSE
    MaxSignals = 0
    NoPing = NoPing
    Garbage = Garbage
INVARIANTS OredStopStands
