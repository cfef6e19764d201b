SPECIFICATION FairSpec
CONSTANTS
    Speeds <- MCSpeeds
    Commands <- OneCommand
    Pings <- StopPings
    Samples <- NoSamples
    Lines <- AnyLine
    Debug = FALSE
    Verbose = FALSE
    MaxSignals = 2
    NoPing = NoPing
    Garbage = Garbage
INVARIANTS SerialLineKept
PROPERTIES QuitEnds
