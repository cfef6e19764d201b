SPECIFICATION Spec
CONSTANTS
    Speeds <- MCSpeeds
    Commands <- OneCommand
    Pings <- StopPings
    Samples <- NoSamples
    Lines <- AnyLine
    Debug = FALSE
    Verbose = FALSE
    MaxSignals = 1
    NoPing = NoPing
    Garbage = Garbage
INVARIANTS NoSenderOnClosedLine
