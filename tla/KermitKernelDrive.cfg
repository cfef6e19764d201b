SPECIFICATION Spec
CONSTANTS
    Speeds <- MCSpeeds
    Commands <- OneCommand
    Pings <- DrivePings
    Samples <- OneSample
    Lines <- AnyLine
    Debug = FALSE
    Verbose = TRUE
    MaxSignals = 0
    NoPing = NoPing
    Garbage = Garbage
INVARIANTS TypeOK StopStands StopWithinOneFrame
PROPERTIES MovesOnlyWithLeave
