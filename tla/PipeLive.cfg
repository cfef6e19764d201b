SPECIFICATION FairSpec
CONSTANTS
    a = a
    b = b
    main = main
    other = other
    NoThread = NoThread
    Proxies <- MCProxies
    PubSub = {a}
    Callers <- MCCallers
    Signals = {0, 1, 2, 3, 4}
    MaxMessages = 1
    MaxCalls = 1
    Main = main
    Owned = {a}
    MaxInterrupts = 1
CHECK_DEADLOCK FALSE
PROPERTIES StoppedLoopsEnd PipeStops
