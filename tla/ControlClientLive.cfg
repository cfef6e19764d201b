SPECIFICATION FairSpec
CONSTANTS
    c1 = c1
    a1 = a1
    a2 = a2
    t1 = t1
    id1 = id1
    NoWorker = NoWorker
    Clients = {c1}
    Keys = {a1, a2, id1}
    Topics = {t1}
    Workers <- BusyWorkers
    Routes = {}
    ExternalServers = {a2}
    Destinations = {a2}
PROPERTIES JoinEnds ReceivedIsHandled QuitEndsIfAnswered
CHECK_DEADLOCK FALSE
