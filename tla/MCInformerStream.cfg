SPECIFICATION Spec
CONSTANTS
    s1 = s1
    s2 = s2
    deployments = deployments
    roles = roles
    Streams = {s1, s2}
    Types = {deployments}
    Requests <- Watches
    ChanSize = 1
    Initial = 1
    MaxNotes <- OnlyFirstLists
    MaxStops = 1
    None = None
CHECK_DEADLOCK FALSE
INVARIANTS
    NothingLost
    SyncedMeansDelivered
    NothingLeftBehind
    StoppedMeansStopped
PROPERTIES
    OthersStayTracked
    StreamReturns
