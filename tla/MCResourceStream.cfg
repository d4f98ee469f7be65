SPECIFICATION StreamSpec
CONSTANTS
    Clusters = 2
    Types = 2
    Pages = 2
    ChanSize = 2
    WireSize = 1
    Requests <- Calls
CHECK_DEADLOCK FALSE

    
PROPERTY
    StreamEnds
