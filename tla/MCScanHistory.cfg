SPECIFICATION Spec
CONSTANTS
    Scans = {1, 2}
    Regions = {east, west}
    Requests <- MixedScopes
    Resources <- DistinctIds
    Versions = {1}
    Clouds <- EastExists
    MaxChanges = 1
    MaxTime = 1
    MaxRunning = 2
    None = None
    east = east
    west = west
    acct = acct
    bucket = bucket
    queue = queue
CHECK_DEADLOCK FALSE
INVARIANTS
    WholeOrNothing
    CompleteScanSawEverything
    DriftIsTrue
