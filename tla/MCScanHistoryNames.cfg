SPECIFICATION Spec
CONSTANTS
    Scans = {1}
    Regions = {east, west}
    Requests <- WholeScans
    Resources <- SharedName
    Versions = {1}
    Clouds <- AnyCloud
    MaxChanges = 1
    MaxTime = 0
    MaxRunning = 1
    None = None
    east = east
    west = west
    acct = acct
    bucket = bucket
    queue = queue
CHECK_DEADLOCK FALSE
INVARIANTS
    CompleteScanSawEverything
