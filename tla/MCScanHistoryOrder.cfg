SPECIFICATION Spec
CONSTANTS
    Scans = {1, 2, 3}
    Regions = {east, west}
    Requests <- ScansOfEast
    Resources <- OneId
    Versions = {1, 2}
    Clouds <- EastExists
    MaxChanges = 1
    MaxTime = 1
    MaxRunning = 2
    None = None
    east = east
    west = west
    acct = acct
    bucket = bucket
    queue = queue
CHECK_DEADLOCK FALSE
INVARIANTS
    CountsAgreeWithDrift
