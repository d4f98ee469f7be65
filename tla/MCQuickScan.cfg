SPECIFICATION Spec
CONSTANTS
    Enabled <- ThreeProviders
    MaxFound = 1
    MaxRequests = 2
CHECK_DEADLOCK FALSE
INVARIANTS
    OneProviderInFlight
    AnnouncedRoundsAreExact
PROPERTY
    QuickScanEnds
