SPECIFICATION Spec
CONSTANTS
    c1 = c1
    c2 = c2
    prod = prod
    dev = dev
    bucket = bucket
    Scans <- MCScans
    Scopes = {prod, dev}
    Controls = {c1, c2}
    Queries <- TwoControls
    Resources = {bucket}
    RowControl <- OwnControl
    MaxRows = 1
    Evaluations = {e1, e2, e3}
    Suppressions = {s1, s2}
    None = None
    e1 = e1
    e2 = e2
    e3 = e3
    s1 = s1
    s2 = s2
SYMMETRY Symmetric
INVARIANTS
    FindingsHaveEvidence
    SeenByLatestIsOpen
    InOrderEvaluationIsExact
PROPERTIES
    OnlyObservedFindingsChange
    LastSeenNeverGoesBack
    UnsuppressRestores
