SPECIFICATION Spec
CONSTANTS
    Installers = {i1, i2}
    Discoverers = {p1}
    Previous = Previous
    None = None
CHECK_DEADLOCK FALSE
SYMMETRY Symmetric
INVARIANTS
    LiveIsWhole
    ListedIsWhole
    FailuresAreUndone
PROPERTY
    NothingIsLost
