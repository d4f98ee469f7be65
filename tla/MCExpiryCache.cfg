SPECIFICATION Spec
CONSTANTS
    Keys = {k1, k2, k3}
    TTLs = {0, 1}
    EntriesMax = 2
    MaxTime = 2
    MaxWrites = 6
    MaxDeletes = 1
SYMMETRY Symmetric
INVARIANTS
    IndexCoversEntries
    BoundsHold
PROPERTY
    EvictionIsFair
