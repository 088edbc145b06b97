SPECIFICATION Spec
CONSTANTS
    Hooks = {h1, h2}
    Ids = {i1, i2, i3}
    Keys = {k1}
    Torn = Torn
    Never = Never
    QueueTTL = 1
    SuppressFor = 2
    MaxQueueItems = 2
    MaxVisible = 2
    MaxTime = 2
    MaxStarts = 4
    MaxCrashes = 1
INVARIANTS
    TypeOK
    ActiveItemsAreDistinct
    OldestPendingFirst
    SurfacedItemsWereShown
    NoiseStaysWithinBudget
PROPERTIES
    CapDropsFinishedFirst
SYMMETRY Symmetry
CHECK_DEADLOCK FALSE
