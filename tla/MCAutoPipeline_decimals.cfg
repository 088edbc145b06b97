SPECIFICATION Spec
CONSTANTS
    Sessions = {s1}
    None = None
    NoLock = NoLock
    Torn = Torn
    InitialRoadmap <- MCDecimals
    FromArgs = {None, 110}
    StatePhases = {None, 100}
    InsertAfter = {1}
    HistoryLimit = 20
    MaxConsecutive = 3
    MaxEdits = 1
    MaxTimeouts = 0
    MaxCrashes = 0
    Overlap = FALSE
INVARIANT
    RoadmapIsFinished
CHECK_DEADLOCK FALSE
