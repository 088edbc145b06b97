SPECIFICATION Spec
CONSTANTS
    Sessions = {s1, s2}
    None = None
    NoLock = NoLock
    Torn = Torn
    InitialRoadmap <- MCOne
    FromArgs = {None, 200}
    StatePhases = {None}
    InsertAfter = {}
    HistoryLimit = 4
    MaxConsecutive = 2
    MaxEdits = 1
    MaxTimeouts = 1
    MaxCrashes = 1
    Overlap = FALSE
INVARIANTS
    TypeOK
    NoStepRacesItself
    FailureStreakIsBounded
    ResumeCoversTheInterrupted
    LockMeansLiveOrCrashed
    RoadmapIsFinished
PROPERTIES
    CompletedMeansEveryStep
    PhasesAscend
SYMMETRY Symmetry
CHECK_DEADLOCK FALSE
