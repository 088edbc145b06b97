SPECIFICATION Spec
CONSTANTS
    p1 = p1
    p2 = p2
    p3 = p3
    PlanOrder <- MCPlans
    WaveField <- MCWaves
    Autonomous = {p1, p2, p3}
    Symmetric = TRUE
    MayConflict = FALSE
    MaxCommits = 1
    MaxRuns = 1
    MaxCrashes = 0
INVARIANT
    CompletedPlansLand
CHECK_DEADLOCK FALSE
