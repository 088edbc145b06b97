SPECIFICATION FairSpec
CONSTANTS
    p1 = p1
    p2 = p2
    p3 = p3
    PlanOrder <- MCPlans
    WaveField <- MCWaves
    Autonomous = {p1, p3}
    Symmetric = TRUE
    MayConflict = TRUE
    MaxCommits = 1
    MaxRuns = 2
    MaxCrashes = 1
INVARIANTS
    TypeOK
    AgentsKeepTheirWorktree
    PlansStartFromEarlierWaves
    OnlySuccessLandsOnce
    EndedRunsLeaveNoWorktree
    TotalsCountSkippedTwice
PROPERTIES
    RunsEnd
CHECK_DEADLOCK FALSE
