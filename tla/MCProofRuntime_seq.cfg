SPECIFICATION FairSpec
CONSTANTS
    None = None
    Files = {f1}
    Procs = {p1}
    TaskIds = {t1}
    Contents = {c1}
    Risks = {"repo_mutate", "read_only"}
    Outcomes = {"pass", "fail"}
    Scripts = {"typecheck", "test"}
    Overlap = {}
    MaxCommands = 3
    MaxWorld = 1
    MaxCrashes = 1
INVARIANTS
    TypeOK
PROPERTIES
    MarkedOnlyWhenProven
    ShipFromDone
    EveryRunGetsVerdict
    ImplementsContract
CHECK_DEADLOCK FALSE
