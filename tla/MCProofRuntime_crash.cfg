SPECIFICATION Spec
CONSTANTS
    None = None
    Files = {f1}
    Procs = {p1}
    TaskIds = {t1}
    Contents = {c1}
    Risks = {"repo_mutate"}
    Outcomes = {"pass", "fail"}
    Scripts = {"typecheck", "test"}
    Overlap = {}
    MaxCommands = 3
    MaxWorld = 0
    MaxCrashes = 1
INVARIANT
    ProofBelongsToRun
CHECK_DEADLOCK FALSE
