SPECIFICATION Spec
CONSTANTS
    None = None
    Files = {f1}
    Procs = {p1, p2}
    TaskIds = {t1}
    Contents = {c1}
    Outcomes = {"pass", "fail"}
    Risks = {"repo_mutate"}
    Scripts = {"typecheck", "test"}
    Overlap = {"do", "verify", "ship"}
    MaxCommands = 3
    MaxWorld = 0
    MaxCrashes = 0
SYMMETRY Symmetry
INVARIANTS
    DoneHasProof
CHECK_DEADLOCK FALSE
