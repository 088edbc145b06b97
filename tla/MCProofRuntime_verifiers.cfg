SPECIFICATION Spec
CONSTANTS
    None = None
    Files = {f1}
    Procs = {p1, p2}
    TaskIds = {t1}
    Contents = {c1}
    Outcomes = {"pass", "blocked"}
    Risks = {"repo_mutate"}
    Scripts = {"typecheck", "test"}
    Overlap = {"verify", "ship"}
    MaxCommands = 3
    MaxWorld = 1
    MaxCrashes = 1
SYMMETRY Symmetry
INVARIANTS
    DoneHasProof
    EvidenceCoherent
    ProofBelongsToRunUnlessCrashed
CHECK_DEADLOCK FALSE
