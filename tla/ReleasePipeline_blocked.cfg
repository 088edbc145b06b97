SPECIFICATION Spec
CONSTANTS
    None = None
    Findings = {f1}
    MaxReleases = 2
INVARIANT
    BlockedReleaseHasFindings
CHECK_DEADLOCK FALSE
