SPECIFICATION MintedSpec
CONSTANTS
    Procs = {p1, p2}
    MaxVersion = 2
    MaxEvals = 2
    MaxReviews = 0
    MaxLog = 1
    MaxCrashes = 0
    MaxFaults = 0
    RequireReview = FALSE
    Pins = {}
    Reruns = {}
    Rescreens = {2}
    ScreenRejects = {2}
INVARIANTS ServedIsCleared EvidenceMatches
SYMMETRY Symmetry
CHECK_DEADLOCK FALSE
