SPECIFICATION Spec
CONSTANTS
    Procs = {p1}
    MaxVersion = 2
    MaxEvals = 2
    MaxReviews = 0
    MaxLog = 1
    MaxCrashes = 1
    MaxFaults = 1
    RequireReview = FALSE
    Pins = {}
    Reruns = {1}
    Rescreens = {1, 2}
    ScreenRejects = {1, 2}
INVARIANT ChallengerIsTagged
PROPERTIES AbortUnseatsCandidate RollbackRestoresPromoted
CHECK_DEADLOCK FALSE
