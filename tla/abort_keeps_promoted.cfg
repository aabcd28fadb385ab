SPECIFICATION Spec
CONSTANTS
    Procs = {p1}
    MaxVersion = 1
    MaxEvals = 1
    MaxReviews = 1
    MaxLog = 1
    MaxCrashes = 0
    MaxFaults = 1
    RequireReview = FALSE
    Pins = {}
    Reruns = {}
    Rescreens = {}
    ScreenRejects = {}
INVARIANT AbortLeavesPending
CHECK_DEADLOCK FALSE
