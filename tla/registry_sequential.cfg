SPECIFICATION LiveSpec
CONSTANTS
    Procs = {p1}
    MaxVersion = 2
    MaxEvals = 2
    MaxReviews = 1
    MaxLog = 2
    MaxCrashes = 0
    MaxFaults = 0
    RequireReview = TRUE
    Pins = {1}
    Reruns = {}
    Rescreens = {1, 2}
    ScreenRejects = {1, 2}
INVARIANTS TypeOK LogMatchesChampion ReferenceIsCoherent
PROPERTIES ComparativeFlipIsFresh ImplementsPolicy
CHECK_DEADLOCK FALSE
