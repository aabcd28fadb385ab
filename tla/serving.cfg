SPECIFICATION LiveSpec
CONSTANTS
    Versions = {v1, v2, v3}
    NoVersion = NoVersion
    Compatible = {v1, v2}
    Requests = {r1, r2}
    CanaryOn = TRUE
    ShadowOn = TRUE
    MaxMoves = 3
    MaxFaults = 1
INVARIANTS TypeOK LoggedAsServed AnswerIsOneBundle
PROPERTIES ImplementsAliasCache RefreshIsSafe FollowsChampion
CHECK_DEADLOCK FALSE
