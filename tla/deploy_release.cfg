SPECIFICATION LiveSpec
CONSTANTS
    MaxCommit = 2
    Migrations = {2}
    None = None
    Keep = 2
    Slots = {s1, s2}
    MaxRuns = 2
    MaxFaults = 1
INVARIANTS TypeOK ReportIsTrue RedLeavesTarget
PROPERTY RollbackRecovers
CHECK_DEADLOCK FALSE
