SPECIFICATION Spec
CONSTANTS
    MaxCommit = 2
    Migrations = {2}
    None = None
    Keep = 2
    Slots = {s1, s2}
    MaxRuns = 2
    MaxFaults = 0
INVARIANT RollbackMigrationIsNoOp
CHECK_DEADLOCK FALSE
