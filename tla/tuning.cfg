SPECIFICATION LiveSpec
CONSTANTS
    Names = {k1}
    Outcomes <- MCOutcomes
    Scale = 2
    Budgets = {2, 3}
    None = None
    MaxInvocations = 3
    MaxCrashes = 2
INVARIANTS TypeOK BudgetIsKept PoolingIsDeliberate RerunAgrees
PROPERTY InvocationEnds
CHECK_DEADLOCK FALSE
