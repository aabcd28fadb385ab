SPECIFICATION Spec
CONSTANTS
    t1 = t1
    t2 = t2
    t3 = t3
    d = d
    Customers = {d, t1, t2, t3}
    Dev = {d}
    Months = 2
    Sources = {crm_sync, manual}
    Csv = Csv
    MaxPredictions = 2
    MaxOutcomes = 2
    MaxWrites = 2
    MaxCarves = 1
INVARIANTS TypeOK RowsAreMatured SnapshotIsLatest SeedIsUnaffected ComparisonIsPaired
PROPERTY CohortsPersist
CHECK_DEADLOCK FALSE
SYMMETRY Symmetry
