SPECIFICATION Spec
CONSTANTS
    c1 = c1
    c2 = c2
    c3 = c3
    None = None
    Customers <- MCCustomers
    Csvs <- MCCsvs
    TestOf <- MCTestOf
    Max <- MCMax
INVARIANTS TypeOK DvcSealedIsUnseen  CleanIsCurrent
CHECK_DEADLOCK FALSE
