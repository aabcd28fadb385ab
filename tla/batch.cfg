SPECIFICATION Spec
CONSTANTS
    Requests = {r1, r2}
    Customers = {c1, c2}
    Versions = {v1, v2}
    c1 = c1
    c2 = c2
    v1 = v1
    v2 = v2
    Fields <- MCFields
    Required <- MCRequired
    Values = {0, 1}
    Malformed = Malformed
    None = None
    Risk <- MCRisk
    Policy <- MCPolicy
    Slice <- MCSlice
    CostFiles <- MCCostFiles
    MaxSize = 3
    Payloads <- MCPayloads
    Runtimes <- MCRuntimes
    Crms <- MCCrms
    MaxRows = 4
    MaxSwaps = 1
    MaxReloads = 1
SYMMETRY Symmetry
INVARIANTS TypeOK RowsAreTheirOwn ContactsAreBest SameCustomerSameArm LogExplainsAnswer
CHECK_DEADLOCK FALSE
