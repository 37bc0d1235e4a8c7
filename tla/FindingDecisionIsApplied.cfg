SPECIFICATION Spec
CONSTANTS
    Request = {r1}
    Supplier = {s1, s2}
    Catalog = {}
    Handler = {h1}
    RowActions = {}
    MaxApprovals = 3
    MaxRevision = 1
    MaxStarts = 1
    MaxRestarts = 1
INVARIANT DecisionIsApplied
CHECK_DEADLOCK FALSE
