SPECIFICATION FairSpec
CONSTANTS
    Request = {r1}
    Supplier = {s1, s2}
    Catalog = {s2}
    Handler = {h1}
    RowActions = {"APPROVED", "REJECTED"}
    MaxApprovals = 4
    MaxRevision = 2
    MaxStarts = 1
    MaxRestarts = 1
PROPERTY CallsReturn
CHECK_DEADLOCK FALSE
