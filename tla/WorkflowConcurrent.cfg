SPECIFICATION Spec
CONSTANTS
    Request = {r1}
    Supplier = {s1, s2}
    Catalog = {}
    Handler = {h1, h2}
    RowActions = {"REJECTED"}
    MaxApprovals = 2
    MaxRevision = 2
    MaxStarts = 2
    MaxRestarts = 1
SYMMETRY SymmetryOneKind
INVARIANTS
    ThreadConsistent
    VerifiedMeansBought
    
    MishapsNeedAFault
PROPERTIES
    ImplementsContract
CHECK_DEADLOCK FALSE
