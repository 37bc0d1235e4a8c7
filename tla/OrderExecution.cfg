SPECIFICATION Spec
CONSTANTS
    ApprovalId = {a1, a2}
    Proposal = {p1, p2}
    Merchant = {m1, m2}
    Supplier = {s1, s2}
    Catalog = {s2}
    Quantity = {1}
    Price = {2, 3}
    Session = {d1, d2, e1, e2}
    Decider = {d1, d2}
    Executor = {e1, e2}
    Ttl = 1
    MaxTime = 2
    MaxRevision = 1
    SpendingLimit <- MCSpendingLimit
SYMMETRY Symmetry
INVARIANTS
    TypeOK
    DecidedRightly
    OutboxAgreesWithRows
    PlacedOnlyIfApproved
    PlacedOnce
    OrdersTellTheTruth
PROPERTIES
    DecisionFinal
    ImplementsContract
CHECK_DEADLOCK FALSE
