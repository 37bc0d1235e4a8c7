SPECIFICATION Spec
CONSTANTS
    r1 = r1
    r2 = r2
    m1 = m1
    Request = {r1, r2}
    Remote = {m1}
    Quantity = {1, 2, 3}
    Target = {9200, 8200}
    Limit = {9500}
    FirstLimit = 12000
    Price = 10000
    Stock = 2
    MaxRevisions = 2
    MaxModified = 1
    MaxCrashes = 1
    MaxBusy = 1
INVARIANTS
    AgreedWithinLimits
    
    RecordsTruthful
    
    RemoteHandled
SYMMETRY Symmetric
CHECK_DEADLOCK FALSE
