SPECIFICATION FairSpec
CONSTANTS
    OrderId = {o1, o2}
    Sku = {k1}
    Session = {s1, s2}
    MaxStock = 3
    MaxUpserts = 3
INVARIANTS
    FulfilmentConsistent

    
CHECK_DEADLOCK FALSE
