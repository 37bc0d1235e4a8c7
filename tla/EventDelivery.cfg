SPECIFICATION FairSpec
CONSTANTS
    MaxEvents = 2
    Worker = {w1, w2}
    Limit = 2
    Capacity = 1
    MaxFaults = 2
INVARIANTS
    PublishedHonestly
    StaleOnlyIfMissed
PROPERTIES
    ChangesArrive
CHECK_DEADLOCK FALSE
