SPECIFICATION FairSpec
CONSTANTS
    Worker = {w1}
    Key = {k1}
    Update = {u1}
    MaxApprovals = 1
    MaxCrashes = 0
PROPERTY UpdatesAreReceived
CHECK_DEADLOCK FALSE
