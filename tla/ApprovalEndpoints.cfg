SPECIFICATION FairSpec
CONSTANTS
    Worker = {w1, w2}
    Key = {k1}
    Update = {u1}
    MaxApprovals = 2
    MaxCrashes = 1
INVARIANTS
    AnswersMatchDecisions
    
    

    
CHECK_DEADLOCK FALSE
