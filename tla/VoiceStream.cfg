SPECIFICATION FairSpec
CONSTANTS
    c1 = c1
    c2 = c2
    Conn = {c1, c2}
    Said = {{"approve", "reject"}, {"modify"}}
    QueueSize = 1
    Elsewhere = {"REJECTED"}
    MaxInterrupts = 1
INVARIANTS
    
    FlagsAccounted
PROPERTIES
    HandlerEnds
CHECK_DEADLOCK FALSE
