SPECIFICATION Spec
CONSTANTS
    Worker = {w1, w2}
    Phone = {p1}
    Email = {e1}
    Gstin = {}
    Configured = {"telegram", "email"}
    Development = FALSE
    IdentifierLimit = 1
    IpLimit = 2
    MaxAttempts = 1
    MaxResends = 1
    MaxChallenges = 3
    MaxSessions = 2
    MaxRotations = 1
SYMMETRY Symmetry
INVARIANTS
    ChallengeUsedOnce
    CodesBounded
    
    
PROPERTIES
    RotationIsAtomic
CHECK_DEADLOCK FALSE
