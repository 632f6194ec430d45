SPECIFICATION FairSpec
CONSTANTS
    Comments = {c1, c2, c3}
    n1 = n1
    n2 = n2
    u1 = u1
    Workers = {n1, u1}
    Allowed <- NodeAndUser
    Refused = {c1}
    MaxScheduledCommentsPerUser = 2
    MaxTime = 2
    MaxFailures = 1
INVARIANTS
    TypeOK
    
    
PROPERTIES
    CanceledIsFinal
    EveryCommentIsSettled
CHECK_DEADLOCK FALSE
