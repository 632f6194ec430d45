SPECIFICATION Spec
CONSTANTS
    Conns = {c1, c2, c3}
    Users = {u1, u2}
    Teams = {t1}
    UserOf <- TwoUsers
    Overtakes = {}
    MaxEvents = 6
INVARIANTS AudienceWatches 
PROPERTY HooksReturn
CHECK_DEADLOCK FALSE
