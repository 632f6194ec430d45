SPECIFICATION ReqSpec
CONSTANTS
    Cards = {c1, c2, c3, c4, c5}
    Board = board
    Nothing = nothing
    MaxCardDepth = 3
    DepthBound = 3
    r1 = r1
    r2 = r2
    Requests = {r1, r2}
    Allowed <- LinksByR1
    MayFail = {r1, r2}
SYMMETRY Symmetry
CONSTRAINT FewerWhenOverlapped
INVARIANT NoCycle
PROPERTY ImplementsContract
CHECK_DEADLOCK FALSE
