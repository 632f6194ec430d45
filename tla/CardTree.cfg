SPECIFICATION Spec
CONSTANTS
    Cards = {c1, c2, c3, c4, c5}
    Board = board
    MaxCardDepth = 3
    DepthBound = 3
SYMMETRY Symmetry
INVARIANTS
    TypeOK
    NoDanglingParent
    
    NoCycle
CHECK_DEADLOCK FALSE
