SPECIFICATION Spec
CONSTANTS
    Boards = {"A", "B"}
    Blocks = {"a1", "m1", "m2", "t1"}
    Type <- BlockType
    Home <- BlockHome
    Parent <- BlockParent
    Existing = {"A", "B", "a1", "m1"}
    Opened = {"A"}
    Modes = {"standalone", "plugin"}
    MaxRetries = 1
    MaxChanges = 2
    MaxRuns = 2
INVARIANTS
    
    ListsAgree
    PageIsUrl
CHECK_DEADLOCK FALSE
