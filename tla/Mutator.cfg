SPECIFICATION Spec
CONSTANTS
    Contents = {}
    Commands = {}
    Initial <- Start
    Offered <- MutatorOffered
    Redo <- RedoOf
    Recorded <- RecordedOf
    Undo <- UndoOf
    Visible <- VisibleIn
    Repeatable <- RepeatableBy
    Room <- RoomIn
    MaxCommands = 2
    MaxOpen = 1
    MaxGroups = 1
    Failures = {"perform", "run"}
    BlockIds = {"n1", "n2", "n3", "n4", "n5", "n6", "n7"}
    GuidIds = {"q1", "q2", "q3"}
    DivisionOf <- Departments
    ViewId = "view"
    Boards = {"kanban", "table", "organisation", "cards", "settings", "view"}
    MissingFlags = FALSE
INVARIANTS
    BackWhereItWas
    
    GroupsWhole
    
    
    DepartmentsInRange
CHECK_DEADLOCK FALSE
