SPECIFICATION Spec
CONSTANTS
    Editors = {1, 2}
    Clients = {1, 2}
    MaxEdits = 3
    MaxPastes = 1
    MaxFails = 1
    MaxTurns = 1
PROPERTIES
    EditsReachServer
    ImagesHaveFiles
CHECK_DEADLOCK FALSE
