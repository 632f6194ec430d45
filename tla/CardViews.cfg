SPECIFICATION Spec
CONSTANTS
    NoCard = ""
    NoProperty = ""
    MaxCardDepth = 2
    NameRank <- MCNameRank
    ListEnd <- MCListEnd
    Starts <- MCStarts
    NewCards <- MCNewCards
    TemplateProps <- MCTemplateProps
    MeID = "ann"
    MaxMoves = 2
    MaxOthers = 1
INVARIANTS
    CardsOnce
    OrderListsOnce
    DropLands
    OthersKeepPlace
    NewCardIsShown
CHECK_DEADLOCK FALSE
