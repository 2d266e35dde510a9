SPECIFICATION FairSpec
CONSTANTS
    app = app
    fm = fm
    manager = manager
    Handlers = {h1, h2}
    HttpHandlers = {h1, h2}
    Free = Free
    NoDefinition = NoDefinition
    NoCall = NoCall
    Objects <- MCObjects
    Problems <- MCProblems
    Severities <- MCSeverities
    ManagerObject = manager
    FmObjects = {fm}
    ActiveProblem = 7
    HistoryProblem = 8
    NomaEnabled = FALSE
    InitialDefinitions <- ClearDelays
    InitialConfig <- NoLimits
    Requests <- PlainRequests
    MaxRequests = 2
    NewDefinitions <- None
    Deletable <- JustOne
    NewConfigs <- None
    MaxChanges = 1
PROPERTY AcceptedClearReturns
CHECK_DEADLOCK FALSE
