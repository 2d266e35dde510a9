SPECIFICATION TtlFairSpec
CONSTANTS
    app = app
    manager = manager
    Handlers = {timer, h1}
    HttpHandlers = {}
    Timer = timer
    Mortal = {1, 2}
    Free = Free
    NoDefinition = NoDefinition
    Objects <- MCObjects
    Problems <- MCProblems
    Severities <- MCSeverities
    ManagerObject = manager
    FmObjects = {}
    ActiveProblem = 7
    HistoryProblem = 8
    NomaEnabled = FALSE
    InitialDefinitions <- AtOnce
    InitialConfig <- NoLimits
    Requests <- Raises
    MaxRequests = 2
    NewDefinitions <- None
    Deletable <- None
    NewConfigs <- None
    MaxChanges = 0
PROPERTY ExpiredResolved
CHECK_DEADLOCK FALSE
