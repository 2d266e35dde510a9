SPECIFICATION FairSpec
CONSTANTS
    app = app
    fm = fm
    manager = manager
    Handlers = {h1, h2}
    HttpHandlers = {h1}
    Free = Free
    NoDefinition = NoDefinition
    NoCall = NoCall
    Objects <- MCObjects
    Problems <- MCProblems
    Severities <- MCSeverities
    ManagerObject = manager
    FmObjects = {fm}
    ActiveProblem = 7
    HistoryProblem = 8
    NomaEnabled = FALSE
    InitialDefinitions <- BothDelays
    InitialConfig <- BothLimits
    Requests <- EveryAction
    MaxRequests = 2
    NewDefinitions <- None
    Deletable <- AllDefinitions
    NewConfigs <- NoHistory
    MaxChanges = 1
PROPERTIES
    PanicHasCause
    RequestsHandled
CHECK_DEADLOCK FALSE
