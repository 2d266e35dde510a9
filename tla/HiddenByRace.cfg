SPECIFICATION Spec
CONSTANTS
    app = app
    fm = fm
    manager = manager
    Handlers = {h1, h2}
    HttpHandlers = {}
    Free = Free
    NoDefinition = NoDefinition
    NoCall = NoCall
    Objects <- MCObjects
    Problems <- MCProblems
    Severities <- MCSeverities
    ManagerObject = manager
    FmObjects = {fm}
    ActiveProblem = 7
    HistoryProblem = 8
    NomaEnabled = FALSE
    InitialDefinitions <- BothDelays
    InitialConfig <- HistoryLimit
    Requests <- LimitRequests
    MaxRequests = 3
    NewDefinitions <- None
    Deletable <- None
    NewConfigs <- None
    MaxChanges = 0
INVARIANT PendingHasRaiser
