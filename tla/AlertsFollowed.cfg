SPECIFICATION AlertFairSpec
CONSTANTS
    app = app
    fm = fm
    fmOther = fmOther
    manager = manager
    Handlers = {h1, w1, w2}
    HttpHandlers = {}
    Timer = timer
    Workers = {w1, w2}
    FollowedObjects = {fm, fmOther}
    FmAlerts <- OneAlert
    MaxAlertChanges = 2
    Free = Free
    NoDefinition = NoDefinition
    Objects <- MCObjects
    Problems <- MCProblems
    Severities <- MCSeverities
    ManagerObject = manager
    FmObjects = {fm, fmOther}
    ActiveProblem = 7
    HistoryProblem = 8
    NomaEnabled = FALSE
    InitialDefinitions <- ClearDelay
    InitialConfig <- NoLimits
    Requests <- OtherRaise
    MaxRequests = 1
    NewDefinitions <- None
    Deletable <- None
    NewConfigs <- None
    MaxChanges = 0
PROPERTIES
    FmFollowsAlerts
    RequestsHandled
