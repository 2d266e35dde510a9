SPECIFICATION AlertFairSpec
CONSTANTS
    app = app
    fm = fm
    fmOther = fmOther
    manager = manager
    Handlers = {h1, w1}
    HttpHandlers = {}
    Timer = timer
    Workers = {w1}
    FollowedObjects = {fm, fmOther}
    FmAlerts <- Alerts
    MaxAlertChanges = 2
    Free = Free
    NoDefinition = NoDefinition
    Objects <- MCObjects
    Problems <- MCProblems
    Severities <- MCSeverities
    ManagerObject = manager
    FmObjects = {fm, fmOther}
    ActiveProblem = 7
    HistoryProblem = 8
    NomaEnabled = FALSE
    InitialDefinitions <- ClearDelay
    InitialConfig <- NoLimits
    Requests <- AppRequests
    MaxRequests = 2
    NewDefinitions <- SetAgain
    Deletable <- AppProblem
    NewConfigs <- None
    MaxChanges = 2
INVARIANT AlertLockDiscipline
PROPERTY KeptActive
