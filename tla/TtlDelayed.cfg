SPECIFICATION TtlFairSpec
CONSTANTS
    app = app
    manager = manager
    Handlers = {timer, h1}
    HttpHandlers = {}
    Timer = timer
    Mortal = {1, 2}
    Free = Free
    NoDefinition = NoDefinition
    Objects <- MCObjects
    Problems <- MCProblems
    Severities <- MCSeverities
    ManagerObject = manager
    FmObjects = {}
    ActiveProblem = 7
    HistoryProblem = 8
    NomaEnabled = FALSE
    InitialDefinitions <- Delayed
    InitialConfig <- NoLimits
    Requests <- OneBack
    MaxRequests = 3
    NewDefinitions <- None
    Deletable <- None
    NewConfigs <- None
    MaxChanges = 0
INVARIANTS
    TimerLockDiscipline
    IndexTargetsOwnAlarm
PROPERTIES
    PanicHasCause
    ExpiredResolved
