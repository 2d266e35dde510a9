SPECIFICATION Spec
CONSTANTS
    app = app
    fm = fm
    manager = manager
    Handlers = {h1, h2, h3}
    HttpHandlers = {h1, h2, h3}
    Free = Free
    NoDefinition = NoDefinition
    NoCall = NoCall
    Objects <- MCObjects
    Problems <- MCProblems
    Severities <- MCSeverities
    ManagerObject = manager
    FmObjects = {fm}
    ActiveProblem = 7
    HistoryProblem = 8
    NomaEnabled = FALSE
    InitialDefinitions <- BothDelays
    InitialConfig <- ActiveLimit
    Requests <- LimitRequests
    MaxRequests = 4
    NewDefinitions <- None
    Deletable <- AllDefinitions
    NewConfigs <- OtherLimits
    MaxChanges = 1
SYMMETRY Symmetry
INVARIANTS
    UniqueIds
    FlagImpliesAlarm
    LockDiscipline
CHECK_DEADLOCK FALSE
