SPECIFICATION PersistenceSpec
CONSTANTS
    app = app
    manager = manager
    Handlers = {h1, h2}
    HttpHandlers = {}
    Free = Free
    NoDefinition = NoDefinition
    NoFile = NoFile
    Empty = Empty
    Garbled = Garbled
    MaxRestarts = 1
    Objects <- MCObjects
    Problems <- MCProblems
    Severities <- MCSeverities
    ManagerObject = manager
    FmObjects = {}
    ActiveProblem = 7
    HistoryProblem = 8
    NomaEnabled = FALSE
    InitialDefinitions <- AllDefined
    InitialConfig <- NoLimits
    Requests <- ThreeRequests
    MaxRequests = 3
    NewDefinitions <- None
    Deletable <- None
    NewConfigs <- None
    MaxChanges = 0
INVARIANTS
    Durable
PROPERTY RestoresSaved
