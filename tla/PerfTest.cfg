SPECIFICATION FairSpec
CONSTANTS
    Alarms = {a1, a2, a3}
    Wanted = 2
INVARIANTS
    TypeOK
    MainWaitsForWorkers
    PeakLeavesNothing
    PostsAlternate
PROPERTY TestEnds
