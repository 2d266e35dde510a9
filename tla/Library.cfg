SPECIFICATION FairSpec
CONSTANTS
    Callers = {c1, c2}
    Free = Free
    MaxAttempts = 2
    MaxCalls = 3
INVARIANTS
    TypeOK
    HandledOnce
    LastCallWins
PROPERTY CallsReturn
