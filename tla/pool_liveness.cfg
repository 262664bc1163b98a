SPECIFICATION FairSpec
PROPERTY EveryCallAnswered
CONSTANTS
    Calls = {c1, c2}
    Limit = 1
    MaxWorkers = 2
    MaxAsks = 1
CHECK_DEADLOCK FALSE
