SPECIFICATION Spec
INVARIANT EveryFailureHasItsReason
CONSTANTS
    Calls = {c1}
    Limit = 1
    MaxWorkers = 2
    MaxAsks = 1
CHECK_DEADLOCK FALSE
