SPECIFICATION Spec
SYMMETRY Symmetry
INVARIANT RunsWithinLimit
INVARIANT NoLostWakeup
INVARIANT WorkerUsedOnce
INVARIANT ProcessesBounded
INVARIANT AnswersMatchRuns
INVARIANT EarlyWorkersStopped
INVARIANT RefillOnItsWay
CONSTANTS
    Calls = {c1, c2, c3}
    Limit = 1
    MaxWorkers = 3
    MaxAsks = 0
CHECK_DEADLOCK FALSE
