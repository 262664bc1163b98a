SPECIFICATION Spec
SYMMETRY Symmetry
INVARIANT RunningExact
INVARIANT DailyRunsWithinLimits
INVARIANT OutputCharged
INVARIANT RemoteFilesTogether
PROPERTY NoRunOnceOver
CONSTANTS
    Runs = {r1, r2, r3}
    Subjects = {ann}
    Nobody = nobody
    RunsPerDay = 2
    RunsPerCaller = 2
    RunsAtOnce = 2
    OutputPerDay = 1
    MaxDay = 1
    MaxWrites = 2
    MaxRemovals = 1
CHECK_DEADLOCK FALSE
