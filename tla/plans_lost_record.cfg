SPECIFICATION Spec
INVARIANT RecordKeptUntilItExpires
CONSTANTS
    Callers = {alice}
    Texts = {m1}
    Threads = {t1, t2}
    LIFETIME = 0
    KEPT = 1
    MaxPlans = 2
    MaxClock = 1
    MaxRestarts = 0
CHECK_DEADLOCK FALSE
