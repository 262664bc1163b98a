SPECIFICATION Spec
SYMMETRY Symmetry
INVARIANT NoRunOnAnExpiredPlan
INVARIANT RunsOnlyWhatItsCallerApproved
INVARIANT KeptInTurn
INVARIANT ClickedInTurn
PROPERTY ApprovedInTurn
PROPERTY ImplementsWorkflowApproval
CONSTANTS
    Callers = {alice}
    Texts = {m1, m2}
    Threads = {t1, t2}
    LIFETIME = 0
    KEPT = 1
    MaxPlans = 2
    MaxClock = 1
    MaxRestarts = 1
CHECK_DEADLOCK FALSE
