SPECIFICATION Spec
SYMMETRY Symmetry
INVARIANT NothingWrittenMeansNothing
CONSTANTS
    Publishers = {p1}
    Documents = {d1}
    Layers = {l1, l2}
    UNREFERENCED_AGE = 1
    MAXIMUM_UNUSED_AGE = 2
    SWEEP_DOCUMENT_LIMIT = 1
    Joining = {TRUE}
    MaxTokens = 2
    MaxClock = 0
CHECK_DEADLOCK FALSE
