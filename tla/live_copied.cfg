SPECIFICATION CopyingSpec
SYMMETRY Symmetry
PROPERTY DrawnDataKept
CONSTANTS
    Publishers = {p1}
    Documents = {d1, d2}
    Layers = {l1}
    UNREFERENCED_AGE = 1
    MAXIMUM_UNUSED_AGE = 2
    SWEEP_DOCUMENT_LIMIT = 1
    Joining = {TRUE}
    MaxTokens = 2
    MaxClock = 1
CHECK_DEADLOCK FALSE
