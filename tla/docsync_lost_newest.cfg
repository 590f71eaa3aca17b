CONSTANTS
    Uri = {d1}
    Worker = {w1, w2}
    Version = {0, 1, 2}
    MaxEdits = 3
    OrderedClient = TRUE
    RestartNumbers = FALSE
SPECIFICATION Spec
INVARIANTS ShowsLatest
SYMMETRY PoolSymmetry
CHECK_DEADLOCK FALSE
