CONSTANTS
    Request = {r1}
    Uri = {d1}
    Worker = {w1, w2}
    Version = {0, 1}
    MaxEdits = 2
    OrderedClient = TRUE
    RestartNumbers = FALSE
SPECIFICATION LspSpec
PROPERTIES NoCallbackAfterTeardown
SYMMETRY ThreadSymmetry
CHECK_DEADLOCK FALSE
