CONSTANTS
    Uri = {d1, d2}
    Worker = {w1}
    Version = {0, 1, 2}
    MaxEdits = 3
    OrderedClient = TRUE
    RestartNumbers = FALSE
SPECIFICATION FairSpec
INVARIANTS LabelTruth ShowsLatest TextsInOrder
PROPERTIES NoEditIgnored ImplementsFeed
CHECK_DEADLOCK FALSE
