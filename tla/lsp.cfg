CONSTANTS
    Request = {r1}
    Uri = {d1}
    Worker = {w1, w2}
    Version = {0, 1}
    MaxEdits = 2
    OrderedClient = FALSE
    RestartNumbers = FALSE
SPECIFICATION LspFairSpec
INVARIANTS CancelHonoured AnsweredOnce CleanTeardown NewestPublished
PROPERTIES SilentAfterShutdown NewestEventuallyPublished 
CHECK_DEADLOCK FALSE
