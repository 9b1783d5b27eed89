CONSTANTS
    Parts = {"requests", "templates", "traces", "phases"}
    r1 = r1
    r2 = r2
    Requests = {r1, r2}
    Rewarded = {r1, r2}
    Ranked = {r1}
    Kind <- MCKind
    QueueCap = 1
    SeenCap = 2
    MaxAttempts = 1
    MaxDrops = 1
    MaxLost = 1
    None = none
    Response = response
    SeedDelay = 1
    Page = 2
    Inflight = 1
    UnanchoredToo = FALSE
    MaxHeight = 4
    MaxDepth = 2
    MaxInbox = 1
    MaxReorgs = 1
    MaxFaults = 1
    Children = {0, 1}
    Depth = 1
    MaxIdle = 1
    MaxCut = 3
    MaxFailures = 1
SPECIFICATION SoloSpec
INVARIANTS
    BooksMatchWork
    NoAnswerIsLost
    RewardIsTracked
    AuditFollowsTheChain
PROPERTIES
    QueueDrains
    MinesAgain
    AuditIsAnswered
