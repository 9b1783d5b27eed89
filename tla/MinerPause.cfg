CONSTANTS
    w1 = w1
    w2 = w2
    g1 = g1
    g2 = g2
    Workers <- MCWorkers
    Guards <- MCGuards
    MaxGen = 2
    MaxCalls = 2
    Width = 3
    Roots = {r1}
    NoneYet = none
    Closing = closing
    Batch = 3
    ProofCap = 1
    MaxJobs = 2
    Bits = 3
    PollEvery = 2
    NoJob = nojob
    Closed = closed
    MaxAssigned = 2
SPECIFICATION MinerSpec
INVARIANTS
    PausedChannelHasNoJob
    WorkersGetNewest
    NoncesWalkedOnce
PROPERTIES
    PauseAndDropReachWorkers
    CloseIsObeyed
CHECK_DEADLOCK FALSE
