CONSTANTS
    Outs = {i, a}
    Inference = {i}
    Bonded = {}
    Dust = {}
    LegacyLock = 0
    BondLock = 2
    MaxBatch = 1
    CapExpiry = 1
    OrphanCooldown = 1
    SeqCooldown = 1
    UnknownBase = 1
    UnknownMax = 1
    MaxSubmits = 0
    MaxOrphanRetries = 2
    Blocks = {A}
    Phantom = {}
    Reorgs = {A}
    LateReorgs = FALSE
    Pruned = {}
    MaxInFlight = 2
    Timeout = 1
    MaxLosses = 0
    Prompt = FALSE
    MaxOnWire = 1
    Hiccups = TRUE
    MaxRestarts = 1
    Flushes = {FALSE, TRUE}
    Holds = {FALSE, TRUE}
    CompactEvery = 1
    BlockOf <- OneBlock
SPECIFICATION Spec
INVARIANTS
    ClaimedIsSpent
    NoGhostIsClaimed
