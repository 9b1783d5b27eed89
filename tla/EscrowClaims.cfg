CONSTANTS
    Outs = {p, a, b}
    Inference = {p}
    Bonded = {}
    Dust = {}
    LegacyLock = 0
    BondLock = 2
    MaxBatch = 2
    CapExpiry = 3
    OrphanCooldown = 1
    SeqCooldown = 1
    UnknownBase = 1
    UnknownMax = 2
    MaxSubmits = 1
    MaxOrphanRetries = 2
    Blocks = {A}
    Phantom = {p}
    Reorgs = {}
    LateReorgs = FALSE
    Pruned = {}
    MaxInFlight = 2
    Timeout = 2
    MaxLosses = 1
    Prompt = TRUE
    MaxOnWire = 2
    Hiccups = FALSE
    MaxRestarts = 0
    Flushes = {FALSE}
    Holds = {FALSE}
    CompactEvery = 2
    BlockOf <- OneBlock
SPECIFICATION FairSpec
INVARIANTS
    LiveIsNotWrittenOff
PROPERTIES
    StrandedOutputsDrain
