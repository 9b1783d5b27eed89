CONSTANTS
    Nil = Nil
    LastSeed = 120
    WC = 8
    CE = 4
    BE = 2
    P = 9973
    PADDING = 4
    NORM_BLOCKS = 2
    UBATCH = 2
    MMVQ_MAX = 1
    PREFIX_LEN = 2
    PEAK = 3
    Weight <- WeightOf
SPECIFICATION Spec
INVARIANTS
    LaunchPlansHold
    CommitmentsHold
    FormatsReadBack
    StagedIsGenuine
PROPERTIES
    StartAndStopEnd
CHECK_DEADLOCK FALSE
