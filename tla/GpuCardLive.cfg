CONSTANTS
    Worker = Worker
    None = None
    Clients = {c1}
    Tables = {t1, t2}
    Engines = {e1, e2}
    Models = {m1, m2}
    Stalls = FALSE
SPECIFICATION FairCardsSpec
INVARIANTS
    WalkAndInferenceExclude
    WalkReadsLiveWeights
    CardsAreExclusive
    RoutesAreOwned
PROPERTIES
    RequestsAndInstallsEnd
    ServingSettles
CHECK_DEADLOCK FALSE
