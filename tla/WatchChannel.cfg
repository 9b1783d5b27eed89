CONSTANTS
    s1 = s1
    s2 = s2
    r1 = r1
    r2 = r2
    Senders <- MCSenders
    Receivers <- MCReceivers
    Root = r1
    MaxId = 3
    Spurious = TRUE
    Requests = {q1, q2}
    Keys = {all, g1}
    AllCards = all
    Claims = {x1}
    MaxGenerations = 2
    MaxGuards = 2
    MaxTime = 3
SPECIFICATION SharedSpec
INVARIANTS
    NoLostWakeUp
    NeverStale
    StatsAddUp
PROPERTIES
    ImplementsRegister
    SleeperIsWoken
CHECK_DEADLOCK FALSE
