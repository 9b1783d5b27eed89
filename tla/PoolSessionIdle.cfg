CONSTANTS
    SwitchEvery = 1
    CheckEvery = 2
    IdleTimeout = 3
    JobTimeout = 8
    StallRestart = 10
    ReconnectMin = 1
    ReconnectMax = 2
    HealthySession = 1
SPECIFICATION Spec
INVARIANT
    SilenceBounded
