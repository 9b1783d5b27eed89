CONSTANTS
    SwitchEvery = 1
    CheckEvery = 2
    IdleTimeout = 1
    JobTimeout = 2
    StallRestart = 3
    ReconnectMin = 1
    ReconnectMax = 2
    HealthySession = 1
    Pools = {p1}
    Answers = {a1}
    NoAnswer = noanswer
    AnswerCap = 2
    Telemetry = TRUE
    TrackCap = 64
    MaxId = 5
    Models = {m1}
    Bits = {10}
    Daas = {0,3,4}
    SaltV4 = 1
    H10 = 2
    H14 = 3
    BlockTask = 4
    MaxChanges = 2
    Challenges = {h1}
    Chats = {c1}
    Tasks = {t1}
    FollowerCap = 1
    FlightCap = 2
    TableCap = 1
    ResultCap = 1
    MaxFlights = 2
    MaxFollowers = 2
    Requests = {r1}
    Traced = {r1}
    WithId = {r1}
    Foreign = {f1}
    Gpus = {g1}
    Keep = 1
    MaxTime = 2
    MaxRestarts = 1
    MaxOpenings = 1
    MaxFaults = 1
    N = 3
    FailoverAfter = 6
    Grace = 4
    ProbeSecs = 2
    Stick = 8
    MaxBackoff = 6
    Lag = 1
    None = none
    MaxConns = 2
SPECIFICATION PoolSpec
INVARIANTS
    CountsMatchVerdicts
    TracesStayOpenable
PROPERTIES
    SessionRecovers
    JobsFitThePool
    TasksSettle
    FailoverSettles
