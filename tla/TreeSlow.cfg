CONSTANTS
    Procs = {p1, p2}
    None = none
    MaxInodes = 2
    MaxKills = 0
    MaxSlow = 1
SPECIFICATION Spec
INVARIANTS
    ExactlyOneBuilds
CHECK_DEADLOCK FALSE
