CONSTANTS
    Worker = Worker
    None = None
    Clients = {c1, c2}
    Tables = {t1, t2, t3}
    Engines = {e1, e2, e3}
    Models = {m1, m2}
    Stalls = TRUE
SPECIFICATION Spec
SYMMETRY Symmetry
INVARIANTS
    OneTableResident
