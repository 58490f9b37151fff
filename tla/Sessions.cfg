SPECIFICATION Spec
CONSTANTS
    Servers = {s1, s2}
    Tokens = {t1, t2}
    Calls = {c1, c2}
    Lifetime = 1
    MaxCacheSize = 1
    BatchSize = 1
    MaxTime = 2
    MaxFailures = 1
INVARIANTS
    Inv
PROPERTIES
    LoggedOutRefused
SYMMETRY Symmetry
CHECK_DEADLOCK FALSE
