SPECIFICATION Spec
CONSTANTS
    Issuer = "anubis"
    MaxKeys = 2
    Callers = {c1, c2}
    Nobody = Nobody
    Kids = {"k1"}
    Documents <- MCDocuments
    TTL = 2
    MinRefetch = 1
    MinRetry = 1
    FetchTimeout = 1
    Faults = {"error", "panic"}
    MaxClock = 3
SYMMETRY Symmetry
INVARIANTS TypeOK SingleFetch DocumentAsOfLastFetch WithdrawnKeyExpires
PROPERTIES ClocksAdvance
CHECK_DEADLOCK FALSE
