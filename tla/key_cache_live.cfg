SPECIFICATION FairSpec
CONSTANTS
    Issuer = "anubis"
    MaxKeys = 2
    Callers = {c1, c2}
    Nobody = Nobody
    Kids = {"k1"}
    Documents <- GoodDocuments
    TTL = 2
    MinRefetch = 1
    MinRetry = 1
    FetchTimeout = 1
    Faults = {"error", "panic"}
    MaxClock = 1
PROPERTIES LookupReturns
CHECK_DEADLOCK FALSE
