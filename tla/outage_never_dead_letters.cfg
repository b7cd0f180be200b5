SPECIFICATION Spec
CONSTANTS
    Asks = {1, 2, 3}
    MaxInFlight = 2
    Truth <- Verdicts
    Jobs = {m1}
    Leeway = 0
    CacheTTL = 1
    MaxTime = 2
    MaxCrashes = 1
INVARIANTS OutageNeverDeadLetters
CHECK_DEADLOCK FALSE
