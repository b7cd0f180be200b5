SPECIFICATION FairSpec
CONSTANTS
    Callers = {c1, c2}
    Faults = {}
    MaxFlights = 2
    MaxLapses = 0
PROPERTY StoreNeverRegresses
CHECK_DEADLOCK FALSE
