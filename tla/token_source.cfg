SPECIFICATION FairSpec
CONSTANTS
    Callers = {c1, c2}
    Faults = {"unsent", "lost", "persist", "panic", "crash", "restamp"}
    MaxFlights = 2
    MaxLapses = 1
INVARIANTS TypeOK SingleFlight HeldTokenIsLive NoSelfInflictedTheft
PROPERTIES AdoptionAdvances TokenReturns
CHECK_DEADLOCK FALSE
