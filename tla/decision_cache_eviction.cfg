SPECIFICATION Spec
CONSTANTS
    Callers = {c1, c2}
    Questions <- Unrelated
    ValidPermissions <- Permissions
    TTL = 1
    MaxSize = 2
    Timeout = 1
    MaxClock = 1
    MaxChanges = 0
SYMMETRY Symmetry
INVARIANTS GenerationsBounded RecentAnswersAreHeld
CHECK_DEADLOCK FALSE
