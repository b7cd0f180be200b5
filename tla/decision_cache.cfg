SPECIFICATION Spec
CONSTANTS
    Callers = {c1, c2}
    Questions <- Ambiguous
    ValidPermissions <- Permissions
    TTL = 1
    MaxSize = 1
    Timeout = 1
    MaxClock = 3
    MaxChanges = 1
SYMMETRY Symmetry
INVARIANTS TypeOK CachedAnswerIsRecent StepUpIsFresh
CHECK_DEADLOCK FALSE
