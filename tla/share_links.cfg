SPECIFICATION Spec
CONSTANTS
    Calls = {c1, c2}
    MaxSeq = 4
    MaxBearers = 1
    None = None
INVARIANTS LinkTablesAreSound LinkSignsNobodyIn
PROPERTIES DeadLinksStayDead
SYMMETRY CallSymmetry
CHECK_DEADLOCK FALSE
