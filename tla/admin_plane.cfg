SPECIFICATION FairSpec
CONSTANTS
    Slugs = {1, 2, 3}
    Codes = {c1, c2}
    Names = {n1, n2}
    Wanted = n1
    MaxSeq = 3
    MaxTime = 2
    MaxRuns = 2
    MaxRows = 2
    MaxNodes = 4
    MaxTokens = 3
    PageSizes = {1, 2}
    p1 = p1
    r1 = r1
    r2 = r2
    t1 = t1
    t2 = t2
    Permissions = {p1, p2}
    Malformed = Malformed
    FullKey = FullKey
    Roles = {r1, r2}
    RefOf <- MCRefOf
    Routes = {t1, t2}
    Requires <- MCRequires
    Absent = Absent
    MaxVersion = 2
INVARIANTS TablesAreSound WalkIsExact
PROPERTIES SettledStaysSettled ReportsTellTheTruth NothingVanishes WalkEnds
CHECK_DEADLOCK FALSE
