SPECIFICATION Spec
CONSTANTS
    Browsers = {b1, b2}
    MaxLogins = 2
    MaxCodes = 2
    MaxRequests = 2
    RedirectOf <- SameRedirect
    None = None
INVARIANTS SessionsBoundToBrowser OneSessionPerCode CodesSpentOnOwnState StoreIsSound
PROPERTIES DroppedStaysDropped
SYMMETRY BrowserSymmetry
CHECK_DEADLOCK FALSE
