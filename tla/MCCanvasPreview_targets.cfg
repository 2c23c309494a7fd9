SPECIFICATION Spec
CONSTANTS
    a = a
    b = b
    u1 = u1
    u2 = u2
    u3 = u3
    NoUrl = NoUrl
    Targets = {a, b}
    Site <- TwoSites
    Stored <- NothingStored
    Urls = {u1, u2, u3}
    MaxHistory = 3
    MaxNav = 2
    MaxReports = 2
INVARIANT StoredUrlIsShown
CHECK_DEADLOCK FALSE
