SPECIFICATION Spec
CONSTANTS
    a = a
    b = b
    u1 = u1
    u2 = u2
    u3 = u3
    NoUrl = NoUrl
    Targets = {a, b}
    Site <- TwoSites
    Stored <- Starts
    Urls = {u1, u2, u3}
    MaxHistory = 3
    MaxNav = 0
    MaxReports = 2
PROPERTY ReportsKeepHistory
CHECK_DEADLOCK FALSE
