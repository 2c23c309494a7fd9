SPECIFICATION LiveSpec
CONSTANTS
    a = a
    b = b
    u1 = u1
    u2 = u2
    u3 = u3
    NoUrl = NoUrl
    Targets = {a, b}
    Site <- TwoSites
    Stored <- Starts
    Urls = {u1, u2, u3}
    MaxHistory = 2
    MaxNav = 2
    MaxReports = 2
INVARIANTS TypeOK StoredUrlIsShown AddressBarIsTrue
PROPERTIES HistoryIsKept LoadingEnds
CHECK_DEADLOCK FALSE
