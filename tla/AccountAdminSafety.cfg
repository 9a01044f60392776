CONSTANTS
    w1 = w1 w2 = w2
    Threads = {w1, w2}
    OpeningLimit = 100
    LimitRequests <- MCLimitRequests
    StatusRequests = {"PENDING", "ACTIVE", "SUSPENDED", "FROZEN", "DELINQUENT", "CLOSED", "CHARGED_OFF"}
    MaxOpen = 2
    MaxEntries = 4
SPECIFICATION Spec
INVARIANT LedgerExplainsLimit
PROPERTY AtomicUnlessStale
