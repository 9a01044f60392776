CONSTANTS
    w1 = w1 w2 = w2
    c1 = c1 c2 = c2 c3 = c3
    s1 = s1 s2 = s2
    None = None
    Threads = {w1}
    Cards = {c1, c2, c3}
    Sessions = {s1, s2}
    Mirrored = TRUE
    OpeningLimit = 100
    LimitRequests = {10000}
    StatusRequests = {"ACTIVE", "FROZEN", "CLOSED"}
    MaxOpen = 1
    MaxEntries = 1
SPECIFICATION CardSpec
SYMMETRY Symmetry
INVARIANT MirrorAgrees
INVARIANT OneSuccessor
INVARIANT AccountFollowsCard
PROPERTY RetiredIsFinal
PROPERTY AdminBlockHolds
