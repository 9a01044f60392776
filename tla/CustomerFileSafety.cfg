CONSTANTS
    r1 = r1 r2 = r2 k1 = k1 k2 = k2 p1 = p1 p2 = p2 d1 = d1 d2 = d2
    Requests = {r1, r2}
    Tokens = {k1, k2}
    Paths = {p1, p2}
    Documents = {d1, d2}
    None = None
    MaxOpen = 2
    MaxRows = 2
SPECIFICATION Spec
INVARIANT StagesFollow
INVARIANT UsPersonsDeclare
INVARIANT DocumentsStored
PROPERTY BlockTakesToken
