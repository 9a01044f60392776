CONSTANTS
    t1 = t1 t2 = t2
    d1 = d1 d2 = d2
    j1 = j1 j2 = j2 j3 = j3 j4 = j4
    Txns = {t1, t2}
    Days = {d1, d2}
    DayOf <- MCDayOf
    Amount <- MCAmount
    Jobs = {j1, j2, j3, j4}
    MaxRunning = 2
SPECIFICATION Spec
SYMMETRY JobSymmetry
INVARIANT CountedOnceUnlessTogether
INVARIANT RowsAccountedFor
PROPERTY StatusAdvancesUnlessTogether
