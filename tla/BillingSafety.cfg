CONSTANTS
    a1 = a1 a2 = a2
    c1 = c1 c2 = c2 c3 = c3
    t1 = t1 t2 = t2 t3 = t3
    g1 = g1 g2 = g2 g3 = g3
    Accounts = {a1, a2}
    Cards = {c1, c2, c3}
    Txns = {t1, t2, t3}
    AccountOf <- MCAccountOf
    CardOf <- MCCardOf
    DayOf <- MCDayOf
    Amount <- MCAmount
    Fee <- MCFee
    MonthEnds = {31, 59, 90}
    Dates = {31, 45, 90}
    Generations = {g1, g2, g3}
    MaxRunning = 2
SPECIFICATION Spec
SYMMETRY Symmetry
INVARIANT OneBillUnlessTogether
INVARIANT BilledInTwoCycles
INVARIANT BalanceCarried
