CONSTANTS
    r1 = r1 r2 = r2 r3 = r3
    c1 = c1 c2 = c2 c3 = c3
    a1 = a1 a2 = a2
    k1 = k1 k2 = k2 k3 = k3
    home = home abroad = abroad banned = banned
    Requests = {r1, r2, r3}
    Cards = {c1, c2, c3}
    Accounts = {a1, a2}
    Keys = {k1, k2}
    Countries = {home, abroad, banned}
    HomeCountry = home
    ProhibitedCountries = {banned}
    AccountOf <- MCAccountOf
    CreditLimit <- MCCreditLimit
    MaxTxnCount = 2
    MaxTxnAmount = 200
    HighAmount = 200
    Inputs <- MCInputs
    LifecycleStatuses = {"BLOCKED", "ACTIVE"}
    ExpiringCards = {}
    MaxInFlight = 3
    MaxRestarts = 1
SPECIFICATION Spec
SYMMETRY Symmetry
INVARIANT TypeOK
INVARIANT OneTransactionPerKey
INVARIANT NoOverdraft
INVARIANT LedgerBounds
 
PROPERTY ImplementsLedger
PROPERTY ChargesOnlyActiveCards
CHECK_DEADLOCK FALSE
