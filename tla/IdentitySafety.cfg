CONSTANTS
    t1 = t1 t2 = t2 a = a b = b
    Threads = {t1, t2}
    Emails <- MCEmails
    NoEmail = NoEmail
    Existing <- MCExisting
    MaxPadded = 9
    Watched = {10}
    MaxOpen = 2
    MaxCodes = 2
    MaxSessions = 1
SPECIFICATION Spec
INVARIANT IdentifiersSequential
INVARIANT CreatedOwnTheirRows
INVARIANT TokensFollowCodes
PROPERTY StaleCodesRefused
PROPERTY PasswordsFollowCodes
PROPERTY EveryCallAnswered
