SPECIFICATION GateSpec
CONSTANTS
    call = call
    chain = chain
    other = other
    wide = wide
    blank = blank
    None = None
    Old = Old
    Keys = {k1, k2, k3}
    Values <- Answers
    Chains <- Plans
    Plan <- Steps
    Toolless <- Blanks
    Max = 2
    TTL = 1
    MaxClock = 3
    MaxMoves = 8
    Requests = {r1, r2, r3, r4}
    Clients = {ip}
    Emails = {e1}
    Passwords = {p1}
    SessionTTL = 1
    MaxSteps = 2
    Attempts = 2
    Timeout = 1
    RateMax = 2
    RateWindow = 1
    AuthMax = 1
    AuthWindow = 2
    MaxCrashes = 1
CHECK_DEADLOCK FALSE
SYMMETRY Symmetry
CONSTRAINT Few
INVARIANTS
    GateTypeOK
    RecentlyUsedKept
    CacheIsFresh
    AnsweredInTime
    AnswersStand
    StartsAfterCrash
PROPERTIES
    KeepsPromise
    SparesModel
    LimiterExact
