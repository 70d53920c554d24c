SPECIFICATION Spec
CONSTANTS
    Logins = {l1, l2}
    Requests = {}
    Clients = {c1, c2}
    NoEntry = NoEntry
    SessionTTL = 3
    MaxSessions = 1
    LoginInterval = 3
    LoginBurst = 2
    LoginIdleTTL = 8
    MaxLoginIPs = 1
    MaxLag = 1
    Windows = {0, 7}
    MaxTime = 9
\* Once every login request has succeeded and the clock is at its bound, all is done.
CHECK_DEADLOCK FALSE
INVARIANTS
    IndInv
    LoginRate
