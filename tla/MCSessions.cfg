SPECIFICATION Spec
CONSTANTS
    Logins = {l1, l2}
    Requests = {r1, r2}
    Clients = {c1}
    NoEntry = NoEntry
    SessionTTL = 2
    MaxSessions = 1
    LoginInterval = 1
    LoginBurst = 2
    LoginIdleTTL = 2
    MaxLoginIPs = 1
    MaxLag = 0
    Windows = {0}
    MaxTime = 3
INVARIANTS
    RegistriesBounded
    ActsOnlyInForce
PROPERTIES
    EndedOnly
