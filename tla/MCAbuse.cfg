SPECIFICATION Spec
CONSTANTS
    c1 = c1
    c2 = c2
    proxy = proxy
    k1 = k1
    k2 = k2
    kp = kp
    create = create
    Calls = {r1, r2}
    Addresses = {c1, c2, proxy}
    Trusted = {proxy}
    Malformed = Malformed
    RateKey <- MCRateKey
    Kinds = {create}
    Global = Global
    Interval <- MCInterval
    Burst <- MCBurst
    ClientIdleTTL = 7
    SweepInterval = 2
    MaxClients = 2
    NoEntry = NoEntry
    NoCall = NoCall
    MaxLag = 1
    Windows = {1}
    MaxTime = 7
SYMMETRY Symmetry
INVARIANTS
    IndInv
    ClientRate
    GlobalRate
    ChargedToSender
PROPERTIES
    FullOnlyOfActive
