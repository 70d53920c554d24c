SPECIFICATION FairSpec
CONSTANTS
    MCNothing = Nothing
    Nothing = Nothing
    Settings <- MCSettings
    Grace = 3
    PassTime = 1
    MaxBusy = 2
INVARIANT
    StopsAcceptingAtOnce
CHECK_DEADLOCK FALSE
