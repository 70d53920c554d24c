SPECIFICATION FairSpec
CONSTANTS
    MCNothing = Nothing
    Nothing = Nothing
    Settings <- MCSettings
    Grace = 3
    PassTime = 1
    MaxBusy = 2
INVARIANTS
    ServesProtected
    StorageOutlives
    AllClosed
    TimelyExit
    StopsAccepting
PROPERTIES
    Ends
CHECK_DEADLOCK FALSE
