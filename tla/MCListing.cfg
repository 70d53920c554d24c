SPECIFICATION Spec
CONSTANTS
    Shares = {1, 2, 3}
    Never = Never
    NoCursor = NoCursor
    Limit = 1
    MaxTime = 2
INVARIANTS
    IndInv
    ListedOnce
    NothingMissed
