SPECIFICATION Spec
CONSTANTS
    Shares = {s1}
    Handlers = {h1}
    Sweepers = {w1}
    Worker = w1
    Never = Never
    NoOne = NoOne
    Public = FALSE
    DefaultTTL = 1
    MaxTTL = 2
    Grace = 2
    TransferDeadline = 1
    BatchSize = 1
    MaxBatches = 1
    Wants = {Never, 2}
    MaxTime = 4
    MaxFaults = 0
PROPERTIES
    ExpiredNotRevived
