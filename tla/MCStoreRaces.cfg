SPECIFICATION Spec
CONSTANTS
    Shares = {s1}
    Handlers = {h1, h2}
    Sweepers = {w1, w2}
    Worker = w1
    Never = Never
    NoOne = NoOne
    Public = TRUE
    DefaultTTL = 2
    MaxTTL = 2
    Grace = 2
    TransferDeadline = 1
    BatchSize = 1
    MaxBatches = 2
    Wants = {Never, 2, 3}
    MaxTime = 3
    MaxFaults = 0
SYMMETRY Symmetry
VIEW View
INVARIANTS
    PublicHorizon
    OpenFailsOnlyIfDeleted
PROPERTIES
    ImplementsLifecycle
