CONSTANTS
    Instances = {i1}
    None = None
    Strides = {1}
    MaxTime = 2
    Callers = {c1, c2}
    Handlers = {h1, h2}
    Checkers = {k}
    Locks = {l1, l2, l3, l4, l5}
    Ids = {1, 2, 3, 4}
    Backoffs <- BackoffsMC
    Width = 2
    MaxAttempts = 2
    MaxEdits = 2
SPECIFICATION PoolSpec
SYMMETRY Symmetry
INVARIANTS
    ClientCurrent
    RefreshHasClient
PROPERTIES
    ConnectionsSpaced
CHECK_DEADLOCK FALSE
