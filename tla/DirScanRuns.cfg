CONSTANTS
    top = top
    a = a
    b = b
    Directories = {d}
    Paths = {top, a, b}
    Above <- AboveMC
    DirPath <- DirPathMC
    Callers = {c1, c2}
    Triggers = {s}
    MaxConcurrentRuns = 1
    HistoryLimit = 2
    MaxRuns = 3
    MaxEvents = 4
    None = None
SPECIFICATION Spec
SYMMETRY Symmetry
INVARIANTS
    TypeOK
    WebhookCovered
    OneFollowUp
    NoStrandedRun
PROPERTIES
    NotRevived
CHECK_DEADLOCK FALSE
