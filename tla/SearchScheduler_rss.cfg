CONSTANTS
    a = a
    b = b
    c = c
    x = x
    y = y
    Jobs = {a, b}
    Indexers = {x, y}
    RSS = {a, b}
    Wanted <- WantedMC
    Priority <- PriorityMC
    Interval <- NoWaits
    MaxWait <- NoWaits
    MinInterval = 0
    Period <- NoPeriods
    Levels = 0
    Workers = 1
    SubmitCap = 1
    CompleteCap = 1
    MaxRetry = 1
    MaxDownloads = 0
    MayStop = TRUE
SPECIFICATION Spec
CHECK_DEADLOCK FALSE
INVARIANT RSSEntriesExact
INVARIANT JobDoneOnceAndLast
INVARIANT DeliveredComplete
SYMMETRY Symmetry
