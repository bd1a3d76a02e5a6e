CONSTANTS
    a = a
    b = b
    c = c
    x = x
    y = y
    Jobs = {a, c}
    Indexers = {x, y}
    RSS = {}
    Wanted <- WantedMC
    Priority <- PriorityMC
    Interval <- NoWaits
    MaxWait <- NoWaits
    MinInterval = 0
    Period <- NoPeriods
    Levels = 0
    Workers = 1
    SubmitCap = 1
    CompleteCap = 1
    MaxRetry = 1
    MaxDownloads = 0
    MayStop = FALSE
SPECIFICATION FairSpec
CHECK_DEADLOCK FALSE
PROPERTY ResultsDelivered
