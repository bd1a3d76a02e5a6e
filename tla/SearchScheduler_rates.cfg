CONSTANTS
    a = a
    b = b
    c = c
    x = x
    y = y
    Jobs = {a, b}
    Indexers = {x}
    RSS = {b}
    Wanted <- WantedMC
    Priority <- PriorityMC
    Interval <- IntervalMC
    MaxWait <- BudgetMC
    MinInterval = 2
    Period <- PeriodsMC
    Levels = 1
    Workers = 2
    SubmitCap = 1
    CompleteCap = 2
    MaxRetry = 3
    MaxDownloads = 1
    MayStop = FALSE
SPECIFICATION Spec
CHECK_DEADLOCK FALSE
INVARIANT WorkersExclusive
PROPERTY StartsSpaced
