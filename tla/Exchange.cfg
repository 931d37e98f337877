SPECIFICATION Spec
CONSTANTS
    r1 = r1  r2 = r2
    x1 = x1  x2 = x2
    Runs = {r1, r2}
    RIs = {x1, x2}
    Params <- Instances
    Prices = {1, 2}
    PerExchangeCap = 2
    DailyCap = 3
    MaxLedgerAttempts = 2
    PriceHolds = TRUE
INVARIANTS WithinDailyCap LedgerCoversMoney OneInDoubtPerRun OnePendingPerSource
CHECK_DEADLOCK FALSE
