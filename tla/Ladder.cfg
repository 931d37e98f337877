SPECIFICATION Spec
CONSTANTS
    Nil = Nil
    RampSumEpsilon <- Eps
    HorizonDays = 1
    MinBaselineSeriesDays = 2
    MaxMissingDays = 1
    MaxSeriesAgeDays = 2
    SPPrecision = 4
    SPMinimum <- Minimum
    Settings <- MCSettings
    Quotes <- MCQuotes
    Region = "us-east-1"
    TermDays = 3
    MaxDay = 2
    MaxRuns = 3
INVARIANTS OverBuysByRateErrorOnly WithinRunLimits GapIsAccounted TranchesAddUp
CHECK_DEADLOCK FALSE
