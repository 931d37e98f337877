SPECIFICATION Spec
CONSTANTS
    Calls = {c1, c2}
    Tokens = {t1}
    NoToken = none
    MaxAttempts = 2
    KeepsTags = FALSE
INVARIANTS TokenOwnsOne CurrencyMeansNothingBought
CHECK_DEADLOCK FALSE
