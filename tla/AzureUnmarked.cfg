SPECIFICATION Spec
CONSTANTS
    Calls = {c1}
    Tokens = {t1}
    NoToken = none
    MaxAttempts = 3
    KeepsTags = FALSE
INVARIANTS UnmarkedMeansNothingBought
CHECK_DEADLOCK FALSE
