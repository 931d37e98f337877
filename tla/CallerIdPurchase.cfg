SPECIFICATION Spec
CONSTANTS
    Calls = {c1, c2}
    Tokens = {t1, t2}
    Names = {n1}
    NoToken = none
    MaxAttempts = 2
INVARIANTS TokenOwnsOne UnmarkedMeansNothingBought
PROPERTIES BuysAtMostOnce
CHECK_DEADLOCK FALSE
