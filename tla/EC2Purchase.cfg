SPECIFICATION Spec
CONSTANTS
    Calls = {c1, c2}
    Tokens = {t1, t2}
    NoToken = none
    Shape <- SameShape
    TagAttempts = 2
    ClockSkew = 1
    Drift = 1
    OmitsFields = TRUE
    MaxTime = 1
INVARIANTS UnmarkedMeansNothingBought
PROPERTIES FoundPassesOverNothing BuysAtMostOnce
SYMMETRY TokenSymmetry
CHECK_DEADLOCK FALSE
