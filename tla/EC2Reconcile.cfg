SPECIFICATION Spec
CONSTANTS
    Calls = {c1, c2}
    Tokens = {t1, t2}
    NoToken = none
    Shape <- SameShape
    TagAttempts = 2
    ClockSkew = 0
    Drift = 0
    OmitsFields = FALSE
    MaxTime = 0
INVARIANTS FoundIsOwn
CHECK_DEADLOCK FALSE
