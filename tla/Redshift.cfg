SPECIFICATION MCSpec
CONSTANTS
    c1 = c1  c2 = c2  c3 = c3
    e1 = e1  e2 = e2  e3 = e3
    t1 = t1  t2 = t2
    o1 = o1  o2 = o2
    Calls = {c1, c2, c3}
    Executions = {e1, e2, e3}
    Tokens = {t1, t2}
    TokenOf <- TwoTokens
    RequestedAt <- RequestTimes
    CountOf <- NodeCounts
    Offerings = {o1, o2}
    ClaimReader = TRUE
    OmitsOffering = TRUE
    OmitsCount = TRUE
    OmitsStart = TRUE
    Skew = 1
    Contracts = {TRUE, FALSE}
    Journals = {TRUE, FALSE}
    MaxTime = 1
INVARIANTS TokenOwnsOne ExecutionSendsOnce EveryBuyIsRecorded SuccessIsRecorded
PROPERTIES BuysAtMostOnce
SYMMETRY RedriveSymmetry
CHECK_DEADLOCK FALSE
