SPECIFICATION Spec
CONSTANTS
    c1 = c1  c2 = c2  c3 = c3
    k1 = k1  k2 = k2  ambient = ambient  fake = fake
    s1 = s1  s2 = s2  s3 = s3
    None = None
    Callers = {c1, c2, c3}
    Op <- Calling
    Credentials = {k1, k2}
    Ambient = ambient
    Clients = {fake}
    Subscriptions = {s1, s2, s3}
    Visible <- Sees
    Configs <- All
    MaxGen = 1
    Consumption = {"compute", "database"}
    Requests <- Asked
    Slots = 1
    MaxParallelism = 2
INVARIANTS FreshAfterInvalidation OutlivesOneCancellation SlotsBoundCalls NothingUnaccounted
CHECK_DEADLOCK FALSE
