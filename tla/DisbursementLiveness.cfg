SPECIFICATION FairSpec
CONSTANTS
    r1 = r1
    w1 = w1
    Requests = {r1}
    Workers = {w1}
    None = None
    Product = "HOUSING_LOAN"
    Gates = {}
    Kinds = {"processed"}
    MaxAttempts = 2
    SlowCalls = FALSE
    LostReplies = FALSE
    Crashes = TRUE
PROPERTIES
    AccountGetsSchedule
    LockIsReleased
CHECK_DEADLOCK FALSE
