SPECIFICATION FairSpec
CONSTANTS
    n1 = n1
    n2 = n2
    t1 = t1
    w1 = w1
    w2 = w2
    c1 = c1
    l1 = l1
    LastEmi = 2
    LastDay = 1
    RetryLimit = 3
    RetryDays = 1
    NpaDays = 0
    MaxAttempts = 1
    NachRuns = {n1}
    RetryRuns = {}
    Workers = {w1, w2}
    Clerks = {}
    Links = {}
    None = None
    SyncCapture = TRUE
    LostReplies = TRUE
    Amounts = {"all", "part"}
    Crashes = FALSE
INVARIANTS
    PaidIsBacked
    SuccessIsCharged
PROPERTIES
    ChargedIsBooked
    ImplementsCollection
CHECK_DEADLOCK FALSE
