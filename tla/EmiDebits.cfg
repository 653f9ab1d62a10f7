SPECIFICATION Spec
CONSTANTS
    n1 = n1
    n2 = n2
    t1 = t1
    w1 = w1
    w2 = w2
    c1 = c1
    l1 = l1
    LastEmi = 1
    LastDay = 3
    RetryLimit = 3
    RetryDays = 1
    NpaDays = 2
    MaxAttempts = 4
    NachRuns = {n1, n2}
    RetryRuns = {t1}
    Workers = {}
    Clerks = {c1}
    Links = {}
    None = None
    SyncCapture = FALSE
    LostReplies = FALSE
    Amounts = {"all", "part", "penalty"}
    Crashes = TRUE
SYMMETRY Interchangeable
INVARIANTS
    TypeOK
    OneDebitPerAttempt
    WithinRetryLimit
CHECK_DEADLOCK FALSE
