SPECIFICATION ProgressSpec
CONSTANTS
    Desks = {"agreement", "app", "collections", "session"}
    i1 = i1
    i2 = i2
    c1 = c1
    c2 = c2
    AppCalls = {c1, c2}
    Callbacks = {w1}
    LastRequest = 2
    Endpoints = {"cdl"}
    LostCallbacks = FALSE
    MaxDeaths = 1
    GoldNach = {}
    SalesSubmit = {s1}
    CdlSubmit = {}
    CdlNach = {k1}
    Requests = {c1, c2}
    Platforms = {"web"}
    MaxFaults = 1
    MaxDrops = 1
    None = None
    LastCase = 4
    Watches = {i1}
    Assigners = {i2}
    Officers = {o1}
    MaxWrites = 1
    MaxTroubles = 1
    Calls = {c1, c2}
    NoToken = NoToken
    MaxMishaps = 1
INVARIANTS
    OneOpenCase
PROPERTIES
    DeadRequestIsReplaced
    
    BouncedGetsCase
    PromiseIsJudged
    EveryCallSettles
CHECK_DEADLOCK FALSE
