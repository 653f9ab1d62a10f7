SPECIFICATION BackOfficeSpec
CONSTANTS
    Desks = {"kyc", "agreement", "app", "application", "gold", "commissions", "session"}
    x1 = x1
    x2 = x2
    Resting <- AtTheStart
    KycCalls = {x1, x2}
    Journeys <- Customers
    Failing = {"AADHAAR_VERIFY", "LIVENESS", "RISK_SCORE"}
    AppCalls = {x1, x2}
    Callbacks = {w1}
    LastRequest = 2
    Endpoints = {"cdl", "gold", "kyc"}
    LostCallbacks = TRUE
    MaxDeaths = 1
    GoldNach = {g1}
    SalesSubmit = {s1}
    CdlSubmit = {s1}
    CdlNach = {c1}
    Requests = {x1, x2}
    Platforms = {"web", "native"}
    MaxFaults = 1
    MaxDrops = 1
    None = None
    Staff = {x1, x2}
    Products = {"cdl", "gold", "housing"}
    Disruptions = 2
    Auctions = {x1, x2}
    Clerks = {x1, x2}
    MaxSchedulings = 2
    NoAuction = NoAuction
    Earnings = {x1, x2}
    Accounts = {l1}
    NoAccount = NoAccount
    Batches = {x1, x2}
    Listeners = {n1}
    PayoutAttempts = 3
    Calls = {x1, x2}
    NoToken = NoToken
    MaxMishaps = 1
SYMMETRY Symmetry
INVARIANTS
    DesksTypeOK
    CompleteIsEarned
    ListedNeverCompletes
    GateIsBacked
    SignatureIsNotOrphaned
    KeyedRunsOnce
    DoneIsRecorded
    ApprovedHasTerms
    GoldIsAppraised
    SoldOncePerScheduling
    AuctionedIsSold
    CommissionPaidOnce
    TransferIsClaimed
    SessionKept
PROPERTIES
    DecidedStays
CHECK_DEADLOCK FALSE
