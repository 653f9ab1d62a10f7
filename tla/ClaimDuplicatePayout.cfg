SPECIFICATION Spec
CONSTANTS
    r1 = r1
    r2 = r2
    Requests = {r1, r2}
    Workers = {}
    None = None
    Product = "GOLD_LOAN"
    Gates = {}
    Kinds = {"processed"}
    MaxAttempts = 1
    SlowCalls = FALSE
    LostReplies = FALSE
    Crashes = TRUE
INVARIANTS
    OnePayoutOut
SYMMETRY Symmetry
CHECK_DEADLOCK FALSE
