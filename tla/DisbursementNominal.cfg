SPECIFICATION Spec
CONSTANTS
    r1 = r1
    r2 = r2
    w1 = w1
    Requests = {r1, r2}
    Workers = {w1}
    None = None
    Product = "GOLD_LOAN"
    Gates = {"AGREEMENT"}
    Kinds = {"updated", "processed", "failed", "reversed"}
    MaxAttempts = 1
    SlowCalls = FALSE
    LostReplies = FALSE
    Crashes = FALSE
INVARIANTS
    TypeOK
    OnePayoutOut
    NoRowBeforeGates
SYMMETRY Symmetry
CHECK_DEADLOCK FALSE
