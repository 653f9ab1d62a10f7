SPECIFICATION Spec
CONSTANTS
    r1 = r1
    r2 = r2
    w1 = w1
    Requests = {r1, r2}
    Workers = {w1}
    None = None
    Product = "CDL"
    Gates = {"AGREEMENT"}
    Kinds = {"processed"}
    MaxAttempts = 1
    SlowCalls = FALSE
    LostReplies = FALSE
    Crashes = TRUE
INVARIANTS
    CompletedIsBooked
    OneInitiationAtATime
    AcknowledgedIsHeard
SYMMETRY Symmetry
CHECK_DEADLOCK FALSE
