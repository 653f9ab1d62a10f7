SPECIFICATION Spec
CONSTANTS
    r1 = r1
    w1 = w1
    w2 = w2
    Requests = {r1}
    Workers = {w1, w2}
    None = None
    Product = "GOLD_LOAN"
    Gates = {}
    Kinds = {"processed", "reversed"}
    MaxAttempts = 1
    SlowCalls = TRUE
    LostReplies = TRUE
    Crashes = FALSE
INVARIANTS
    BooksMatchBank
PROPERTIES
    ImplementsBooking
SYMMETRY Symmetry
CHECK_DEADLOCK FALSE
