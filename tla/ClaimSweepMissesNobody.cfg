SPECIFICATION CollectionsSpec
CONSTANTS
    LastCase = 1
    Watches = {i1}
    Assigners = {}
    Officers = {}
    MaxWrites = 0
    MaxTroubles = 0
PROPERTIES
    SweepMissesNobody
CHECK_DEADLOCK FALSE
