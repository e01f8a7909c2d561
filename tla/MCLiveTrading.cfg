CONSTANTS
    Threads = {t1, t2}
    MaxRetries = 1
    Clients = {"wallex", "generic"}
    GridThread = t1
    Positions = {p1}
    Qty = 2
    DedupClients = {"wallex"}
    Brokers = {"spot", "margin"}
    MaxCalls = 3
    MaxFaults = 2
SPECIFICATION FairSpec
CHECK_DEADLOCK FALSE
INVARIANTS
    NoPhantomFills
    LedgersAgree
PROPERTIES
    LevelsLetGoWhenSold
    CallsReturn
