CONSTANTS
    Handlers = {h1}
    Workers = {w1}
    None = None
    MaxCrashes = 0
    Clients = {c1}
    GridThreads = {gt}
    Grids = {g1}
    Capital = 6
    Allocation = 2
    Costs = {2, 6}
SPECIFICATION AccountSpec
INVARIANTS
    OverdraftBounded
