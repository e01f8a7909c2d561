CONSTANTS
    Handlers = {h1, h2}
    Workers = {w1, w2}
    None = None
    MaxCrashes = 1
SPECIFICATION FairSpec
INVARIANTS
    TicksExclusive
PROPERTIES
    LockIsFreed
    StoppedLoopsEnd
