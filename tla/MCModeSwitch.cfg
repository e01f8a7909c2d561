\* Two HTTP threads, the engine and a restart; brokers replaced twice.
SPECIFICATION Spec
SYMMETRY SymmetricHandlers
CONSTANTS
    Handlers = {h1, h2}
    BootKind = "spot"
    Capital = 1
    MaxCash = 2
    MaxAccounts = 3
    MaxBoots = 1
INVARIANTS
    FlagsTellTheBroker
    ExitsStayHome
PROPERTIES
    RestartKeepsMode
    SavedCashIsOwn
