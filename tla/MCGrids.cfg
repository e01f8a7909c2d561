CONSTANTS
    NPos = 5
    NKeys = 2
    Prices <- MCPrices
    Qtys <- NoQtys
    BuySlips <- OneSlip
    SellSlip = 1
    Scale = 10
    FeeRate = 1
    MinOrder = 2
    Capital = 240
    Amounts <- NoQtys
    MaxFunding = 0
    NLevels = 2
    Levels <- TwoLevels
    TotalQuote = 8
    Reinvest = "per_grid"
    ActivationPrice = 0
    TrailingUp = FALSE
    Autofix = TRUE
    MissedCap = 2
    SavedMissedCap = 1
    OtherQtys <- OneQty
    MaxShift = 0
    MaxRestarts = 1
    MaxCommands = 3
SPECIFICATION GridSpec
INVARIANTS
    
    HeldLevelsBacked
    
    ReservationsFunded
