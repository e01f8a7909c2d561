CONSTANTS
    NPos = 4
    NKeys = 1
    Prices <- TrailPrices
    Qtys <- NoQtys
    BuySlips <- OneSlip
    SellSlip = 1
    Scale = 10
    FeeRate = 1
    MinOrder = 2
    Capital = 150
    Amounts <- NoQtys
    MaxFunding = 0
    NLevels = 2
    Levels <- TwoLevels
    TotalQuote = 8
    Reinvest = "all_grids"
    ActivationPrice = 2
    TrailingUp = TRUE
    Autofix = TRUE
    MissedCap = 2
    SavedMissedCap = 1
    OtherQtys <- NoQtys
    MaxShift = 1
    MaxRestarts = 0
    MaxCommands = 4
SPECIFICATION FairGridSpec
INVARIANTS
    ProfitIsReported
PROPERTIES
    DueLevelsAreSold
