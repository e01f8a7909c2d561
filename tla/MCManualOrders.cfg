CONSTANTS
    NPos = 2
    NKeys = 0
    Prices <- ThreePrices
    Qtys <- OneQty
    BuySlips <- NoSlip
    SellSlip = 0
    Scale = 10
    FeeRate = 1
    MinOrder = 2
    Capital = 60
    Amounts <- NoAmounts
    MaxFunding = 0
    NOrders = 2
    Kinds <- AllKinds
    Brackets <- SomeBrackets
    NCandles = 1
SPECIFICATION OrdersSpec
INVARIANTS
    RowsMatchTrades
    BracketsEnforced
