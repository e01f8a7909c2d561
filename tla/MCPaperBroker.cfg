CONSTANTS
    NPos = 2
    NKeys = 2
    Prices <- MCPrices
    Qtys <- MCQtys
    BuySlips <- MCBuySlips
    SellSlip = 1
    Scale = 10
    FeeRate = 1
    MinOrder = 3
    Capital = 75
    Amounts <- MCAmounts
    MaxFunding = 130
SPECIFICATION BrokerSpec
INVARIANTS
    BooksBalance
PROPERTIES
    ImplementsAccount
