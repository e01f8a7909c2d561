CONSTANTS
    NPos = 2
    Prices <- MCPrices
    Qtys <- MCQtys
    RiskCoefs <- MCRiskCoefs
    MaxRiskCoef = 5
    OpenSlips <- MCSlips
    CloseSlip = 1
    Scale = 100
    FeeRate = 1
    MaintRate = 10
    InterestDiv = 10
    Period = 2
    MaxAge = 4
    MaxTime = 4
    MinCollateral = 150
    MaxCollateral = 1500
    Capital = 600
    Amounts <- MCAmounts
    MaxFunding = 900
SPECIFICATION Spec
INVARIANTS
    MarginSolvent
    SharesStayExact
    InterestOncePerPeriod
PROPERTIES
    WicksLiquidateFirst
