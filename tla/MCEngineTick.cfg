CONSTANTS
    NSymbols = 2
    NPos = 2
    PricesOf <- MCMarkets
    Atrs <- MCAtrs
    StopDistances <- MCDistances
    Slips <- MCSlips
    GridFactors <- MCFactors
    Margin = TRUE
    RiskCoef = 2
    RiskPct = 1
    MaxExposurePct = 40
    MaxPositions = 4
    BeRR = 15
    PartialRR = 25
    TrailMult = 12
    PartialPct = 50
    HalfPct = 8
    StopPct = 12
    StaleDays = 1
    DecayRate = 200
    MaxStale = 2
    Capital = 2000
    Amounts <- MCAmounts
    MaxBalance = 2000
SPECIFICATION FairSpec
INVARIANTS
    BreakevenProtects
PROPERTIES
    StopsOnlyTighten
    DrawdownUnblocks
