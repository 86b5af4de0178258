\* The shipped config: YES leg only, Celsius market, one high contract.
SPECIFICATION FairSpec
CONSTANTS
    None = None
    NumBuckets = 4
    Base = 100
    Width = 10
    Cities = {"paris"}
    Contracts <- MCHigh
    MaxDay = 0
    MaxClock = 2
    LocalDay <- MCDay
    LocalHour <- MCHighHour
    Temps = {100, 110, 120, 130}
    Stamps = {1, 2, 3}
    TafTemps = {110, 120}
    Listings <- MCGaps
    MaxOpen = 12
    StrategyMaxOpen = 0
    ArmDistance = 10
    ConfirmMargin = 0
    NoLegEnabled = FALSE
    AllowMarketRef = TRUE
    AllowMarketRefFire = TRUE
    Live = FALSE
    Capital = 2
    LegCost = 1
    Payout = 2
    Bids = {0, 1}
    MaxEdits = 0
    SavesFail = FALSE
    MaxCrashes = 0
INVARIANTS
    TypeOK
    RefireGoesFurther
    LedgerMatchesLegs
PROPERTIES
    ArmedCoolsDown
    PositionsSettle
