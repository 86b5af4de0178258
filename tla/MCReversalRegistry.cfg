\* The operator drops a city from the registry and puts it back.
SPECIFICATION Spec
CONSTANTS
    None = None
    NumBuckets = 4
    Base = 100
    Width = 10
    Cities = {"paris", "seoul"}
    Contracts <- MCHigh
    MaxDay = 0
    MaxClock = 0
    LocalDay <- MCDay
    LocalHour <- MCHighHour
    Temps = {110, 120, 130}
    Stamps = {1, 2}
    TafTemps = {100, 110, 120}
    Listings <- MCAll
    MaxOpen = 12
    StrategyMaxOpen = 0
    ArmDistance = 10
    ConfirmMargin = 0
    NoLegEnabled = FALSE
    AllowMarketRef = FALSE
    AllowMarketRefFire = TRUE
    Live = FALSE
    Capital = 2
    LegCost = 1
    Payout = 2
    Bids = {1}
    MaxEdits = 2
    SavesFail = FALSE
    MaxCrashes = 0
INVARIANTS
    RowHoldsTwoFires
