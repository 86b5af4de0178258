\* Two cities in two time zones under a cap of one open position, saves that may fail.
SPECIFICATION Spec
VIEW WithoutFile
CONSTANTS
    None = None
    NumBuckets = 4
    Base = 100
    Width = 10
    Cities = {"paris", "seoul"}
    Contracts <- MCTwo
    MaxDay = 0
    MaxClock = 2
    LocalDay <- MCZoneDay
    LocalHour <- MCZoneHour
    Temps = {110, 120}
    Stamps = {1, 2}
    TafTemps = {110}
    Listings <- MCAll
    MaxOpen = 1
    StrategyMaxOpen = 1
    ArmDistance = 10
    ConfirmMargin = 0
    NoLegEnabled = FALSE
    AllowMarketRef = FALSE
    AllowMarketRefFire = TRUE
    Live = FALSE
    Capital = 2
    LegCost = 1
    Payout = 2
    Bids = {1}
    MaxEdits = 0
    SavesFail = TRUE
    MaxCrashes = 0
INVARIANTS
    OpenWithinCap
