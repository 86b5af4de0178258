\* A low contract of a Fahrenheit market, both legs, a live port that may refuse or raise,
\* and one crash, anywhere.
SPECIFICATION Spec
CONSTANTS
    None = None
    NumBuckets = 4
    Base = 550
    Width = 20
    Cities = {"paris"}
    Contracts <- MCLow
    MaxDay = 0
    MaxClock = 2
    LocalDay <- MCDay
    LocalHour <- MCLowHour
    Temps = {572, 590, 608, 626}
    Stamps = {1, 2, 3}
    TafTemps = {608, 626}
    Listings <- MCAll
    MaxOpen = 12
    StrategyMaxOpen = 0
    ArmDistance = 10
    ConfirmMargin = 10
    NoLegEnabled = TRUE
    AllowMarketRef = FALSE
    AllowMarketRefFire = FALSE
    Live = TRUE
    Capital = 3
    LegCost = 1
    Payout = 2
    Bids = {1}
    MaxEdits = 0
    SavesFail = FALSE
    MaxCrashes = 1
INVARIANTS
    OneHeldYes
    OneFirePerObservation
    AtMostTwoFires
    MarkerGuardsPosition
PROPERTIES
    ImplementsLifecycle
