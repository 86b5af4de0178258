SPECIFICATION Spec
CONSTANTS
    Tick = 2
    One = 20
    Tokens = {1, 2}
    Books <- MCBooks
    Accounts <- MCAccounts
    Limits <- MCLimits
    Budget = 24
    Dust = 1
    Clients <- MCClients
    Legs = {"buy_yes", "buy_no"}
    ConfigCaps <- MCCaps
    Overrides = {0, 11}
    ForeignOrders <- MCForeign
    Moves = 1
INVARIANTS
    CleanRunLeavesNothing
    PlannedRestingIsReported
    OnlyOwnScope
PROPERTIES
    PostsWithinRules
CHECK_DEADLOCK FALSE
