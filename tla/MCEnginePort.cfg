SPECIFICATION Spec
CONSTANTS
    Tick = 1
    One = 10
    Parts <- MCParts
    Limits <- MCLimits
    Configs <- MCConfigs
    ModeVars = {"", "live", "warp"}
    Asks = {3, 6, 11}
    Marks = {1, 3}
    Rungs = 2
    Wallet = 7
    Lags = TRUE
    Days = 1
    Edits = 1
    Windows = 2
INVARIANTS
    KillSwitchBinds

    
CHECK_DEADLOCK FALSE
