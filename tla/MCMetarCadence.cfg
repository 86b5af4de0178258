SPECIFICATION FairSpec
CONSTANTS
    Stations = {"LFPB", "RKSI"}
    Sessions = {"paris_high", "paris_low", "seoul_high"}
    StationOf <- MCStationOf
    Keyed = TRUE
    Reports = 1
    Idle = 4
    Arm = 2
    TafEvery = 3
    Cooldown = 2
    FastPoll = 1
    Scan = 2
    Late = 1
INVARIANTS
    SeenIsRemembered
    ArmedIsAskedFor
PROPERTIES
    JitterErasesNothing
    EveryReportIsRead
CHECK_DEADLOCK FALSE
