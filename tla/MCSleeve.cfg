SPECIFICATION FairSpec
CONSTANTS
    NBuckets = 2
    High = TRUE
    Window = 2
    MaxLen = 3
    Short = 1
    Long = 2
    RankWindow = 2
    Drop = 1
    Rise = 1
    MaxAsk = 3
    MinTicks = 2
    Quotes <- MCQuotes
    Bids = {0, 1}
    Steps = {1, 2}
    Timeout = 2
    Budget = 1
    Capital = 1
    Payout = 2
    Entries = 2
INVARIANTS
    SleeveCashAccounted
    OpenRowIsGuarded
    SignalIsAMove
PROPERTIES
    NoLiveRowLost
    SleeveEnds
CHECK_DEADLOCK FALSE
