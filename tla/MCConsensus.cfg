SPECIFICATION FairTracker
CONSTANTS
    Buckets = {"b1", "b2"}
    Quotes <- MCQuotes
    Window = 2
    Keep = 2
    MaxLen = 3
    Need = 3
INVARIANTS
    TwapIsPointwise
    ThinHistoryRefused
    VerdictSurvivesRestart
PROPERTIES
    AbandonedBucketFalls
CHECK_DEADLOCK FALSE
