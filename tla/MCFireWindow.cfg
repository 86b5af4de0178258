\* Both ports and both legs; the venue may leave an order of the second leg partly matched.
SPECIFICATION FairSpec
CONSTANTS
    NLegs = 2
    Want <- MCWant
    Cap <- MCCap
    Floor <- MCFloor
    Tick = 2
    Ports = {"live", "paper"}
    Quotes <- MCQuotes
    BudgetMs = 3000
    Polls = 2
    Cancels = 2
    RestsPartly = {2}
    Capital = 6
INVARIANTS
    FillsBookedOrFlagged
    SpendWithinBudget
    LedgerCoversFills
    RestingIsFlagged
    PaperFillsQuotedDepth
PROPERTIES
    WindowEnds
CHECK_DEADLOCK FALSE
