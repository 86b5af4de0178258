\* One leg over all three rungs; the answer to a submit may be lost.
SPECIFICATION Spec
CONSTANTS
    NLegs = 1
    Want <- MCOneWant
    Cap <- MCOneCap
    Floor <- MCOneFloor
    Tick = 1
    Ports = {"live"}
    Quotes <- MCOneQuotes
    BudgetMs = 8000
    Polls = 2
    Cancels = 2
    RestsPartly = {}
    Capital = 100
INVARIANTS
    NeverBuysTwice
CHECK_DEADLOCK FALSE
