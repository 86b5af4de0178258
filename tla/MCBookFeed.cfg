\* Two tokens, the second listed later; two moves, one of which leaves a book empty; a
\* connection may choke on the first token.
SPECIFICATION FairSpec
CONSTANTS
    Tokens = {"yes", "no"}
    First = {"yes"}
    Moves = 2
    Gone = {1}
    Fresh = 0
    Pipe = 1
    Mute = {"yes"}
INVARIANTS
    SubscriptionCovers
    InSyncWhenQuiet
PROPERTIES
    CacheConverges
CHECK_DEADLOCK FALSE
