CONSTANTS
    Workers = {w1, w2}
    NumFiles = 2
    ITEMS_PER_SEARCH = 2
    MaxAgain = 1
SPECIFICATION Spec
CHECK_DEADLOCK FALSE
INVARIANT OnlyAgainGoesOn
