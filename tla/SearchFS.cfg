\* Two or three pages of at most two files; one or two threads.
CONSTANTS
    Workers = {w1, w2}
    NumFiles = 5
    ITEMS_PER_SEARCH = 2
    MaxAgain = 1
SPECIFICATION Spec
CHECK_DEADLOCK FALSE
INVARIANTS EveryMatchProcessed CountIsBounded
PROPERTY Returns
