CONSTANTS
    N = 4
    MaxPush = 9
    Rounds = 2
    MMAP_MAX_TRIES = 2
SPECIFICATION Spec
CHECK_DEADLOCK FALSE
INVARIANT CopyInMapping
