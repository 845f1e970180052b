\* AArch64: the producer's plain stores may become visible in any order.
CONSTANTS
    N = 4
    Consumers = {c1, c2}
    NumPush = 2
    Rounds = 1
    Ordered = FALSE
SPECIFICATION SafeSpec
INVARIANT IsSorted
