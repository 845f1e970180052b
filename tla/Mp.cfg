\* One or two producers, one or two consumers, both classes; capacity 1.
CONSTANTS
    N = 2
    Producers = {p1, p2}
    Consumers = {c1, c2}
    Total = 4
SPECIFICATION Spec
INVARIANTS NoOverrun NothingUnwritten CountPreserved EveryValuePopped
PROPERTY AllPushesReturn
