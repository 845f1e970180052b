\* Capacity 3; nine pushes pass the mirror (slots 4..7) and wrap it, twice.
CONSTANTS
    N = 4
    Consumers = {c1, c2}
    NumPush = 9
    Rounds = 2
    Ordered = TRUE
SPECIFICATION Spec
INVARIANTS TypeOK WindowIntact InFlight CasValid IsSorted AllPopped
PROPERTIES ImplementsQueue Terminates
