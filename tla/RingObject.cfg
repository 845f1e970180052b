\* Capacity 3; nine pushes pass the mirror (slots 4..7) and wrap it.
CONSTANTS
    N = 4
    MaxPush = 9
    Rounds = 2
    MMAP_MAX_TRIES = 2
SPECIFICATION Spec
CHECK_DEADLOCK FALSE
INVARIANTS CopyProtected PopsInOrder ReadyIsMapped FilesClosed DestroyedIsUnmapped
PROPERTY ConstructionEnds
