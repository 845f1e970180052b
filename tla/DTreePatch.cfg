CONSTANTS
    Word4 = 1
    Trees <- MCTrees
    Specs <- MCSpecs
    Images <- MCImages
    MaxPatches = 2
    UPPER = 4
    MaxBytes = 4
    DataBytes = {0, 3, 4, 7}
SPECIFICATION Spec
CHECK_DEADLOCK FALSE
INVARIANTS PatchKeepsShape
