CONSTANTS
    Word4 = 1
    Addresses <- MCAddresses
    Inputs <- MCInputs
SPECIFICATION Spec
CHECK_DEADLOCK FALSE
INVARIANTS BailingOutIsHarmless StubEnds MapIsTrue
