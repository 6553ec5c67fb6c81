SPECIFICATION Spec
CONSTANTS
    NoState = NoState
    MaxTag = 2
    MaxSpTag = 9
    MaxSEW = 3
    MaxDepth = 0
    Options <- MCNoCache
    NormalInsts <- MCNormalInsts
    SpecInsts <- MCSpecInsts
INVARIANTS
    AssertionsHold
    HeldOnce
    SpeculationBounded
