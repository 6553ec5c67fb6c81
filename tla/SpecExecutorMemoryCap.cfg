SPECIFICATION Spec
CONSTANTS
    NoState = NoState
    MaxTag = 2
    MaxSpTag = 5
    MaxSEW = 2
    MaxDepth = 0
    Options <- MCMemoryCap
    NormalInsts <- MCNormalInsts
    SpecInsts <- MCSpecInsts
INVARIANTS
    RemovesKnownStates
