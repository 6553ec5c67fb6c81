SPECIFICATION Spec
CONSTANTS
    NoState = NoState
    MaxTag = 8
    MaxSpTag = 1
    MaxSEW = 2
    MaxDepth = 3
    Options <- MCPlain
    NormalInsts <- MCNormalInsts
    SpecInsts <- MCSpecInsts
INVARIANTS
    AssertionsHold
    TreeMatchesStates
