SPECIFICATION Spec
CONSTANTS
    NoState = NoState
    MaxTag = 4
    MaxSpTag = 7
    MaxSEW = 2
    MaxDepth = 0
    Options <- MCOptions
    NormalInsts <- MCNormalInsts
    SpecInsts <- MCForkInsts
INVARIANTS
    SplitsLeavesOnly
