SPECIFICATION Spec
CONSTANTS
    NoState = NoState
    MaxTag = 4
    MaxSpTag = 9
    MaxSEW = 2
    MaxDepth = 2
    Options <- MCOptions
    NormalInsts <- MCNormalInsts
    SpecInsts <- MCSpecInsts
INVARIANTS
    TerminatesQueueHead
