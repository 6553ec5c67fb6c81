SPECIFICATION FairSpec
CONSTANTS
    NoState = NoState
    MaxTag = 2
    MaxSpTag = 7
    MaxSEW = 2
    MaxDepth = 0
    Options <- MCOptions
    NormalInsts <- MCNormalInsts
    SpecInsts <- MCSpecInsts
PROPERTIES
    QueuesDrain
