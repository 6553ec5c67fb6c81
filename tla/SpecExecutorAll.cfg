SPECIFICATION Spec
CONSTANTS
    NoState = NoState
    MaxTag = 2
    MaxSpTag = 7
    MaxSEW = 2
    MaxDepth = 2
    Options <- OptionNames
    NormalInsts <- InstClasses
    SpecInsts <- InstClasses
INVARIANTS
    SpeculationBounded
