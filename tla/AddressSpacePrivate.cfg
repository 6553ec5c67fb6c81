SPECIFICATION Spec
CONSTANTS
    State = {s1, s2, s3}
    Object = {g, k}
    Cell = {1, 2, 3}
    Value = {v1, v2}
    Constants = {k}
    Globals = {g, k}
    First = s1
    None = None
    MaxKey = 3
    MaxSymbolics = 1
    Select <- MCSelect
SYMMETRY MCSymmetry
INVARIANT
    MergesWriteableOnly
PROPERTY
    PrivateMemories
