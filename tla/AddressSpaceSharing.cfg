SPECIFICATION Spec
CONSTANTS
    State = {s1, s2}
    Object = {o1, o2}
    Cell = {1, 2, 3}
    Value = {v1}
    Constants = {}
    Globals = {}
    First = s1
    None = None
    MaxKey = 3
    MaxSymbolics = 2
    Select <- MCSelect
SYMMETRY MCSymmetry
INVARIANTS
    TypeOK
    OwnersUpToKey
    OwnersAlone
    CountsReferences
