SPECIFICATION Spec
CONSTANTS
    k1 = k1
    k2 = k2
    m1 = m1
    m2 = m2
    m3 = m3
    c1 = c1
    c2 = c2
    c3 = c3
    Keys = {k1, k2}
    MldsaPairs = {m1, m2, m3}
    ClassicPairs = {c1, c2, c3}
    Foreign <- MCForeign
    DupSelections <- AnyPart
    NULL = NULL
    None = None
SYMMETRY Symmetry
INVARIANT
    PrivateIsUsable
