SPECIFICATION Spec
CONSTANTS
    k1 = k1
    k2 = k2
    o1 = o1
    o2 = o2
    o3 = o3
    o4 = o4
    m1 = m1
    m2 = m2
    c1 = c1
    c2 = c2
    Keys = {k1, k2}
    Objects = {o1, o2, o3, o4}
    MlkemPairs = {m1, m2}
    ClassicPairs = {c1, c2}
    Foreign <- MCForeign
    NULL = NULL
    None = None
SYMMETRY Symmetry
INVARIANTS
    TypeOK
    Ownership
    PrivateIsUsable
    NoMixing
PROPERTIES
    PrivateNotDiscarded
    ImplementsStore
