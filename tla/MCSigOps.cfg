SPECIFICATION Spec
CONSTANTS
    c1 = c1
    c2 = c2
    k1 = k1
    k2 = k2
    k3 = k3
    a1 = a1
    a2 = a2
    s1 = s1
    x = x
    Ctxs = {c1, c2}
    Algs = {a1, a2}
    Keys = {k1, k2, k3}
    KeyInfo <- MCKeyInfo
    Strings <- MCStrings
    TooLong <- MCTooLong
    Messages <- OneOctet
    Chunks <- Short
    IntMax = 1
    MaxLength = 2
    MaxMade = 2
    NULL = NULL
SYMMETRY Symmetry
INVARIANTS
    TypeOK
    OnlyGenuine
    EveryHalfSigned
    GenuineAccepted
    StreamFaithful
