SPECIFICATION Spec
CONSTANTS
    Ctxs = {c1, c2}
    Algs <- MCAlgs
    AlgInfo <- MCAlgInfo
    Rsa <- MCRsa
    Size <- MCSize
    Keys <- MCKeys
    KeyInfo <- MCKeyInfo
    MaxSent = 2
    NULL = NULL
INVARIANTS
    TypeOK
    Agreement
    Binding
    NeverAbsorbed
    AcceptedWorks
