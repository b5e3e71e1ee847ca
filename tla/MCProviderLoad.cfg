SPECIFICATION Spec
CONSTANTS
    t1 = t1
    t2 = t2
    t3 = t3
    Threads = {t1, t2, t3}
    SigAlgs <- MCSigAlgs
    KemAlgs <- MCKemAlgs
    Known <- SomeKnown
    Foreign <- SomeForeign
    Codecs <- MCCodecs
    Capacity = 4
SYMMETRY Symmetry
INVARIANTS
    TypeOK
    RegisteredWhenLoaded
    DeclaredByCreator
    HandedWhole
    Terminated
