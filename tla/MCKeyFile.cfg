SPECIFICATION Spec
CONSTANTS
    t1 = t1
    t2 = t2
    NULL = NULL
    None = None
    PqSets <- const_PqAlgs
    Size <- const_Size
    Threads <- const_Threads
    Seedless <- KemNames
INVARIANTS
    TypeOK
    RoundTrip
    GeneratedAsNamed
    HeapClean
    NoPublicField
    Answered
CHECK_DEADLOCK FALSE
