SPECIFICATION Spec
CONSTANTS
    t1 = t1
    t2 = t2
    NULL = NULL
    None = None
    PqSets <- const_PqAlgs
    Size <- const_Size
    Threads <- OneThread
    Seedless <- SignatureSeedless
INVARIANTS
    RoundTrip
CHECK_DEADLOCK FALSE
