SPECIFICATION Spec
CONSTANTS
    pss = pss
    pkcs15 = pkcs15
    x25519 = x25519
    rsaShape = rsaShape
    x25519Shape = x25519Shape
    Algs <- MCAlgs
    Family <- MCFamily
    Shape <- MCShape
    Documents <- MCDocuments
    NULL = NULL
INVARIANT
    WrongOidIsDeclined
