--------------------------- MODULE MCDecoderChain ---------------------------
(***************************************************************************)
(* Three algorithms: two signature algorithms whose serialized keys look   *)
(* the same (RSA-PSS and PKCS#1 v1.5 of one size) and a KEM algorithm.     *)
(* The inputs are a proper file of each structure for each, and the        *)
(* borderline ones: an OID nobody registered, parameters, a publicKey      *)
(* field, a truncated key, something else, and nothing.                    *)
(***************************************************************************)
EXTENDS DecoderChain

CONSTANTS pss, pkcs15, x25519, rsaShape, x25519Shape

MCAlgs == {pss, pkcs15, x25519}
MCFamily == [a \in MCAlgs |-> IF a = x25519 THEN "kem" ELSE "sig"]
MCShape == [a \in MCAlgs |-> IF a = x25519 THEN x25519Shape ELSE rsaShape]

File(structure, alg, shape) ==
    [structure |-> structure, alg |-> alg, shape |-> shape,
     params |-> FALSE, publicKey |-> FALSE]

Proper == {File(structure, a, MCShape[a]) : structure \in Structures, a \in MCAlgs}

MCDocuments ==
    Proper
    \union {File(structure, NULL, shape) :
               structure \in Structures, shape \in {rsaShape, x25519Shape}}
    \union {File("SubjectPublicKeyInfo", a, NULL) : a \in {pss, x25519}}
    \union {[f EXCEPT !.params = TRUE] : f \in Proper}
    \union {[f EXCEPT !.publicKey = TRUE] :
               f \in {g \in Proper : g.structure = "PrivateKeyInfo"}}
    \union {File("other", NULL, NULL), File("empty", NULL, NULL)}

=============================================================================
