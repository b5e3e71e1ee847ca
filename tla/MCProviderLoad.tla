--------------------------- MODULE MCProviderLoad ---------------------------
(***************************************************************************)
(* Three threads load, query and unload two signature algorithms and one   *)
(* KEM algorithm; beforehand, the KEM may be known by its name and the     *)
(* first signature algorithm by another one.                               *)
(* An array has four places: the decoders and a terminator just fit, the   *)
(* encoders do not.                                                        *)
(***************************************************************************)
EXTENDS ProviderLoad, TLC

CONSTANTS t1, t2, t3

MCSigAlgs == <<"mldsa44-p256", "mldsa87-ed448">>
MCKemAlgs == <<"mlkem768-x25519">>

SomeKnown == {"mlkem768-x25519"}
SomeForeign == {"mldsa44-p256"}

MCCodecs ==
    [decoders |-> [sig |-> <<"sig pki", "sig spki">>, kem |-> <<"kem spki">>],
     encoders |-> [sig |-> <<"sig der", "sig pem">>, kem |-> <<"kem der", "kem pem">>]]

Symmetry == Permutations({t1, t2, t3})

=============================================================================
