----------------------------- MODULE MCKeyFile -----------------------------
(***************************************************************************)
(* Small instances of KeyFile: every algorithm, and two threads at it.     *)
(***************************************************************************)
EXTENDS KeyFile

CONSTANTS t1, t2

const_PqAlgs == PqAlgs

\* Octet counts in the order of the real ones: what matters is that the sets
\* of one family differ in the public key and agree in the private one.
Octets(pub, priv, out) == [pub |-> pub, priv |-> priv, out |-> out]
const_Size ==
    ("ML-DSA-44" :> Octets(2, 1, 3)) @@ ("ML-DSA-65" :> Octets(3, 1, 4)) @@
    ("ML-DSA-87" :> Octets(4, 1, 5)) @@ ("ML-KEM-768" :> Octets(2, 2, 2)) @@
    ("ML-KEM-1024" :> Octets(3, 2, 3))

const_Threads == {t1, t2}
OneThread == {t1}

SignatureSeedless == {"MLDSA44_P256"}

=============================================================================
