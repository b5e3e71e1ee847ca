------------------------------ MODULE MCSigOps ------------------------------
(***************************************************************************)
(* Two contexts, created for either of two algorithms; a key pair, a key   *)
(* pair that shares its ML-DSA component, and the public half of the       *)
(* first; one application context string besides the empty one.  An int    *)
(* has two bits, so a chunk of two octets is negative and one of four is   *)
(* empty.                                                                  *)
(***************************************************************************)
EXTENDS SigOps, TLC

CONSTANTS c1, c2, k1, k2, k3, a1, a2, s1, x

MCKeyInfo ==
    [k \in {k1, k2, k3} |->
        [mldsa |-> "m1", classic |-> IF k = k2 THEN "t2" ELSE "t1",
         private |-> k # k3, public |-> TRUE]]

MCStrings == {<<>>, <<s1>>}
MCTooLong == <<s1, s1>>

Short == {<<>>, <<x>>, <<x, x>>}
OneOctet == {<<x>>}
Long == {<<x>>, <<x, x, x, x>>}

Symmetry == Permutations({c1, c2}) \union Permutations({a1, a2})

=============================================================================
