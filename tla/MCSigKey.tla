------------------------------ MODULE MCSigKey ------------------------------
(***************************************************************************)
(* Two composite signature keys (a duplicate needs its original), two key  *)
(* pairs of each kind to draw and the parameters of composites made        *)
(* elsewhere: of one, and of two that do not belong together.              *)
(***************************************************************************)
EXTENDS SigKey, TLC

CONSTANTS k1, k2, m1, m2, m3, c1, c2, c3

Elsewhere == [mldsa |-> m2, classic |-> c2]

Other == [mldsa |-> m3, classic |-> c3]

MCForeign == {[pub |-> Elsewhere, priv |-> Elsewhere],
              [pub |-> Elsewhere, priv |-> Other]}

\* EVP_PKEY_dup asks for everything.
WholeKey == {{"PUBLIC_KEY", "PRIVATE_KEY"}}

\* EVP_PKEY_copy_parameters asks for neither half.
AnyPart == SUBSET {"PUBLIC_KEY", "PRIVATE_KEY"}

Symmetry == Permutations({k1, k2})

=============================================================================
