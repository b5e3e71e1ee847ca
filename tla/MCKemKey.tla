------------------------------ MODULE MCKemKey ------------------------------
(***************************************************************************)
(* Two composite KEM keys, four component objects, two key pairs of each   *)
(* kind to draw, and one set of key parameters from another implementation *)
(* whose public and private halves disagree (the selection decides which   *)
(* of the two an import asks for).                                         *)
(***************************************************************************)
EXTENDS KemKey, TLC

CONSTANTS k1, k2, o1, o2, o3, o4, m1, m2, c1, c2

ForeignPair == [mlkem |-> m2, classic |-> c2]
OtherPair   == [mlkem |-> m1, classic |-> c2]

MCForeign == {[pub |-> OtherPair, priv |-> ForeignPair]}

Symmetry == Permutations({k1, k2}) \union Permutations({o1, o2, o3, o4})

=============================================================================
