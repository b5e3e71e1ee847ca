----------------------------- MODULE WireFormat -----------------------------
(***************************************************************************)
(* The composite encodings: a half of the post-quantum algorithm, whose    *)
(* length follows from the parameter set, and the traditional half after   *)
(* it, with nothing in between and no length in front of either.           *)
(*                                                                         *)
(* kem/composite_kem_encoding.c, whose six functions are two for each of   *)
(* public key, private key and ciphertext, and the places where            *)
(* signature/composite_sig_encoding.c joins and splits the same way.       *)
(*                                                                         *)
(* Octet strings are sequences over any set.  The lengths are a parameter: *)
(* what holds, holds for the lengths of every parameter set.               *)
(***************************************************************************)
EXTENDS Integers, Sequences

CONSTANTS
    PqSets, \* the post-quantum algorithms
    Size    \* octets of the first half, by algorithm and what is encoded

\* A signature is split like a ciphertext: "out" is what an operation returns.
What == {"pub", "priv", "out"}

ASSUME SizeAssumption == Size \in [PqSets -> [What -> Nat \ {0}]]

\* Variant: the halves change places.
JoinSwapped(pq, trad) == trad \o pq

Join(pq, trad) == pq \o trad

\* Variant: the first half is taken one octet too short.
SplitShort(alg, what, in) ==
    [pq   |-> SubSeq(in, 1, Size[alg][what] - 1),
     trad |-> SubSeq(in, Size[alg][what], Len(in))]

Split(alg, what, in) ==
    [pq   |-> SubSeq(in, 1, Size[alg][what]),
     trad |-> SubSeq(in, Size[alg][what] + 1, Len(in))]

\* What a decode function takes apart: both halves have an octet at least.
Splittable(alg, what, in) == Len(in) > Size[alg][what]

\* What an encode function puts together.
Joinable(alg, what, pq, trad) == Len(pq) = Size[alg][what] /\ Len(trad) > 0

\* The KEM encode functions: without a buffer they tell the length, with one
\* that is too small they fail and leave both the buffer and *out_len alone.
\* room is *out_len on entry; buffer says whether out is given.
Encode(alg, what, pq, trad, buffer, room) ==
    CASE ~ Joinable(alg, what, pq, trad) ->
            [ret |-> 0, out_len |-> room, out |-> <<>>]
      [] Joinable(alg, what, pq, trad) /\ ~ buffer ->
            [ret |-> 1, out_len |-> Len(pq) + Len(trad), out |-> <<>>]
      [] OTHER ->
            IF room < Len(pq) + Len(trad)
            THEN [ret |-> 0, out_len |-> room, out |-> <<>>]
            ELSE [ret |-> 1, out_len |-> Len(pq) + Len(trad), out |-> Join(pq, trad)]

=============================================================================
