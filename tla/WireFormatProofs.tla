-------------------------- MODULE WireFormatProofs --------------------------
(***************************************************************************)
(* What the composite encodings promise, for every parameter set and every *)
(* pair of halves: they can be taken apart in one way only, and a caller   *)
(* that asks for the length first is not turned away for lack of room.     *)
(***************************************************************************)
EXTENDS WireFormat, TLAPS, SequenceTheorems

LEMMA SizeType ==
    ASSUME NEW alg \in PqSets, NEW what \in What
    PROVE  Size[alg][what] \in Nat /\ Size[alg][what] > 0
  BY SizeAssumption

\* Taking apart what was put together gives back the halves: what a sender
\* encodes with *_encode, a receiver of the same algorithm gets from *_decode
\* (composite_kem_encoding.h: no length prefixes are used).
THEOREM SplitUndoesJoin ==
    ASSUME NEW Octet, NEW alg \in PqSets, NEW what \in What,
           NEW pq \in Seq(Octet), NEW trad \in Seq(Octet),
           Joinable(alg, what, pq, trad)
    PROVE  /\ Splittable(alg, what, Join(pq, trad))
           /\ Split(alg, what, Join(pq, trad)) = [pq |-> pq, trad |-> trad]
<1> DEFINE n == Size[alg][what]
           s == Join(pq, trad)
<1>1. n \in Nat /\ n > 0 /\ Len(pq) = n /\ Len(trad) \in Nat /\ Len(trad) > 0
  BY SizeType DEF Joinable
<1>2. Splittable(alg, what, s)
  <2>1. Len(s) = Len(pq) + Len(trad)
    BY ConcatProperties DEF Join
  <2> QED
    BY <1>1, <2>1 DEF Splittable
<1>3. SubSeq(s, 1, n) = pq
  <2>1. SubSeq(s, 1, Len(pq)) = pq
    BY SubSeqOfConcat1 DEF Join
  <2> QED
    BY <1>1, <2>1
<1>4. SubSeq(s, n + 1, Len(s)) = trad
  <2>1. SubSeq(s, Len(pq) + 1, Len(s)) = trad
    BY SubSeqOfConcat2 DEF Join
  <2> QED
    BY <1>1, <2>1
<1> QED
  BY <1>2, <1>3, <1>4 DEF Split

\* And the other way round: what a decode function takes apart, whatever octets
\* they are, the encode function of the same name accepts and puts together
\* again.  No octet is lost or read twice, and no other encoding has the same
\* halves.
THEOREM JoinUndoesSplit ==
    ASSUME NEW Octet, NEW alg \in PqSets, NEW what \in What,
           NEW in \in Seq(Octet), Splittable(alg, what, in)
    PROVE  LET halves == Split(alg, what, in)
           IN  /\ Joinable(alg, what, halves.pq, halves.trad)
               /\ Join(halves.pq, halves.trad) = in
<1> DEFINE n == Size[alg][what]
           pq == SubSeq(in, 1, n)
           trad == SubSeq(in, n + 1, Len(in))
<1>1. n \in Nat /\ n > 0 /\ Len(in) \in Nat /\ n < Len(in)
  BY SizeType, LenProperties DEF Splittable
<1>2. /\ Len(pq) = n
      /\ Len(trad) = Len(in) - n
  BY <1>1
<1>3. pq \o trad = in
  <2>1. 1 \in 1 .. Len(in) + 1 /\ n \in 1 - 1 .. Len(in) /\ Len(in) \in n .. Len(in)
    BY <1>1
  <2> HIDE DEF n
  <2>2. pq \o trad = SubSeq(in, 1, Len(in))
    BY <2>1, ConcatAdjacentSubSeq
  <2> QED
    BY <2>2, SubSeqFull
<1>4. Split(alg, what, in) = [pq |-> pq, trad |-> trad]
  BY DEF Split
<1>5. Joinable(alg, what, pq, trad)
  BY <1>1, <1>2 DEF Joinable
<1>6. Join(pq, trad) = in
  BY <1>3 DEF Join
<1> HIDE DEF n, pq, trad
<1> QED
  BY <1>4, <1>5, <1>6

\* Two keys, ciphertexts or signatures of one algorithm with the same encoding
\* are the same, although nothing between the halves says where one ends.
THEOREM OneReading ==
    ASSUME NEW Octet, NEW alg \in PqSets, NEW what \in What,
           NEW pq1 \in Seq(Octet), NEW trad1 \in Seq(Octet),
           NEW pq2 \in Seq(Octet), NEW trad2 \in Seq(Octet),
           Joinable(alg, what, pq1, trad1), Joinable(alg, what, pq2, trad2),
           Join(pq1, trad1) = Join(pq2, trad2)
    PROVE  pq1 = pq2 /\ trad1 = trad2
<1>1. /\ Split(alg, what, Join(pq1, trad1)) = [pq |-> pq1, trad |-> trad1]
      /\ Split(alg, what, Join(pq2, trad2)) = [pq |-> pq2, trad |-> trad2]
  BY SplitUndoesJoin
<1>2. [pq |-> pq1, trad |-> trad1] = [pq |-> pq2, trad |-> trad2]
  BY <1>1
<1> QED
  BY <1>2

\* A caller that asks a KEM encode function for the length and then brings that
\* much room, or more, gets the encoding; and one that brings less is refused
\* and finds its length where it left it (composite_kem_encoding.c:57-67).
THEOREM LengthQueryIsEnough ==
    ASSUME NEW Octet, NEW alg \in PqSets, NEW what \in What,
           NEW pq \in Seq(Octet), NEW trad \in Seq(Octet),
           NEW first \in Nat, NEW room \in Nat
    PROVE  LET query  == Encode(alg, what, pq, trad, FALSE, first)
               answer == Encode(alg, what, pq, trad, TRUE, room)
           IN  /\ query.ret = 1 <=> Joinable(alg, what, pq, trad)
               /\ query.ret = 1 /\ room >= query.out_len =>
                      /\ answer.ret = 1
                      /\ answer.out = Join(pq, trad)
                      /\ answer.out_len = Len(answer.out)
                      /\ answer.out_len = query.out_len
               /\ query.ret = 1 /\ room < query.out_len =>
                      answer.ret = 0 /\ answer.out_len = room
<1>1. Len(pq) \in Nat /\ Len(trad) \in Nat
  BY LenProperties
<1>2. Len(Join(pq, trad)) = Len(pq) + Len(trad)
  BY ConcatProperties DEF Join
<1>3. CASE Joinable(alg, what, pq, trad)
  BY <1>1, <1>2, <1>3 DEF Encode
<1>4. CASE ~ Joinable(alg, what, pq, trad)
  BY <1>1, <1>4 DEF Encode
<1> QED
  BY <1>3, <1>4

=============================================================================
