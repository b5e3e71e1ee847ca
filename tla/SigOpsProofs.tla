---------------------------- MODULE SigOpsProofs ----------------------------
(***************************************************************************)
(* Proofs about SigOps: any number of contexts, keys, strings, messages    *)
(* and signatures.                                                         *)
(*                                                                         *)
(* Two conditions come to light that the code relies on.  A composite      *)
(* signature is no more than its two halves, so it is bound to its key     *)
(* only if component keys are not shared crosswise (Separate).  And a      *)
(* stream is what its caller fed as long as no chunk is longer than an     *)
(* unsigned int can count (Countable), without which a signature is not of *)
(* the message that its caller means.                                      *)
(***************************************************************************)
EXTENDS SigOps, SequenceTheorems, FiniteSetTheorems, TLAPS

(* No key takes its ML-DSA half from one key and its traditional half from *)
(* another.                                                                *)
Separate ==
    \A a, b, c \in Composites :
        a.mldsa = c.mldsa /\ b.classic = c.classic => a = c \/ b = c

Countable == \A data \in Chunks : Len(data) <= 2 * IntMax + 1

Contexts == [alg : Algs, key : Keys \union {NULL}, string : Strings,
             msg_bio : Seq(Octets) \union {NULL}]

IInv ==
    /\ ctx \in [Ctxs -> Contexts]
    /\ fed \in [Ctxs -> Seq(Octets)]
    /\ told \in [Ctxs -> Strings]
    /\ made \subseteq [done : Signings, asked : Signings]
    /\ IsFiniteSet(made) /\ Cardinality(made) <= MaxMade
    /\ wrong \subseteq {"accepted", "rejected"}

-----------------------------------------------------------------------------
(* Narrowing a length keeps it, or makes it negative.                      *)
LEMMA ToIntCountable ==
    ASSUME NEW n \in Nat, n <= 2 * IntMax + 1
    PROVE  ToInt(n) = IF n <= IntMax THEN n ELSE n - 2 * (IntMax + 1)
<1>1. IntMax \in Nat
  BY SigOpsAssumption DEF SigOpsAssumption
<1> DEFINE d == 2 * (IntMax + 1)
<1>2. d \in Nat /\ d > 0 /\ n < d /\ d = 2 * IntMax + 2
  BY <1>1
<1> HIDE DEF d
<1>3. n % d = n
  BY <1>2
<1> QED
  BY <1>1, <1>2, <1>3 DEF ToInt, d

LEMMA ToIntType == ASSUME NEW n \in Nat PROVE ToInt(n) \in Int /\ ToInt(n) <= n
<1>1. IntMax \in Nat
  BY SigOpsAssumption DEF SigOpsAssumption
<1> DEFINE d == 2 * (IntMax + 1)
<1>2. d \in Nat /\ d > 0
  BY <1>1
<1> HIDE DEF d
<1>3. n % d \in Nat /\ n % d <= n
  BY <1>2
<1> QED
  BY <1>1, <1>2, <1>3 DEF ToInt, d

(* What BIO_write keeps of a chunk.                                        *)
LEMMA WrittenType ==
    ASSUME NEW data \in Seq(Octets)
    PROVE  /\ Written(data, ToInt(Len(data))) \in Seq(Octets)
           /\ Len(Written(data, ToInt(Len(data)))) <= Len(data)
<1> DEFINE n == ToInt(Len(data))
<1>1. Len(data) \in Nat /\ n \in Int /\ n <= Len(data)
  BY ToIntType, LenProperties
<1> HIDE DEF n
<1>2. CASE n > 0
  <2>1. \A i \in 1 .. n : data[i] \in Octets
    BY <1>1, <1>2, ElementOfSeq
  <2>2. SubSeq(data, 1, n) \in Seq(Octets) /\ Len(SubSeq(data, 1, n)) = n
    BY <1>1, <1>2, <2>1, SubSeqProperties
  <2> QED
    BY <1>1, <1>2, <2>2 DEF Written, n
<1>3. CASE ~ (n > 0)
  BY <1>1, <1>3, EmptySeq DEF Written, n
<1> QED
  BY <1>2, <1>3

(* And all of it, if the update is going to say so.                        *)
LEMMA WrittenWhole ==
    ASSUME NEW data \in Seq(Octets), Len(data) <= 2 * IntMax + 1
    PROVE  Written(data, ToInt(Len(data))) =
               IF UpdateOk(ToInt(Len(data))) THEN data ELSE <<>>
<1>1. Len(data) \in Nat /\ IntMax \in Nat
  BY LenProperties, SigOpsAssumption DEF SigOpsAssumption
<1>2. CASE Len(data) <= IntMax
  <2>1. ToInt(Len(data)) = Len(data)
    BY <1>1, <1>2, ToIntCountable
  <2>2. SubSeq(data, 1, Len(data)) = data
    BY SubSeqFull
  <2>3. Len(data) = 0 => data = <<>>
    BY EmptySeq
  <2> QED
    BY <1>1, <2>1, <2>2, <2>3 DEF Written, UpdateOk
<1>3. CASE ~ (Len(data) <= IntMax)
  <2>1. ToInt(Len(data)) < 0
    BY <1>1, <1>3, ToIntCountable
  <2>2. ToInt(Len(data)) \in Int
    BY <1>1, ToIntType
  <2> QED
    BY <2>1, <2>2 DEF Written, UpdateOk
<1> QED
  BY <1>2, <1>3

LEMMA MessagesTyped == \A m \in Messages \union Chunks : m \in Seq(Octets)
BY SigOpsAssumption DEF SigOpsAssumption

LEMMA DoingType ==
    ASSUME IInv, NEW c \in Ctxs, ctx[c].key # NULL, NEW msg \in Seq(Octets)
    PROVE  Doing(c, msg) \in Signings /\ Asked(c, msg) \in Signings
BY DEF IInv, Contexts, Doing, Asked, Signings, Composites

(* One more signature, within the bound.                                   *)
LEMMA MadeMore ==
    ASSUME IInv, NEW s \in [done : Signings, asked : Signings],
           Cardinality(made) < MaxMade,
           made' = made \union {s}
    PROVE  /\ made' \subseteq [done : Signings, asked : Signings] /\ IsFiniteSet(made')
           /\ Cardinality(made') <= MaxMade
<1>1. /\ IsFiniteSet(made \union {s})
      /\ Cardinality(made \union {s}) = IF s \in made THEN Cardinality(made)
                                                     ELSE Cardinality(made) + 1
  BY FS_AddElement DEF IInv
<1>2. Cardinality(made) \in Nat /\ MaxMade \in Nat
  BY FS_CardinalityType, SigOpsAssumption DEF IInv, SigOpsAssumption
<1> QED
  BY <1>1, <1>2 DEF IInv

LEMMA InitIInv == Init => IInv
<1>1. SUFFICES ASSUME Init PROVE IInv
  OBVIOUS
<1>2. <<>> \in Strings /\ <<>> \in Seq(Octets) /\ MaxMade \in Nat
  BY SigOpsAssumption, EmptySeq DEF SigOpsAssumption
<1>3. PICK CtxAlg \in [Ctxs -> Algs] :
         ctx = [c \in Ctxs |-> [alg |-> CtxAlg[c], key |-> NULL,
                                string |-> <<>>, msg_bio |-> NULL]]
  BY <1>1 DEF Init
<1>4. ctx \in [Ctxs -> Contexts]
  BY <1>2, <1>3 DEF Contexts
<1>5. fed \in [Ctxs -> Seq(Octets)] /\ told \in [Ctxs -> Strings]
  BY <1>1, <1>2 DEF Init
<1>6. made = {} /\ IsFiniteSet(made) /\ Cardinality(made) = 0
  BY <1>1, FS_EmptySet DEF Init
<1> QED
  BY <1>1, <1>2, <1>4, <1>5, <1>6 DEF Init, IInv

LEMMA UpdateStep ==
    ASSUME IInv, NEW c \in Ctxs, NEW data \in Chunks, Update(c, data)
    PROVE  /\ IInv'
           /\ Len(ctx'[c].msg_bio) <= MaxLength
<1> DEFINE n == ToInt(Len(data))
           kept == Written(data, n)
<1>1. /\ data \in Seq(Octets) /\ Len(data) \in Nat
      /\ kept \in Seq(Octets) /\ Len(kept) <= Len(data) /\ Len(kept) \in Nat
  BY MessagesTyped, WrittenType, LenProperties
<1>2. /\ ctx[c].msg_bio \in Seq(Octets) /\ fed[c] \in Seq(Octets)
      /\ Len(ctx[c].msg_bio) \in Nat /\ MaxLength \in Nat
  BY LenProperties, SigOpsAssumption DEF Update, IInv, Contexts, SigOpsAssumption
<1>3. /\ ctx' = [ctx EXCEPT ![c].msg_bio = ctx[c].msg_bio \o kept]
      /\ fed' = [fed EXCEPT ![c] = IF UpdateOk(n) THEN fed[c] \o data ELSE fed[c]]
      /\ Len(ctx[c].msg_bio) + Len(data) <= MaxLength
      /\ UNCHANGED <<told, made, wrong>>
  BY DEF Update, IInv
<1> HIDE DEF n, kept
<1>4. /\ ctx[c].msg_bio \o kept \in Seq(Octets)
      /\ Len(ctx[c].msg_bio \o kept) = Len(ctx[c].msg_bio) + Len(kept)
      /\ fed[c] \o data \in Seq(Octets)
  BY <1>1, <1>2, ConcatProperties
<1>5. ctx' \in [Ctxs -> Contexts] /\ ctx'[c].msg_bio = ctx[c].msg_bio \o kept
  BY <1>3, <1>4 DEF IInv, Contexts
<1>6. fed' \in [Ctxs -> Seq(Octets)]
  BY <1>2, <1>3, <1>4 DEF IInv
<1> QED
  BY <1>1, <1>2, <1>3, <1>4, <1>5, <1>6 DEF IInv

LEMMA StepIInv == ASSUME IInv, [Next]_vars PROVE IInv'
<1>1. ASSUME NEW c \in Ctxs, NEW k \in Keys, SignInit(c, k) PROVE IInv'
  BY <1>1 DEF SignInit, IInv, Contexts
<1>2. ASSUME NEW c \in Ctxs, NEW k \in Keys, NEW ok \in BOOLEAN, DigestInit(c, k, ok)
      PROVE  IInv'
  <2>1. <<>> \in Seq(Octets)
    BY EmptySeq
  <2> QED
    BY <1>2, <2>1 DEF DigestInit, IInv, Contexts
<1>3. ASSUME NEW c \in Ctxs, NEW s \in Strings \union {TooLong}, SetContext(c, s)
      PROVE  IInv'
  <2>1. <<>> \in Strings
    BY SigOpsAssumption DEF SigOpsAssumption
  <2> QED
    BY <1>3, <2>1 DEF SetContext, Setting, IInv, Contexts
<1>4. ASSUME NEW c \in Ctxs, NEW data \in Chunks, Update(c, data) PROVE IInv'
  BY <1>4, UpdateStep
<1>5. ASSUME NEW c \in Ctxs, NEW msg \in Messages, Sign(c, msg) PROVE IInv'
  <2>1. [done |-> Doing(c, msg), asked |-> Asked(c, msg)]
            \in [done : Signings, asked : Signings]
    BY <1>5, DoingType, MessagesTyped DEF Sign
  <2> QED
    BY <1>5, <2>1, MadeMore DEF Sign, IInv
<1>6. ASSUME NEW c \in Ctxs, NEW query \in BOOLEAN, SignFinal(c, query) PROVE IInv'
  <2> DEFINE m == [done |-> Doing(c, ctx[c].msg_bio), asked |-> Asked(c, fed[c])]
  <2>1. ctx[c].msg_bio \in Seq(Octets) /\ fed[c] \in Seq(Octets) /\ ctx[c].key # NULL
    BY <1>6 DEF SignFinal, IInv, Contexts
  <2>2. m \in [done : Signings, asked : Signings]
    BY <2>1, DoingType
  <2>3. ctx' = ctx
    BY <1>6 DEF SignFinal, Kept, IInv, Contexts
  <2>4. CASE query
    BY <1>6, <2>3, <2>4 DEF SignFinal, IInv
  <2>5. CASE ~ query
    <3>1. Cardinality(made) < MaxMade /\ made' = made \union {m}
      BY <1>6, <2>5 DEF SignFinal
    <3> HIDE DEF m
    <3> QED
      BY <1>6, <2>2, <2>3, <3>1, MadeMore DEF SignFinal, IInv
  <2> QED
    BY <2>4, <2>5
<1>7. ASSUME NEW c \in Ctxs, NEW msg, NEW meant, NEW sig, NEW fault \in BOOLEAN,
             Verify(c, msg, meant, sig, fault)
      PROVE  IInv'
  BY <1>7 DEF Verify, IInv
<1>8. CASE UNCHANGED vars
  BY <1>8 DEF vars, IInv
<1> QED
  BY <1>1, <1>2, <1>3, <1>4, <1>5, <1>6, <1>7, <1>8 DEF Next, VerifyFinal

THEOREM Invariance == Spec => []IInv
BY InitIInv, StepIInv, PTL DEF Spec

-----------------------------------------------------------------------------
(* Types, with the bounds of streams.                                      *)

Bounded == \A c \in Ctxs : ctx[c].msg_bio # NULL => Len(ctx[c].msg_bio) <= MaxLength

LEMMA StepBounded == ASSUME IInv, Bounded, [Next]_vars PROVE Bounded'
<1>1. ASSUME NEW c \in Ctxs, NEW k \in Keys, SignInit(c, k) PROVE Bounded'
  BY <1>1 DEF SignInit, Bounded, IInv, Contexts
<1>2. ASSUME NEW c \in Ctxs, NEW k \in Keys, NEW ok \in BOOLEAN, DigestInit(c, k, ok)
      PROVE  Bounded'
  <2>1. Len(<<>>) = 0 /\ MaxLength \in Nat
    BY EmptySeq, SigOpsAssumption DEF SigOpsAssumption
  <2> QED
    BY <1>2, <2>1 DEF DigestInit, Bounded, IInv, Contexts
<1>3. ASSUME NEW c \in Ctxs, NEW s \in Strings \union {TooLong}, SetContext(c, s)
      PROVE  Bounded'
  BY <1>3 DEF SetContext, Bounded, IInv, Contexts
<1>4. ASSUME NEW c \in Ctxs, NEW data \in Chunks, Update(c, data) PROVE Bounded'
  <2>1. Len(ctx'[c].msg_bio) <= MaxLength
    BY <1>4, UpdateStep
  <2>2. \A b \in Ctxs : b # c => ctx'[b] = ctx[b]
    BY <1>4 DEF Update, IInv
  <2> QED
    BY <2>1, <2>2 DEF Bounded
<1>5. ASSUME NEW c \in Ctxs, NEW query \in BOOLEAN, SignFinal(c, query) PROVE Bounded'
  <2>1. ctx' = ctx
    BY <1>5 DEF SignFinal, Kept, IInv, Contexts
  <2> QED
    BY <2>1 DEF Bounded
<1>6. CASE UNCHANGED ctx
  BY <1>6 DEF Bounded
<1> QED
  BY <1>1, <1>2, <1>3, <1>4, <1>5, <1>6 DEF Next, VerifyFinal, Verify, Sign, vars

(* Every variable has its type, and streams and signatures keep to the     *)
(* bounds of the model.                                                    *)
THEOREM TypeCorrect == Spec => []TypeOK
<1>1. Init => Bounded
  BY DEF Init, Bounded
<1>2. IInv /\ Bounded => TypeOK
  BY DEF IInv, Bounded, TypeOK, Contexts
<1> QED
  BY <1>1, <1>2, StepBounded, Invariance, PTL DEF Spec

-----------------------------------------------------------------------------
(* Streams.                                                                *)

LEMMA StepFaithful ==
    ASSUME IInv, Countable, StreamFaithful, [Next]_vars
    PROVE  StreamFaithful'
<1>1. ASSUME NEW c \in Ctxs, NEW k \in Keys, SignInit(c, k) PROVE StreamFaithful'
  BY <1>1 DEF SignInit, StreamFaithful, IInv, Contexts
<1>2. ASSUME NEW c \in Ctxs, NEW k \in Keys, NEW ok \in BOOLEAN, DigestInit(c, k, ok)
      PROVE  StreamFaithful'
  BY <1>2 DEF DigestInit, StreamFaithful, IInv, Contexts
<1>3. ASSUME NEW c \in Ctxs, NEW s \in Strings \union {TooLong}, SetContext(c, s)
      PROVE  StreamFaithful'
  BY <1>3 DEF SetContext, StreamFaithful, IInv, Contexts
<1>4. ASSUME NEW c \in Ctxs, NEW data \in Chunks, Update(c, data) PROVE StreamFaithful'
  <2> DEFINE n == ToInt(Len(data))
  <2>1. /\ ctx[c].msg_bio = fed[c] /\ ctx[c].msg_bio \in Seq(Octets)
        /\ ctx'[c].msg_bio = ctx[c].msg_bio \o Written(data, n)
        /\ fed'[c] = IF UpdateOk(n) THEN fed[c] \o data ELSE fed[c]
    BY <1>4 DEF Update, StreamFaithful, IInv, Contexts
  <2>2. Written(data, n) = IF UpdateOk(n) THEN data ELSE <<>>
    BY WrittenWhole, MessagesTyped DEF Countable
  <2>3. ctx[c].msg_bio \o <<>> = ctx[c].msg_bio
    BY <2>1, ConcatEmptySeq
  <2> HIDE DEF n
  <2>4. ctx'[c].msg_bio = fed'[c]
    BY <2>1, <2>2, <2>3
  <2>5. \A b \in Ctxs : b # c => ctx'[b] = ctx[b] /\ fed'[b] = fed[b]
    BY <1>4 DEF Update, IInv
  <2> QED
    BY <2>4, <2>5 DEF StreamFaithful
<1>5. ASSUME NEW c \in Ctxs, NEW query \in BOOLEAN, SignFinal(c, query)
      PROVE  StreamFaithful'
  <2>1. ctx' = ctx /\ fed' = fed
    BY <1>5 DEF SignFinal, Kept, IInv, Contexts
  <2> QED
    BY <2>1 DEF StreamFaithful
<1>6. CASE UNCHANGED <<ctx, fed>>
  BY <1>6 DEF StreamFaithful
<1> QED
  BY <1>1, <1>2, <1>3, <1>4, <1>5, <1>6 DEF Next, VerifyFinal, Verify, Sign, vars

(* A stream is exactly what was fed to it, unless somebody feeds it more   *)
(* than an unsigned int can count in one call.                             *)
THEOREM StreamFaithfulHolds == ASSUME Countable PROVE Spec => []StreamFaithful
<1>1. Init => StreamFaithful
  BY DEF Init, StreamFaithful
<1>2. IInv /\ StreamFaithful /\ [Next]_vars => StreamFaithful'
  BY Countable, StepFaithful
<1> QED
  BY <1>1, <1>2, Invariance, PTL DEF Spec

-----------------------------------------------------------------------------
(* Verdicts.                                                               *)

(* Two halves that verify together each come from a signature made by the  *)
(* same algorithm over the same message under the same string.             *)
LEMMA HalvesComeFrom ==
    ASSUME IInv, NEW sig \in Arriving, NEW s \in Signings, Verifies(sig, s)
    PROVE  /\ sig = SignatureOf(s)
           /\ \E t, u \in Signed :
                 /\ t = [s EXCEPT !.key = t.key] /\ t.key.mldsa = s.key.mldsa
                 /\ u = [s EXCEPT !.key = u.key] /\ u.key.classic = s.key.classic
                 /\ t \in Signings /\ u \in Signings
<1>1. PICK t \in Signed, u \in Signed :
          sig = [mldsa |-> SignatureOf(t).mldsa, classic |-> SignatureOf(u).classic]
  BY DEF Arriving
<1>2. t \in Signings /\ u \in Signings
  BY DEF IInv, Signed
<1>3. /\ SignatureOf(u).classic = SignatureOf(s).classic
      /\ SignatureOf(t).mldsa = SignatureOf(s).mldsa
  BY <1>1 DEF Verifies
<1>4. /\ u.key.classic = s.key.classic
      /\ MPrime(u.alg, u.string, u.msg) = MPrime(s.alg, s.string, s.msg)
      /\ t.key.mldsa = s.key.mldsa
      /\ MPrime(t.alg, t.string, t.msg) = MPrime(s.alg, s.string, s.msg)
  BY <1>3 DEF SignatureOf
<1>5. /\ u.alg = s.alg /\ u.string = s.string /\ u.msg = s.msg
      /\ t.alg = s.alg /\ t.string = s.string /\ t.msg = s.msg
  BY <1>4 DEF MPrime
<1>6. t = [s EXCEPT !.key = t.key] /\ u = [s EXCEPT !.key = u.key]
  BY <1>2, <1>5 DEF Signings
<1>7. sig = SignatureOf(s)
  BY <1>1, <1>3 DEF SignatureOf
<1> QED
  BY <1>2, <1>4, <1>6, <1>7

(* With Separate, one of the two is the signature verified for.            *)
LEMMA AcceptedIsGenuine ==
    ASSUME IInv, Separate, NEW sig \in Arriving, NEW s \in Signings, Verifies(sig, s)
    PROVE  s \in Signed /\ sig = SignatureOf(s)
<1>1. PICK t \in Signed, u \in Signed :
          /\ t = [s EXCEPT !.key = t.key] /\ t.key.mldsa = s.key.mldsa
          /\ u = [s EXCEPT !.key = u.key] /\ u.key.classic = s.key.classic
          /\ t \in Signings /\ u \in Signings
  BY HalvesComeFrom
<1>2. s.key \in Composites /\ t.key \in Composites /\ u.key \in Composites
  BY <1>1 DEF Signings
<1>3. t.key = s.key \/ u.key = s.key
  BY <1>1, <1>2 DEF Separate
<1>4. [s EXCEPT !.key = s.key] = s
  BY DEF Signings
<1>5. t = s \/ u = s
  BY <1>1, <1>3, <1>4
<1> QED
  BY <1>5, HalvesComeFrom

(* Each half of what verifies was signed for these parameters, with no     *)
(* condition on how component keys are shared.                             *)
THEOREM EveryHalfSignedHolds == Spec => []EveryHalfSigned
<1>1. IInv => EveryHalfSigned
  <2>1. SUFFICES ASSUME IInv,
                        NEW c \in Ctxs, ctx[c].key # NULL, NEW sig \in Arriving,
                        NEW msg \in Messages \union ({ctx[c].msg_bio} \ {NULL}),
                        Verifies(sig, Doing(c, msg))
                 PROVE  LET this    == Doing(c, msg)
                            here(s) == s = [this EXCEPT !.key = s.key]
                        IN  /\ \E s \in Signed : here(s) /\ s.key.mldsa = this.key.mldsa
                            /\ \E s \in Signed : here(s) /\ s.key.classic = this.key.classic
    BY DEF EveryHalfSigned
  <2>2. msg \in Seq(Octets)
    BY <2>1, MessagesTyped DEF IInv, Contexts
  <2>3. Doing(c, msg) \in Signings
    BY <2>1, <2>2, DoingType
  <2> QED
    BY <2>1, <2>3, HalvesComeFrom
<1> QED
  BY <1>1, Invariance, PTL

(* A context does what its caller asks for: its string is the one set last *)
(* and its message what was fed, and so it was when signatures were made.  *)
Straight ==
    /\ \A c \in Ctxs : ctx[c].string = told[c]
    /\ StreamFaithful
    /\ \A m \in made : m.asked = m.done

LEMMA AskedIsDone ==
    ASSUME IInv, Straight, NEW c \in Ctxs, NEW msg
    PROVE  Asked(c, msg) = Doing(c, msg)
BY DEF Straight, Asked, Doing

LEMMA StepStraight ==
    ASSUME IInv, Countable, Straight, [Next]_vars
    PROVE  Straight'
<1>1. StreamFaithful'
  BY StepFaithful DEF Straight
<1>2. \A c \in Ctxs : ctx'[c].string = told'[c]
  <2>1. ASSUME NEW b \in Ctxs, NEW k \in Keys, SignInit(b, k), NEW c \in Ctxs
        PROVE  ctx'[c].string = told'[c]
    BY <2>1 DEF SignInit, Straight, IInv, Contexts
  <2>2. ASSUME NEW b \in Ctxs, NEW k \in Keys, NEW ok \in BOOLEAN, DigestInit(b, k, ok),
               NEW c \in Ctxs
        PROVE  ctx'[c].string = told'[c]
    BY <2>2 DEF DigestInit, Straight, IInv, Contexts
  <2>3. ASSUME NEW b \in Ctxs, NEW s \in Strings \union {TooLong}, SetContext(b, s),
               NEW c \in Ctxs
        PROVE  ctx'[c].string = told'[c]
    BY <2>3 DEF SetContext, Setting, Straight, IInv, Contexts
  <2>4. ASSUME NEW b \in Ctxs, NEW data \in Chunks, Update(b, data), NEW c \in Ctxs
        PROVE  ctx'[c].string = told'[c]
    BY <2>4 DEF Update, Straight, IInv, Contexts
  <2>5. ASSUME NEW b \in Ctxs, NEW query \in BOOLEAN, SignFinal(b, query), NEW c \in Ctxs
        PROVE  ctx'[c].string = told'[c]
    BY <2>5 DEF SignFinal, Kept, Straight, IInv, Contexts
  <2>6. CASE UNCHANGED <<ctx, told>>
    BY <2>6 DEF Straight
  <2> QED
    BY <2>1, <2>2, <2>3, <2>4, <2>5, <2>6 DEF Next, VerifyFinal, Verify, Sign, vars
<1>3. \A m \in made' : m.asked = m.done
  <2>1. ASSUME NEW c \in Ctxs, NEW msg \in Messages, Sign(c, msg), NEW m \in made'
        PROVE  m.asked = m.done
    BY <2>1, AskedIsDone DEF Sign, Straight
  <2>2. ASSUME NEW c \in Ctxs, NEW query \in BOOLEAN, SignFinal(c, query), NEW m \in made'
        PROVE  m.asked = m.done
    <3>1. ctx[c].msg_bio = fed[c]
      BY <2>2 DEF SignFinal, Straight, StreamFaithful
    <3> QED
      BY <2>2, <3>1, AskedIsDone DEF SignFinal, Straight
  <2>3. CASE made' = made
    BY <2>3 DEF Straight
  <2>4. ASSUME NEW c \in Ctxs, NEW sig \in Arriving, NEW fault \in BOOLEAN,
               \/ \E msg \in Messages : Verify(c, msg, msg, sig, fault)
               \/ VerifyFinal(c, sig, fault)
        PROVE  made' = made
    BY <2>4 DEF VerifyFinal, Verify
  <2>5. \/ made' = made
        \/ \E c \in Ctxs, msg \in Messages : Sign(c, msg)
        \/ \E c \in Ctxs, query \in BOOLEAN : SignFinal(c, query)
    BY <2>4 DEF Next, SignInit, DigestInit, SetContext, Update, vars
  <2> QED
    BY <2>1, <2>2, <2>3, <2>5
<1> QED
  BY <1>1, <1>2, <1>3 DEF Straight

(* No verdict on a message that is what its caller means is wrong.         *)
LEMMA VerifyVerdict ==
    ASSUME IInv, Straight,
           NEW c \in Ctxs, NEW msg \in Seq(Octets), NEW sig \in Arriving,
           NEW fault \in BOOLEAN, Verify(c, msg, msg, sig, fault)
    PROVE  /\ Separate /\ "accepted" \notin wrong => "accepted" \notin wrong'
           /\ "rejected" \notin wrong => "rejected" \notin wrong'
<1> DEFINE s == Doing(c, msg)
           genuine == \E m \in made : m.asked = Asked(c, msg) /\ sig = SignatureOf(m.done)
<1>1. s \in Signings /\ Asked(c, msg) = s
  BY DoingType, AskedIsDone DEF Verify
<1>2. Separate /\ Verifies(sig, s) => genuine
  BY <1>1, AcceptedIsGenuine DEF Signed, Straight
<1>3. genuine => Verifies(sig, s)
  BY <1>1 DEF Verifies, Straight
<1>4. wrong' = wrong
         \union (IF ~ fault /\ Verifies(sig, s) /\ ~ genuine THEN {"accepted"} ELSE {})
         \union (IF ~ (~ fault /\ Verifies(sig, s)) /\ ~ fault /\ genuine
                 THEN {"rejected"} ELSE {})
  BY DEF Verify
<1> HIDE DEF s, genuine
<1> QED
  BY <1>2, <1>3, <1>4

(* A step that is not a verification reaches no verdict.                   *)
LEMMA StepVerdict ==
    ASSUME IInv, Straight, [Next]_vars
    PROVE  /\ Separate /\ OnlyGenuine => OnlyGenuine'
           /\ GenuineAccepted => GenuineAccepted'
<1>1. ASSUME NEW c \in Ctxs, NEW msg \in Seq(Octets), NEW sig \in Arriving,
             NEW fault \in BOOLEAN, Verify(c, msg, msg, sig, fault)
      PROVE  /\ Separate /\ OnlyGenuine => OnlyGenuine'
             /\ GenuineAccepted => GenuineAccepted'
  BY <1>1, VerifyVerdict DEF OnlyGenuine, GenuineAccepted
<1>2. CASE wrong' = wrong
  BY <1>2 DEF OnlyGenuine, GenuineAccepted
<1>3. \/ wrong' = wrong
      \/ \E c \in Ctxs, msg \in Seq(Octets), sig \in Arriving, fault \in BOOLEAN :
            Verify(c, msg, msg, sig, fault)
  <2>1. ASSUME NEW c \in Ctxs, NEW sig \in Arriving, NEW fault \in BOOLEAN,
               VerifyFinal(c, sig, fault)
        PROVE  /\ ctx[c].msg_bio \in Seq(Octets)
               /\ Verify(c, ctx[c].msg_bio, ctx[c].msg_bio, sig, fault)
    <3>1. ctx[c].msg_bio \in Seq(Octets) /\ ctx[c].msg_bio = fed[c]
      BY <2>1 DEF VerifyFinal, Straight, StreamFaithful, IInv, Contexts
    <3> QED
      BY <2>1, <3>1 DEF VerifyFinal
  <2> QED
    BY <2>1, MessagesTyped
       DEF Next, SignInit, DigestInit, SetContext, Update, Sign, SignFinal, vars
<1> QED
  BY <1>1, <1>2, <1>3

THEOREM StraightInvariance == ASSUME Countable PROVE Spec => [](IInv /\ Straight)
<1>1. Init => Straight
  BY DEF Init, Straight, StreamFaithful
<1>2. IInv /\ Straight /\ [Next]_vars => Straight'
  BY Countable, StepStraight
<1> QED
  BY <1>1, <1>2, Invariance, PTL DEF Spec

(* Only what somebody got who asked for the same is accepted, if no key is *)
(* made up of the halves of two others.                                    *)
THEOREM OnlyGenuineHolds == ASSUME Countable, Separate PROVE Spec => []OnlyGenuine
<1>1. Init => OnlyGenuine
  BY DEF Init, OnlyGenuine
<1>2. IInv /\ Straight /\ OnlyGenuine /\ [Next]_vars => OnlyGenuine'
  BY Separate, StepVerdict
<1> QED
  BY <1>1, <1>2, StraightInvariance, PTL DEF Spec

(* And what somebody got who asked for the same is accepted, along         *)
(* whatever calls the two came to it.                                      *)
THEOREM GenuineAcceptedHolds == ASSUME Countable PROVE Spec => []GenuineAccepted
<1>1. Init => GenuineAccepted
  BY DEF Init, GenuineAccepted
<1>2. IInv /\ Straight /\ GenuineAccepted /\ [Next]_vars => GenuineAccepted'
  BY StepVerdict
<1> QED
  BY <1>1, <1>2, StraightInvariance, PTL DEF Spec

=============================================================================
