------------------------------- MODULE SigOps -------------------------------
(***************************************************************************)
(* Signing and verifying: signature/composite_sig.c.                       *)
(*                                                                         *)
(* A signature context binds a key and keeps, across any number of inits,  *)
(* an application context string and the message fed to it so far.  Both   *)
(* component signatures are made over                                      *)
(*   M' = Prefix || Label || len(ctx) || ctx || PH(M)                      *)
(* and a composite signature is good only if both are.                     *)
(*                                                                         *)
(* Primitives are symbolic: a component signature is the key pair and the  *)
(* bytes it was made over, and the pre-hash keeps its input.  The channel  *)
(* between signer and verifier may pair the halves of different signatures.*)
(***************************************************************************)
EXTENDS Integers, Sequences, FiniteSets

CONSTANTS
    Ctxs,         \* signature contexts
    Algs,         \* composite algorithms
    Keys,         \* COMPOSITE_KEY
    KeyInfo,      \* the components of each
    Strings,      \* context strings that fit the 255 byte buffer
    TooLong,      \* one that does not
    Messages,     \* messages for the one-shot calls
    Chunks,       \* data for the streaming calls
    IntMax,       \* INT_MAX, the most that an int can hold
    MaxLength,    \* bound: octets kept by a stream
    MaxMade,      \* bound: signatures made
    NULL

Composites == {[mldsa |-> KeyInfo[k].mldsa, classic |-> KeyInfo[k].classic] : k \in Keys}
Octets == UNION {{m[i] : i \in DOMAIN m} : m \in Messages \union Chunks}

ASSUME SigOpsAssumption ==
    /\ <<>> \in Strings /\ TooLong \notin Strings
    /\ \A k \in Keys : {KeyInfo[k].private, KeyInfo[k].public} \subseteq BOOLEAN
    /\ \A m \in Messages \union Chunks : m \in Seq(Octets)
    /\ IntMax \in Nat /\ MaxLength \in Nat /\ MaxMade \in Nat

VARIABLES
    ctx,   \* the state of each context
    fed,   \* what each stream was told to take, by calls that said they did
    told,  \* the context string each caller set last; none if that failed
    made,  \* signatures made, and what their callers asked for
    wrong  \* wrong verdicts reached so far

vars == <<ctx, fed, told, made, wrong>>

Signings == [alg : Algs, string : Strings, msg : Seq(Octets), key : Composites]

TypeOK ==
    /\ \A c \in Ctxs : /\ ctx[c].alg \in Algs
                       /\ ctx[c].key \in Keys \union {NULL}
                       /\ ctx[c].string \in Strings
                       /\ ctx[c].msg_bio \in Seq(Octets) \union {NULL}
                       /\ ctx[c].msg_bio # NULL => Len(ctx[c].msg_bio) <= MaxLength
    /\ fed \in [Ctxs -> Seq(Octets)]
    /\ told \in [Ctxs -> Strings]
    /\ made \subseteq [done : Signings, asked : Signings] /\ Cardinality(made) <= MaxMade
    /\ wrong \subseteq {"accepted", "rejected"}

\* composite_sig_newctx_base: zeroed but for the algorithm it is created for.
Init ==
    /\ \E CtxAlg \in [Ctxs -> Algs] :
          ctx = [c \in Ctxs |-> [alg |-> CtxAlg[c], key |-> NULL,
                                 string |-> <<>>, msg_bio |-> NULL]]
    /\ fed = [c \in Ctxs |-> <<>>]
    /\ told = [c \in Ctxs |-> <<>>]
    /\ made = {}
    /\ wrong = {}

-----------------------------------------------------------------------------
(* The constructions.                                                      *)

MPrime(alg, string, msg) == [label |-> alg, string |-> string, prehash |-> msg]

\* Variant: neither half says which algorithm it was made by.
SignatureOfUnlabelled(s) ==
    LET m == MPrime(NULL, s.string, s.msg)
    IN  [mldsa |-> [pair |-> s.key.mldsa, context |-> NULL, over |-> m],
         classic |-> [pair |-> s.key.classic, over |-> m]]

\* The ML-DSA half also takes the label as its own context string.
SignatureOf(s) ==
    LET m == MPrime(s.alg, s.string, s.msg)
    IN  [mldsa |-> [pair |-> s.key.mldsa, context |-> s.alg, over |-> m],
         classic |-> [pair |-> s.key.classic, over |-> m]]

Signed == {m.done : m \in made}

\* What may arrive: any half of any signature made, next to any other.
Arriving ==
    {[mldsa |-> SignatureOf(s).mldsa, classic |-> SignatureOf(t).classic] :
        s \in Signed, t \in Signed}

\* Variant: the verdict of the traditional half is not combined with the other.
VerifiesOneHalf(sig, s) == sig.mldsa = SignatureOf(s).mldsa

\* Both halves are checked, the traditional one first.
Verifies(sig, s) ==
    /\ sig.classic = SignatureOf(s).classic
    /\ sig.mldsa = SignatureOf(s).mldsa

-----------------------------------------------------------------------------
(* Contexts.                                                               *)

\* composite_sig_sign_init, which composite_sig_verify_init calls: only the key
\* changes; a context string and a message begun earlier stay.
SignInit(c, k) ==
    /\ ctx' = [ctx EXCEPT ![c].key = k]
    /\ UNCHANGED <<fed, told, made, wrong>>

\* Variant: a new stream begins without the context string.
DigestInitForgets(c, k, ok) ==
    /\ ctx' = [ctx EXCEPT ![c].key = k, ![c].string = <<>>,
                          ![c].msg_bio = IF ok THEN <<>> ELSE NULL]
    /\ fed' = [fed EXCEPT ![c] = <<>>]
    /\ UNCHANGED <<told, made, wrong>>

\* composite_sig_digest_sign_init and its verify twin: a new, empty stream, or
\* none when BIO_new fails.
DigestInit(c, k, ok) ==
    /\ ctx' = [ctx EXCEPT ![c].key = k, ![c].msg_bio = IF ok THEN <<>> ELSE NULL]
    /\ fed' = [fed EXCEPT ![c] = <<>>]
    /\ UNCHANGED <<told, made, wrong>>

\* What an attempt to set s leaves the caller with.
Setting(s) == IF s \in Strings THEN s ELSE <<>>

\* Variant: the length of a string that does not fit is kept.
SetContextUnchecked(c, s) ==
    /\ ctx' = [ctx EXCEPT ![c].string = s]
    /\ told' = [told EXCEPT ![c] = Setting(s)]
    /\ UNCHANGED <<fed, made, wrong>>

\* Variant: the string that was set stays when its successor does not fit.
SetContextKeeps(c, s) ==
    /\ ctx' = [ctx EXCEPT ![c].string = IF s \in Strings THEN s ELSE @]
    /\ told' = [told EXCEPT ![c] = Setting(s)]
    /\ UNCHANGED <<fed, made, wrong>>

\* composite_sig_set_ctx_params: a string that does not fit fails the call and
\* empties the one that was set.
SetContext(c, s) ==
    /\ ctx' = [ctx EXCEPT ![c].string = IF s \in Strings THEN s ELSE <<>>]
    /\ told' = [told EXCEPT ![c] = Setting(s)]
    /\ UNCHANGED <<fed, made, wrong>>

\* (int)n
ToInt(n) == LET r == n % (2 * (IntMax + 1))
            IN  IF r > IntMax THEN r - 2 * (IntMax + 1) ELSE r

\* BIO_write: nothing for a length that is not positive.
Written(data, n) == IF n > 0 THEN SubSeq(data, 1, n) ELSE <<>>

\* Variant: whatever the BIO did, the update succeeded.
UpdateAlwaysOk(n) == TRUE

\* BIO_write returned the length it was given.
UpdateOk(n) == n >= 0

\* composite_sig_digest_sign_update and its verify twin.
Update(c, data) ==
    LET n == ToInt(Len(data))
    IN
    /\ ctx[c].msg_bio # NULL
    /\ Len(ctx[c].msg_bio) + Len(data) <= MaxLength
    /\ ctx' = [ctx EXCEPT ![c].msg_bio = @ \o Written(data, n)]
    /\ fed' = [fed EXCEPT ![c] = IF UpdateOk(n) THEN @ \o data ELSE @]
    /\ UNCHANGED <<told, made, wrong>>

-----------------------------------------------------------------------------
(* Operations.                                                             *)

\* The parameters that a context and a message give an operation.
Doing(c, msg) ==
    [alg |-> ctx[c].alg, string |-> ctx[c].string, msg |-> msg,
     key |-> [mldsa |-> KeyInfo[ctx[c].key].mldsa,
              classic |-> KeyInfo[ctx[c].key].classic]]

\* What its caller asks for who hands over msg: with the context string that
\* the caller has set, whatever the context made of it.
Asked(c, msg) == [Doing(c, msg) EXCEPT !.string = told[c]]

\* composite_sig_sign with room for the signature: both component signers must
\* succeed, so the key needs both private halves.  A length query, a short
\* buffer or a failing component changes nothing.
Sign(c, msg) ==
    /\ ctx[c].key # NULL /\ KeyInfo[ctx[c].key].private
    /\ Cardinality(made) < MaxMade
    /\ made' = made \union {[done |-> Doing(c, msg), asked |-> Asked(c, msg)]}
    /\ UNCHANGED <<ctx, fed, told, wrong>>

\* composite_sig_verify of msg for a caller who means meant; fault says that a
\* digest or a context could not be had.  A signature is genuine if one who
\* asked for the same got it.  A verdict is wrong if it accepts another one or,
\* without a fault, rejects such a one.
Verify(c, msg, meant, sig, fault) ==
    LET ok      == ~ fault /\ Verifies(sig, Doing(c, msg))
        genuine == \E m \in made : m.asked = Asked(c, meant) /\ sig = SignatureOf(m.done)
    IN
    /\ ctx[c].key # NULL /\ KeyInfo[ctx[c].key].public
    /\ wrong' = wrong \union (IF ok /\ ~ genuine THEN {"accepted"} ELSE {})
                     \union (IF ~ ok /\ ~ fault /\ genuine THEN {"rejected"} ELSE {})
    /\ UNCHANGED <<ctx, fed, told, made>>

\* Variant: reading the message takes it out of the BIO.
KeptEmpty(bio) == <<>>

\* BIO_get_mem_data leaves the message where it is, so a final call can be
\* repeated, after a length query for one, and more data can follow it.
Kept(bio) == bio

\* composite_sig_digest_sign_final.  Without a signature buffer it is a length
\* query.
SignFinal(c, query) ==
    /\ ctx[c].msg_bio # NULL /\ ctx[c].key # NULL
    /\ query \/ (KeyInfo[ctx[c].key].private /\ Cardinality(made) < MaxMade)
    /\ ctx' = [ctx EXCEPT ![c].msg_bio = Kept(@)]
    /\ made' = IF query THEN made
               ELSE made \union {[done |-> Doing(c, ctx[c].msg_bio),
                                  asked |-> Asked(c, fed[c])]}
    /\ UNCHANGED <<fed, told, wrong>>

VerifyFinal(c, sig, fault) ==
    /\ ctx[c].msg_bio # NULL
    /\ Verify(c, ctx[c].msg_bio, fed[c], sig, fault)

Next ==
    \E c \in Ctxs :
        \/ \E k \in Keys : SignInit(c, k)
        \/ \E k \in Keys, ok \in BOOLEAN : DigestInit(c, k, ok)
        \/ \E s \in Strings \union {TooLong} : SetContext(c, s)
        \/ \E data \in Chunks : Update(c, data)
        \/ \E msg \in Messages : Sign(c, msg)
        \/ \E query \in BOOLEAN : SignFinal(c, query)
        \/ \E sig \in Arriving, fault \in BOOLEAN :
              \/ \E msg \in Messages : Verify(c, msg, msg, sig, fault)
              \/ VerifyFinal(c, sig, fault)

Spec == Init /\ [][Next]_vars

-----------------------------------------------------------------------------
(* Correctness.                                                            *)

\* Only a signature that somebody got who asked for the same is accepted: made
\* as a whole, with this key, by this algorithm, over the message that was handed
\* over and under the context string that was set, on either side along whatever
\* calls; not one put together from the halves of two, and not one for another
\* string than the two callers set (composite_sig.c:110-114, 525-526,
\* test_sign_verify.c:254: "context string mismatch causes verify failure").
OnlyGenuine == "accepted" \notin wrong

\* Whatever else a signature that verifies was put together from, each of its
\* halves was signed with the component key that verified it, by this
\* algorithm, over this very message and under this context string: a half
\* cannot be carried over to another algorithm, message or string, though the
\* component key is shared (composite_sig.c:107-140, 202-203).
EveryHalfSigned ==
    \A c \in {b \in Ctxs : ctx[b].key # NULL}, sig \in Arriving :
        \A msg \in Messages \union ({ctx[c].msg_bio} \ {NULL}) :
            LET this    == Doing(c, msg)
                here(s) == s = [this EXCEPT !.key = s.key]
            IN  Verifies(sig, this) =>
                    /\ \E s \in Signed : here(s) /\ s.key.mldsa = this.key.mldsa
                    /\ \E s \in Signed : here(s) /\ s.key.classic = this.key.classic

\* And what one caller got, another who asks for the same accepts, though they
\* came to the same message and context string along different calls: in one or
\* by streaming, the string set before an init or after it, with failed
\* settings, length queries and repeated final calls in between.  A string once
\* set stays until it is set again, and applies to what was fed before
\* (test_sign_verify.c:221-222).
GenuineAccepted == "rejected" \notin wrong

\* What a final call signs or verifies is exactly the data that the update
\* calls since the last digest init said they took (composite_sig.c:401-402:
\* "accumulate message in a BIO, then delegate to the one-shot sign/verify").
StreamFaithful ==
    \A c \in Ctxs : ctx[c].msg_bio # NULL => ctx[c].msg_bio = fed[c]

=============================================================================
