------------------------------- MODULE KemOps -------------------------------
(***************************************************************************)
(* Encapsulation and decapsulation: kem/composite_kem.c, the combiner of   *)
(* kem/composite_kem_info.c and the split of composite_kem_encoding.c.     *)
(*                                                                         *)
(* Primitives are symbolic.  A ciphertext half says what made it: the      *)
(* encapsulation it belongs to and, for ML-KEM and RSA, the key it is for. *)
(* A wrong ML-KEM half gives a pseudorandom secret (implicit rejection), a *)
(* wrong RSA half an error, and a wrong Diffie-Hellman half the secret of  *)
(* other parties.  A curve point has a second encoding of the same length. *)
(* The channel may pair halves, re-encode them and change the length.      *)
(***************************************************************************)
EXTENDS Integers, FiniteSets

CONSTANTS
    Ctxs,        \* KEM contexts
    Algs,        \* composite algorithms
    AlgInfo,     \* the component types of each: kem_algorithms
    Rsa,         \* the traditional types that are RSA-OAEP; others agree keys
    Size,        \* octets of a ciphertext half of each type
    Keys,        \* COMPOSITE_KEM_KEY
    KeyInfo,     \* name and components of each
    MaxSent,     \* bound: encapsulations
    NULL

ASSUME KemOpsAssumption ==
    /\ \A a \in Algs : Size[AlgInfo[a].mlkem] \in Nat /\ Size[AlgInfo[a].classic] \in Nat
    /\ \A k \in Keys : KeyInfo[k].name \in Algs \union {NULL} /\ KeyInfo[k].private \in BOOLEAN
    /\ MaxSent \in Nat

VARIABLES
    ctx,    \* what each context was initialised for
    n,      \* encapsulations begun
    sent,   \* encapsulations that succeeded: their ciphertext and secret
    left,   \* ciphertexts that a failed encapsulation left in its buffer
    wrong   \* wrong results so far

vars == <<ctx, n, sent, left, wrong>>

Idle == [op |-> "none", alg |-> NULL, key |-> NULL]

TypeOK ==
    /\ \A c \in Ctxs :
        \/ ctx[c] = Idle
        \/ /\ ctx[c].op \in {"encapsulate", "decapsulate"}
           /\ ctx[c].alg \in Algs /\ ctx[c].key \in Keys
    /\ n \in 0..MaxSent
    /\ \A s \in sent : /\ s.alg \in Algs /\ s.key \in Keys
                       /\ s.ct.mlkem.n \in 1..n /\ s.ct.trad.n = s.ct.mlkem.n
    /\ \A ct \in left : ct.mlkem.n \in 1..n /\ ct.trad.n = ct.mlkem.n
    /\ Cardinality({s.ct.mlkem.n : s \in sent}) = Cardinality(sent)
    /\ wrong \subseteq {"lost", "confused", "absorbed", "refused"}

\* libcrypto makes a new provider context for every init.
Init ==
    /\ ctx = [c \in Ctxs |-> Idle]
    /\ n = 0
    /\ sent = {}
    /\ left = {}
    /\ wrong = {}

-----------------------------------------------------------------------------
(* The checks of the init calls.                                           *)

\* Variant: the traditional component is not looked at.
check_classic_key_any(alg, k) == TRUE

\* A private import takes an EC key on any curve and an RSA key of any size.
check_classic_key_matches(alg, k) == KeyInfo[k].classicType = AlgInfo[alg].classic

\* Variant: a public key is let through to decapsulation.
AcceptsPublic(op, alg, k) ==
    /\ KeyInfo[k].name \in {NULL, alg}
    /\ KeyInfo[k].mlkem # NULL /\ KeyInfo[k].classic # NULL
    /\ KeyInfo[k].mlkemType = AlgInfo[alg].mlkem
    /\ check_classic_key_matches(alg, k)

\* The two init calls look at the same things, and decapsulation also at
\* has_private: the accessors would fall back to the public components.
Accepts(op, alg, k) ==
    /\ KeyInfo[k].name \in {NULL, alg}
    /\ KeyInfo[k].mlkem # NULL /\ KeyInfo[k].classic # NULL
    /\ op = "decapsulate" => KeyInfo[k].private
    /\ KeyInfo[k].mlkemType = AlgInfo[alg].mlkem
    /\ check_classic_key_matches(alg, k)

\* Variant: a refused init leaves the context half made.
OpInitHalf(c, op, alg, k) ==
    /\ ctx' = [ctx EXCEPT ![c] = [op |-> op, alg |-> alg,
                                  key |-> IF Accepts(op, alg, k) THEN k ELSE NULL]]
    /\ UNCHANGED <<n, sent, left, wrong>>

\* composite_kem_encapsulate_init and composite_kem_decapsulate_init.  When the
\* call fails, libcrypto drops the context.
OpInit(c, op, alg, k) ==
    /\ ctx' = [ctx EXCEPT ![c] = IF Accepts(op, alg, k)
                                 THEN [op |-> op, alg |-> alg, key |-> k] ELSE Idle]
    /\ UNCHANGED <<n, sent, left, wrong>>

-----------------------------------------------------------------------------
(* The components.                                                         *)

\* Variant: the combiner leaves the traditional ciphertext out.
CombineWithoutCt(mlkemSs, tradSs, tradCt, tradPk, alg) ==
    [mlkem |-> mlkemSs, trad |-> tradSs, ct |-> NULL, pk |-> tradPk, label |-> alg]

\* composite_kem_combine_shared_secret
Combine(mlkemSs, tradSs, tradCt, tradPk, alg) ==
    [mlkem |-> mlkemSs, trad |-> tradSs, ct |-> tradCt, pk |-> tradPk, label |-> alg]

\* The ciphertext of encapsulation i for key k.  A Diffie-Hellman half is an
\* ephemeral public key of the group that the algorithm names.
CiphertextOf(alg, k, i) ==
    LET type == AlgInfo[alg].classic
    IN  [mlkem |-> [type |-> AlgInfo[alg].mlkem, to |-> KeyInfo[k].mlkem, n |-> i],
         trad |-> [type |-> type, n |-> i, form |-> "canonical",
                   to |-> IF type \in Rsa THEN KeyInfo[k].classic ELSE NULL],
         extra |-> 0]

MlkemSecret(pair, ct) ==
    IF ct.to = pair THEN <<"shared", pair, ct.n>> ELSE <<"rejected", pair, ct.to, ct.n>>

TradSecret(pair, ct) == IF ct.type \in Rsa THEN <<"rsa", ct.n>> ELSE <<"dh", pair, ct.n>>

\* Variant: a failed component gives a secret of its own.
TradDecapsulatesAlways(alg, k, ct) == TRUE

\* component_rsa_oaep_decapsulate and component_dh_decapsulate: the padding
\* shows what was not made for this key, and a point of another curve or a
\* key of another type cannot be used.
TradDecapsulates(alg, k, ct) ==
    /\ KeyInfo[k].classicType = ct.type /\ ct.type = AlgInfo[alg].classic
    /\ ct.type \in Rsa => ct.to = KeyInfo[k].classic /\ ct.form = "canonical"

\* The secret that key k gets from ciphertext ct: both ends compute it from the
\* halves and the traditional public key, which a private key contains.
SecretOf(alg, k, ct) ==
    Combine(MlkemSecret(KeyInfo[k].mlkem, ct.mlkem),
            TradSecret(KeyInfo[k].classic, ct.trad),
            ct.trad, KeyInfo[k].classic, alg)

-----------------------------------------------------------------------------
(* Operations.                                                             *)

Length(ct) == Size[ct.mlkem.type] + Size[ct.trad.type] + ct.extra

RequiredLength(alg) == Size[AlgInfo[alg].mlkem] + Size[AlgInfo[alg].classic]

\* What composite_kem_encapsulate makes of its buffers: whether there is one for
\* the ciphertext, one for the secret, and room in both.
EncapsulateAnswers(ct, ss, room) ==
    IF ~ ct THEN "lengths" ELSE IF ss /\ room THEN "run" ELSE "refused"

\* composite_kem_encapsulate.  The combiner comes last: when it is what fails,
\* the ciphertext is in the caller's buffer already and may be sent all the
\* same.  The call says that it failed.
Encapsulate(c, ct, ss, room, fault) ==
    LET alg == ctx[c].alg
        k   == ctx[c].key
        answer == EncapsulateAnswers(ct, ss, room)
        able == /\ KeyInfo[k].mlkemType = AlgInfo[alg].mlkem
                /\ KeyInfo[k].classicType = AlgInfo[alg].classic
        done == answer = "run" /\ able /\ ~ fault
        made == CiphertextOf(alg, k, n + 1)
    IN
    /\ ctx[c].op = "encapsulate" /\ n < MaxSent
    /\ n' = IF answer = "run" THEN n + 1 ELSE n
    /\ sent' = IF done THEN sent \union {[alg |-> alg, key |-> k, ct |-> made,
                                          ss |-> SecretOf(alg, k, made)]}
                       ELSE sent
    /\ wrong' = wrong \union (IF answer = "run" /\ ~ able THEN {"refused"} ELSE {})
    /\ \/ UNCHANGED left
       \/ answer = "run" /\ able /\ fault /\ left' = left \union {made}
    /\ UNCHANGED ctx

Ciphertexts == {s.ct : s \in sent} \union left

Halves == {[mlkem |-> ct.mlkem, trad |-> [d.trad EXCEPT !.form = f], extra |-> x] :
              ct, d \in Ciphertexts, f \in {"canonical", "other"}, x \in {-1, 0, 1}}

SamePair(j, k) == /\ KeyInfo[j].mlkem = KeyInfo[k].mlkem
                  /\ KeyInfo[j].classic = KeyInfo[k].classic

\* composite_kem_decapsulate with room for the secret; other calls change
\* nothing.  The length is checked before the ciphertext is split, and both
\* components must succeed.  What arrives is one of Halves.
Decapsulate(c, ct, fault) ==
    LET alg == ctx[c].alg
        k   == ctx[c].key
        ok  == /\ Length(ct) = RequiredLength(alg)
               /\ ct.mlkem.type = AlgInfo[alg].mlkem
               /\ KeyInfo[k].private
               /\ TradDecapsulates(alg, k, ct.trad)
               /\ ~ fault
        ss  == SecretOf(alg, k, ct)
        genuine == {s \in sent : s.ct = ct /\ s.alg = alg /\ SamePair(s.key, k)}
        alike   == {s \in sent : s.ss = ss}
    IN
    /\ ctx[c].op = "decapsulate"
    /\ wrong' = wrong
         \union (IF ~ fault /\ genuine # {} /\ ~ (ok /\ genuine = alike)
                 THEN {"lost"} ELSE {})
         \union (IF ok /\ ~ (alike \subseteq genuine) THEN {"confused"} ELSE {})
         \union (IF ok /\ ct.trad.type \in Rsa
                       /\ ~ \E d \in Ciphertexts :
                              d.trad = ct.trad /\ d.trad.to = KeyInfo[k].classic
                 THEN {"absorbed"} ELSE {})
    /\ UNCHANGED <<ctx, n, sent, left>>

Next ==
    \E c \in Ctxs :
        \/ \E op \in {"encapsulate", "decapsulate"}, a \in Algs, k \in Keys :
              OpInit(c, op, a, k)
        \/ \E ct, ss, room, fault \in BOOLEAN : Encapsulate(c, ct, ss, room, fault)
        \/ \E ct \in Halves, fault \in BOOLEAN : Decapsulate(c, ct, fault)

Spec == Init /\ [][Next]_vars

-----------------------------------------------------------------------------
(* Correctness.                                                            *)

\* Whoever holds the private key gets, from the ciphertext of an encapsulation
\* for that key, exactly the secret the encapsulation returned, unless a call
\* to libcrypto fails.
Agreement == "lost" \notin wrong

\* And nobody gets that secret from anything else: another ciphertext, another
\* encoding of the same point, halves of two ciphertexts, another key that
\* shares a component, or the same components under another algorithm
\* (composite_kem.c:61-68, composite_kem_info.c:178-184).
Binding == "confused" \notin wrong

\* A traditional half that was not encrypted for this RSA key is reported as an
\* error and never absorbed into a secret (composite_kem.c:858-863,
\* tests/test_kem_negative.c:7).
NeverAbsorbed == "absorbed" \notin wrong

\* What encapsulate_init accepts, encapsulate can do: a key with a component of
\* the wrong kind is refused at init and not deep inside the operation
\* (composite_kem.c:61-68, 577-583).
AcceptedWorks == "refused" \notin wrong

=============================================================================
