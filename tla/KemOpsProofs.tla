---------------------------- MODULE KemOpsProofs ----------------------------
(***************************************************************************)
(* Proofs about KemOps: any number of contexts, algorithms, keys and       *)
(* encapsulations, and whatever the keys share.                            *)
(*                                                                         *)
(* The argument is about the combiner: its inputs name the traditional     *)
(* ciphertext, the traditional public key and the algorithm, and ML-KEM    *)
(* binds its own ciphertext, so a secret can be had in one way only.       *)
(***************************************************************************)
EXTENDS KemOps, FiniteSetTheorems, TLAPS

Operations == {"encapsulate", "decapsulate"}

(* A context in use has passed the checks of its init.                     *)
Initialised(x) ==
    \/ x = Idle
    \/ x.op \in Operations /\ x.alg \in Algs /\ x.key \in Keys
       /\ Accepts(x.op, x.alg, x.key)

(* What is on record as sent is what an encapsulation made.                *)
Faithful(s) ==
    /\ s.alg \in Algs /\ s.key \in Keys
    /\ \E i \in 1..n : s.ct = CiphertextOf(s.alg, s.key, i)
    /\ s.ss = SecretOf(s.alg, s.key, s.ct)

IInv ==
    /\ ctx \in [Ctxs -> [op : Operations \union {"none"}, alg : Algs \union {NULL},
                         key : Keys \union {NULL}]]
    /\ \A c \in Ctxs : Initialised(ctx[c])
    /\ n \in 0..MaxSent
    /\ \A s \in sent : Faithful(s)
    /\ \A ct \in left : \E a \in Algs, k \in Keys, i \in 1..n : ct = CiphertextOf(a, k, i)
    /\ wrong \subseteq {"lost", "confused", "absorbed", "refused"}

-----------------------------------------------------------------------------
(* Secrets.                                                                *)

(* A secret that is not a rejection belongs to one key and ciphertext.     *)
LEMMA SharedOnce ==
    ASSUME NEW p, NEW x, NEW q, NEW y,
           x.to = p, MlkemSecret(p, x) = MlkemSecret(q, y)
    PROVE  y.to = q /\ p = q /\ x.n = y.n
<1>1. MlkemSecret(p, x) = <<"shared", p, x.n>>
  BY DEF MlkemSecret
<1>2. CASE y.to = q
  BY <1>1, <1>2 DEF MlkemSecret
<1>3. CASE y.to # q
  <2>1. <<"shared", p, x.n>>[1] = <<"rejected", q, y.to, y.n>>[1]
    BY <1>1, <1>3 DEF MlkemSecret
  <2> QED
    BY <2>1
<1> QED
  BY <1>2, <1>3

(* One way to a secret: the algorithm, the halves and the key pair.        *)
LEMMA SecretBinds ==
    ASSUME NEW a, NEW j, NEW x, NEW b, NEW k, NEW y,
           x.mlkem.to = KeyInfo[j].mlkem,
           SecretOf(a, j, x) = SecretOf(b, k, y)
    PROVE  /\ a = b /\ x.trad = y.trad /\ SamePair(j, k)
           /\ y.mlkem.to = KeyInfo[k].mlkem /\ x.mlkem.n = y.mlkem.n
<1>1. /\ MlkemSecret(KeyInfo[j].mlkem, x.mlkem) = MlkemSecret(KeyInfo[k].mlkem, y.mlkem)
      /\ x.trad = y.trad /\ KeyInfo[j].classic = KeyInfo[k].classic /\ a = b
  BY DEF SecretOf, Combine
<1> QED
  BY <1>1, SharedOnce DEF SamePair

(* A ciphertext that arrives: halves of two that were made.                *)
Made(ct) == \E a \in Algs, k \in Keys, i \in 1..n : ct = CiphertextOf(a, k, i)

LEMMA AllMade == ASSUME IInv PROVE \A ct \in Ciphertexts : Made(ct)
BY DEF IInv, Ciphertexts, Faithful, Made

LEMMA Arrived ==
    ASSUME IInv, NEW ct \in Halves
    PROVE  \E x, y \in Ciphertexts, f \in {"canonical", "other"}, e \in {-1, 0, 1} :
               /\ Made(x) /\ Made(y)
               /\ ct = [mlkem |-> x.mlkem, trad |-> [y.trad EXCEPT !.form = f], extra |-> e]
<1>1. \A x \in Ciphertexts : Made(x)
  BY AllMade
<1> HIDE DEF Made
<1> QED
  BY <1>1 DEF Halves

(* What a decapsulation that succeeds was given, seen from what it got.    *)
LEMMA OkShape ==
    ASSUME IInv, NEW ct \in Halves, NEW alg \in Algs, NEW k \in Keys,
           Length(ct) = RequiredLength(alg),
           ct.mlkem.type = AlgInfo[alg].mlkem,
           TradDecapsulates(alg, k, ct.trad)
    PROVE  ct.extra = 0 /\ ct.trad.type = AlgInfo[alg].classic
<1>1. PICK e \in {-1, 0, 1} : ct.extra = e
  BY Arrived
<1>2. ct.trad.type = AlgInfo[alg].classic
  BY DEF TradDecapsulates
<1>3. /\ Size[AlgInfo[alg].mlkem] \in Nat /\ Size[AlgInfo[alg].classic] \in Nat
  BY KemOpsAssumption DEF KemOpsAssumption
<1>4. Size[AlgInfo[alg].mlkem] + Size[AlgInfo[alg].classic] + e
         = Size[AlgInfo[alg].mlkem] + Size[AlgInfo[alg].classic]
  BY <1>1, <1>2 DEF Length, RequiredLength
<1>5. e = 0
  BY <1>3, <1>4
<1> QED
  BY <1>1, <1>2, <1>5

(* Binding: whoever gets a secret that somebody sent has what they sent.   *)
LEMMA OkIsGenuine ==
    ASSUME IInv, NEW ct \in Halves, NEW alg \in Algs, NEW k \in Keys,
           Length(ct) = RequiredLength(alg),
           ct.mlkem.type = AlgInfo[alg].mlkem,
           TradDecapsulates(alg, k, ct.trad),
           NEW s \in sent, s.ss = SecretOf(alg, k, ct)
    PROVE  s.ct = ct /\ s.alg = alg /\ SamePair(s.key, k)
<1>1. PICK i \in 1..n : s.ct = CiphertextOf(s.alg, s.key, i)
  BY DEF IInv, Faithful
<1>2. s.ss = SecretOf(s.alg, s.key, s.ct)
  BY DEF IInv, Faithful
<1>3. s.ct.mlkem = [type |-> AlgInfo[s.alg].mlkem, to |-> KeyInfo[s.key].mlkem, n |-> i]
  BY <1>1 DEF CiphertextOf
<1>4. /\ s.alg = alg /\ s.ct.trad = ct.trad /\ SamePair(s.key, k)
      /\ ct.mlkem.to = KeyInfo[k].mlkem /\ s.ct.mlkem.n = ct.mlkem.n
  <2>1. s.ct.mlkem.to = KeyInfo[s.key].mlkem
    BY <1>3
  <2>2. SecretOf(s.alg, s.key, s.ct) = SecretOf(alg, k, ct)
    BY <1>2
  <2> QED
    BY <2>1, <2>2, SecretBinds
<1>5. ct.extra = 0
  BY OkShape
<1>6. PICK x, y \in Ciphertexts, f \in {"canonical", "other"}, e \in {-1, 0, 1} :
          /\ Made(x) /\ Made(y)
          /\ ct = [mlkem |-> x.mlkem, trad |-> [y.trad EXCEPT !.form = f], extra |-> e]
  BY Arrived
<1>7. PICK a \in Algs, j \in Keys, m \in 1..n : x = CiphertextOf(a, j, m)
  BY <1>6 DEF Made
<1>8. ct.mlkem = [type |-> AlgInfo[a].mlkem, to |-> KeyInfo[j].mlkem, n |-> m]
  BY <1>6, <1>7 DEF CiphertextOf
<1>9. ct.mlkem = s.ct.mlkem
  BY <1>3, <1>4, <1>8 DEF SamePair
<1>10. ct = [mlkem |-> ct.mlkem, trad |-> ct.trad, extra |-> 0]
  BY <1>5, <1>6
<1>11. s.ct = [mlkem |-> s.ct.mlkem, trad |-> s.ct.trad, extra |-> 0]
  BY <1>1 DEF CiphertextOf
<1> QED
  BY <1>4, <1>9, <1>10, <1>11

(* Agreement: the holder of the key gets what was sent.                    *)
LEMMA GenuineIsOk ==
    ASSUME IInv, NEW k \in Keys, NEW s \in sent,
           Accepts("decapsulate", s.alg, k), SamePair(s.key, k)
    PROVE  /\ Length(s.ct) = RequiredLength(s.alg)
           /\ s.ct.mlkem.type = AlgInfo[s.alg].mlkem
           /\ KeyInfo[k].private
           /\ TradDecapsulates(s.alg, k, s.ct.trad)
           /\ s.ss = SecretOf(s.alg, k, s.ct)
<1>1. PICK i \in 1..n : s.ct = CiphertextOf(s.alg, s.key, i)
  BY DEF IInv, Faithful
<1>2. s.alg \in Algs /\ s.key \in Keys /\ s.ss = SecretOf(s.alg, s.key, s.ct)
  BY DEF IInv, Faithful
<1> DEFINE type == AlgInfo[s.alg].classic
<1>3. /\ s.ct.mlkem.type = AlgInfo[s.alg].mlkem /\ s.ct.extra = 0
      /\ s.ct.trad.type = type /\ s.ct.trad.form = "canonical"
      /\ s.ct.trad.to = IF type \in Rsa THEN KeyInfo[s.key].classic ELSE NULL
  BY <1>1 DEF CiphertextOf
<1>4. /\ KeyInfo[k].private /\ KeyInfo[k].classicType = type
      /\ KeyInfo[s.key].mlkem = KeyInfo[k].mlkem
      /\ KeyInfo[s.key].classic = KeyInfo[k].classic
  BY DEF Accepts, check_classic_key_matches, SamePair
<1>5. Length(s.ct) = RequiredLength(s.alg)
  BY <1>2, <1>3, KemOpsAssumption DEF Length, RequiredLength, KemOpsAssumption
<1>6. TradDecapsulates(s.alg, k, s.ct.trad)
  BY <1>3, <1>4 DEF TradDecapsulates
<1>7. s.ss = SecretOf(s.alg, k, s.ct)
  BY <1>2, <1>4 DEF SecretOf
<1> QED
  BY <1>3, <1>4, <1>5, <1>6, <1>7

(* An RSA half that decrypts was made for this key.                        *)
LEMMA OkIsNotAbsorbed ==
    ASSUME IInv, NEW ct \in Halves, NEW alg, NEW k,
           TradDecapsulates(alg, k, ct.trad), ct.trad.type \in Rsa
    PROVE  \E d \in Ciphertexts : d.trad = ct.trad /\ d.trad.to = KeyInfo[k].classic
<1>1. PICK x, y \in Ciphertexts, f \in {"canonical", "other"}, e \in {-1, 0, 1} :
          /\ Made(x) /\ Made(y)
          /\ ct = [mlkem |-> x.mlkem, trad |-> [y.trad EXCEPT !.form = f], extra |-> e]
  BY Arrived
<1>2. PICK a \in Algs, j \in Keys, m \in 1..n : y = CiphertextOf(a, j, m)
  BY <1>1 DEF Made
<1>3. PICK to : y.trad = [type |-> AlgInfo[a].classic, n |-> m, form |-> "canonical",
                          to |-> to]
  BY <1>2 DEF CiphertextOf
<1>4. ct.trad = [y.trad EXCEPT !.form = f]
  BY <1>1
<1>5. ct.trad.form = "canonical" /\ ct.trad.to = KeyInfo[k].classic
  BY DEF TradDecapsulates
<1>6. ct.trad = y.trad
  BY <1>3, <1>4, <1>5
<1> QED
  BY <1>5, <1>6

-----------------------------------------------------------------------------
(* The steps.                                                              *)

LEMMA InitIInv == Init => IInv
BY KemOpsAssumption DEF Init, IInv, Initialised, Idle, Operations, KemOpsAssumption

(* An init leaves a context that has passed its checks, or none.           *)
LEMMA OpInitIInv ==
    ASSUME IInv, NEW c \in Ctxs, NEW op \in Operations, NEW alg \in Algs, NEW k \in Keys,
           OpInit(c, op, alg, k)
    PROVE  IInv'
<1> DEFINE new == IF Accepts(op, alg, k) THEN [op |-> op, alg |-> alg, key |-> k] ELSE Idle
<1>1. ctx' = [ctx EXCEPT ![c] = new]
  BY DEF OpInit
<1>2. /\ new \in [op : Operations \union {"none"}, alg : Algs \union {NULL},
                  key : Keys \union {NULL}]
      /\ Initialised(new)
  BY DEF Initialised, Idle
<1> HIDE DEF new
<1>3. /\ ctx' \in [Ctxs -> [op : Operations \union {"none"}, alg : Algs \union {NULL},
                            key : Keys \union {NULL}]]
      /\ \A d \in Ctxs : ctx'[d] = IF d = c THEN new ELSE ctx[d]
  BY <1>1, <1>2 DEF IInv
<1>4. \A d \in Ctxs : Initialised(ctx'[d])
  BY <1>2, <1>3 DEF IInv
<1>5. UNCHANGED <<n, sent, left, wrong>>
  BY DEF OpInit
<1> QED
  BY <1>3, <1>4, <1>5 DEF IInv, Faithful

(* What an encapsulation in use finds: its init has looked at the key.     *)
LEMMA InUse ==
    ASSUME IInv, NEW c \in Ctxs, ctx[c].op # "none"
    PROVE  /\ ctx[c].alg \in Algs /\ ctx[c].key \in Keys
           /\ Accepts(ctx[c].op, ctx[c].alg, ctx[c].key)
BY DEF IInv, Initialised, Idle

(* An encapsulation is recorded as it was made, and is never refused.      *)
LEMMA EncapsulateIInv ==
    ASSUME IInv, NEW c \in Ctxs,
           NEW ct \in BOOLEAN, NEW ss \in BOOLEAN, NEW room \in BOOLEAN,
           NEW fault \in BOOLEAN,
           Encapsulate(c, ct, ss, room, fault)
    PROVE  IInv' /\ wrong' = wrong
<1>1. /\ ctx[c].alg \in Algs /\ ctx[c].key \in Keys
      /\ Accepts(ctx[c].op, ctx[c].alg, ctx[c].key)
  BY InUse DEF Encapsulate
<1>2. PICK alg \in Algs, k \in Keys : alg = ctx[c].alg /\ k = ctx[c].key
  BY <1>1
<1>3. KeyInfo[k].mlkemType = AlgInfo[alg].mlkem /\ KeyInfo[k].classicType = AlgInfo[alg].classic
  BY <1>1, <1>2 DEF Accepts, check_classic_key_matches
<1>4. EncapsulateAnswers(ct, ss, room) = "lengths" => ~ ct
  BY DEF EncapsulateAnswers
<1>5. wrong' = wrong
  BY <1>2, <1>3, <1>4 DEF Encapsulate
<1> DEFINE made == CiphertextOf(alg, k, n + 1)
           new  == [alg |-> alg, key |-> k, ct |-> made, ss |-> SecretOf(alg, k, made)]
<1>6. /\ UNCHANGED ctx
      /\ \/ n' = n + 1 /\ n < MaxSent /\ sent' \subseteq sent \union {new}
            /\ left' \subseteq left \union {made}
         \/ n' = n /\ sent' = sent /\ left' = left
  BY <1>2 DEF Encapsulate
<1>7. n \in Nat /\ MaxSent \in Nat
  BY KemOpsAssumption DEF IInv, KemOpsAssumption
<1>8. n' \in 0..MaxSent /\ 1..n \subseteq 1..n'
  BY <1>6, <1>7 DEF IInv
<1>9. n' = n + 1 => n + 1 \in 1..n'
  BY <1>7
<1>10. \A s \in sent' : Faithful(s)'
  <2> SUFFICES ASSUME NEW s \in sent' PROVE Faithful(s)'
    OBVIOUS
  <2>1. CASE s \in sent
    BY <1>8, <2>1 DEF IInv, Faithful
  <2>2. CASE s \notin sent
    <3>1. n' = n + 1 /\ s = new
      BY <1>6, <2>2
    <3>2. /\ s.alg = alg /\ s.key = k /\ s.ct = CiphertextOf(alg, k, n + 1)
          /\ s.ss = SecretOf(alg, k, s.ct)
      BY <3>1
    <3> HIDE DEF new, made
    <3>3. n + 1 \in 1..n'
      BY <3>1, <1>9
    <3> QED
      BY <3>2, <3>3 DEF Faithful
  <2> QED
    BY <2>1, <2>2
<1>11. \A x \in left' : \E a \in Algs, j \in Keys, i \in 1..n' : x = CiphertextOf(a, j, i)
  <2> SUFFICES ASSUME NEW x \in left'
               PROVE  \E a \in Algs, j \in Keys, i \in 1..n' : x = CiphertextOf(a, j, i)
    OBVIOUS
  <2>1. CASE x \in left
    BY <1>8, <2>1 DEF IInv
  <2>2. CASE x \notin left
    <3>1. n' = n + 1 /\ x = CiphertextOf(alg, k, n + 1)
      BY <1>6, <2>2
    <3> QED
      BY <3>1, <1>9
  <2> QED
    BY <2>1, <2>2
<1> HIDE DEF made, new
<1>12. /\ ctx' \in [Ctxs -> [op : Operations \union {"none"}, alg : Algs \union {NULL},
                             key : Keys \union {NULL}]]
       /\ \A d \in Ctxs : Initialised(ctx'[d])
       /\ wrong' \subseteq {"lost", "confused", "absorbed", "refused"}
  BY <1>5, <1>6 DEF IInv
<1> QED
  BY <1>5, <1>8, <1>10, <1>11, <1>12 DEF IInv

(* A decapsulation never records anything wrong.                           *)
LEMMA DecapsulateIsRight ==
    ASSUME IInv, NEW c \in Ctxs, NEW ct \in Halves, NEW fault \in BOOLEAN,
           Decapsulate(c, ct, fault)
    PROVE  wrong' = wrong
<1>1. ctx[c].op = "decapsulate"
  BY DEF Decapsulate
<1>2. PICK alg \in Algs, k \in Keys :
          alg = ctx[c].alg /\ k = ctx[c].key /\ Accepts("decapsulate", alg, k)
  BY <1>1, InUse
<1> DEFINE fits == /\ Length(ct) = RequiredLength(alg)
                   /\ ct.mlkem.type = AlgInfo[alg].mlkem
                   /\ TradDecapsulates(alg, k, ct.trad)
           ok   == /\ Length(ct) = RequiredLength(alg)
                   /\ ct.mlkem.type = AlgInfo[alg].mlkem
                   /\ KeyInfo[k].private
                   /\ TradDecapsulates(alg, k, ct.trad)
                   /\ ~ fault
           genuine == {s \in sent : s.ct = ct /\ s.alg = alg /\ SamePair(s.key, k)}
           alike   == {s \in sent : s.ss = SecretOf(alg, k, ct)}
<1>3. wrong' = wrong
         \union (IF ~ fault /\ genuine # {} /\ ~ (ok /\ genuine = alike)
                 THEN {"lost"} ELSE {})
         \union (IF ok /\ ~ (alike \subseteq genuine) THEN {"confused"} ELSE {})
         \union (IF ok /\ ct.trad.type \in Rsa
                       /\ ~ \E d \in Ciphertexts :
                              d.trad = ct.trad /\ d.trad.to = KeyInfo[k].classic
                 THEN {"absorbed"} ELSE {})
  BY <1>2 DEF Decapsulate
<1>4. ok => alike \subseteq genuine
  <2> SUFFICES ASSUME ok, NEW s \in sent, s.ss = SecretOf(alg, k, ct)
               PROVE  s.ct = ct /\ s.alg = alg /\ SamePair(s.key, k)
    OBVIOUS
  <2> QED
    BY OkIsGenuine
<1>5. \A s \in genuine : (~ fault => ok) /\ s \in alike
  <2> SUFFICES ASSUME NEW s \in sent, s.ct = ct, s.alg = alg, SamePair(s.key, k)
               PROVE  /\ ~ fault => ok
                      /\ s.ss = SecretOf(alg, k, ct)
    OBVIOUS
  <2>1. Accepts("decapsulate", s.alg, k)
    BY <1>2
  <2>2. /\ Length(s.ct) = RequiredLength(s.alg)
        /\ s.ct.mlkem.type = AlgInfo[s.alg].mlkem
        /\ KeyInfo[k].private
        /\ TradDecapsulates(s.alg, k, s.ct.trad)
        /\ s.ss = SecretOf(s.alg, k, s.ct)
    BY <2>1, GenuineIsOk
  <2> QED
    BY <2>2
<1>6. ~ (~ fault /\ genuine # {} /\ ~ (ok /\ genuine = alike))
  <2> SUFFICES ASSUME ~ fault, genuine # {} PROVE ok /\ genuine = alike
    OBVIOUS
  <2>1. PICK s \in genuine : TRUE
    OBVIOUS
  <2>2. ok
    BY <2>1, <1>5
  <2>3. genuine \subseteq alike
    BY <1>5
  <2>4. alike \subseteq genuine
    BY <2>2, <1>4
  <2> QED
    BY <2>2, <2>3, <2>4
<1>7. ok /\ ct.trad.type \in Rsa
         => \E d \in Ciphertexts : d.trad = ct.trad /\ d.trad.to = KeyInfo[k].classic
  BY OkIsNotAbsorbed
<1> HIDE DEF ok, genuine, alike
<1> QED
  BY <1>3, <1>4, <1>6, <1>7

LEMMA DecapsulateIInv ==
    ASSUME IInv, NEW c \in Ctxs, NEW ct \in Halves, NEW fault \in BOOLEAN,
           Decapsulate(c, ct, fault)
    PROVE  IInv' /\ wrong' = wrong
<1>1. wrong' = wrong
  BY DecapsulateIsRight
<1>2. UNCHANGED <<ctx, n, sent, left>>
  BY DEF Decapsulate
<1> QED
  BY <1>1, <1>2 DEF IInv, Faithful

-----------------------------------------------------------------------------
(* The theorems.                                                           *)

(* A step keeps the invariant and records nothing wrong.                   *)
LEMMA Step == ASSUME IInv, [Next]_vars PROVE IInv' /\ wrong' = wrong
<1>1. CASE UNCHANGED vars
  BY <1>1 DEF vars, IInv, Faithful
<1>2. CASE Next
  <2>1. PICK c \in Ctxs :
          \/ \E op \in Operations, a \in Algs, k \in Keys : OpInit(c, op, a, k)
          \/ \E ct, ss, room, fault \in BOOLEAN : Encapsulate(c, ct, ss, room, fault)
          \/ \E ct \in Halves, fault \in BOOLEAN : Decapsulate(c, ct, fault)
    BY <1>2 DEF Next, Operations
  <2>2. ASSUME NEW op \in Operations, NEW a \in Algs, NEW k \in Keys, OpInit(c, op, a, k)
        PROVE  IInv' /\ wrong' = wrong
    BY <2>2, OpInitIInv DEF OpInit
  <2>3. ASSUME NEW ct \in BOOLEAN, NEW ss \in BOOLEAN, NEW room \in BOOLEAN,
               NEW fault \in BOOLEAN, Encapsulate(c, ct, ss, room, fault)
        PROVE  IInv' /\ wrong' = wrong
    BY <2>3, EncapsulateIInv
  <2>4. ASSUME NEW ct \in Halves, NEW fault \in BOOLEAN, Decapsulate(c, ct, fault)
        PROVE  IInv' /\ wrong' = wrong
    BY <2>4, DecapsulateIInv
  <2> QED
    BY <2>1, <2>2, <2>3, <2>4
<1> QED
  BY <1>1, <1>2

(* The invariant holds in every reachable state: a context in use has      *)
(* passed its checks, and what is on record was made as recorded           *)
(* (composite_kem.c, the two init calls and composite_kem_encapsulate).    *)
THEOREM Invariance == Spec => []IInv
<1>1. Init => IInv
  BY InitIInv
<1>2. IInv /\ [Next]_vars => IInv'
  BY Step
<1> QED
  BY <1>1, <1>2, PTL DEF Spec

(* Nothing wrong is ever recorded.                                         *)
LEMMA NothingWrong == Spec => [](wrong = {})
<1>1. Init => wrong = {}
  BY DEF Init
<1>2. IInv /\ wrong = {} /\ [Next]_vars => (wrong = {})'
  BY Step
<1> QED
  BY <1>1, <1>2, Invariance, PTL DEF Spec

(* Whoever holds the private key gets from a ciphertext sent to it exactly *)
(* the secret that was returned with it (composite_kem_decapsulate).       *)
THEOREM AgreementHolds == Spec => []Agreement
<1>1. wrong = {} => Agreement
  BY DEF Agreement
<1> QED
  BY <1>1, NothingWrong, PTL

(* Nothing else gives that secret: no other ciphertext, encoding, key or   *)
(* algorithm, whatever components they share (the combiner's inputs,       *)
(* composite_kem_combine_shared_secret).                                   *)
THEOREM BindingHolds == Spec => []Binding
<1>1. wrong = {} => Binding
  BY DEF Binding
<1> QED
  BY <1>1, NothingWrong, PTL

(* An RSA half that was made for another key gives an error and never a    *)
(* secret (composite_kem_decapsulate).                                     *)
THEOREM NeverAbsorbedHolds == Spec => []NeverAbsorbed
<1>1. wrong = {} => NeverAbsorbed
  BY DEF NeverAbsorbed
<1> QED
  BY <1>1, NothingWrong, PTL

(* A key that encapsulate_init accepts is never refused by the operation.  *)
THEOREM AcceptedWorksHolds == Spec => []AcceptedWorks
<1>1. wrong = {} => AcceptedWorks
  BY DEF AcceptedWorks
<1> QED
  BY <1>1, NothingWrong, PTL

-----------------------------------------------------------------------------
(* Types: no two encapsulations on record are the same one.                *)

Fresh ==
    /\ IsFiniteSet(sent)
    /\ \A s, t \in sent : s.ct.mlkem.n = t.ct.mlkem.n => s = t

(* What is on record was made before now.                                  *)
LEMMA Before ==
    ASSUME IInv
    PROVE  \A s \in sent : s.ct.mlkem.n \in 1..n /\ s.ct.trad.n = s.ct.mlkem.n
<1> SUFFICES ASSUME NEW s \in sent
             PROVE  s.ct.mlkem.n \in 1..n /\ s.ct.trad.n = s.ct.mlkem.n
  OBVIOUS
<1>1. PICK i \in 1..n : s.ct = CiphertextOf(s.alg, s.key, i)
  BY DEF IInv, Faithful
<1>2. s.ct.mlkem.n = i /\ s.ct.trad.n = i
  BY <1>1 DEF CiphertextOf
<1> QED
  BY <1>2

LEMMA FreshStep == ASSUME IInv, Fresh, [Next]_vars PROVE Fresh'
<1>1. CASE UNCHANGED sent
  BY <1>1 DEF Fresh
<1>2. CASE sent' # sent
  <2>1. PICK c \in Ctxs, ct \in BOOLEAN, ss \in BOOLEAN, room \in BOOLEAN, fault \in BOOLEAN :
            Encapsulate(c, ct, ss, room, fault)
    BY <1>2 DEF Next, vars, OpInit, Decapsulate
  <2>2. PICK new : /\ sent' = sent \union {new}
                   /\ \E alg, k : new.ct = CiphertextOf(alg, k, n + 1)
    <3> DEFINE alg == ctx[c].alg
               k == ctx[c].key
               made == CiphertextOf(alg, k, n + 1)
               new == [alg |-> alg, key |-> k, ct |-> made, ss |-> SecretOf(alg, k, made)]
    <3>1. sent' = sent \union {new}
      BY <1>2, <2>1 DEF Encapsulate
    <3>2. new.ct = CiphertextOf(alg, k, n + 1)
      OBVIOUS
    <3> HIDE DEF new
    <3> QED
      BY <3>1, <3>2
  <2>3. new.ct.mlkem.n = n + 1
    BY <2>2 DEF CiphertextOf
  <2>4. \A s \in sent : s.ct.mlkem.n # n + 1
    BY Before DEF IInv
  <2>5. IsFiniteSet(sent')
    BY <2>2, FS_AddElement DEF Fresh
  <2>6. \A s, t \in sent' : s.ct.mlkem.n = t.ct.mlkem.n => s = t
    BY <2>2, <2>3, <2>4 DEF Fresh
  <2> QED
    BY <2>5, <2>6 DEF Fresh
<1> QED
  BY <1>1, <1>2

LEMMA IInvTypes == ASSUME IInv, Fresh PROVE TypeOK
<1>1. \A c \in Ctxs :
         \/ ctx[c] = Idle
         \/ /\ ctx[c].op \in {"encapsulate", "decapsulate"}
            /\ ctx[c].alg \in Algs /\ ctx[c].key \in Keys
  BY DEF IInv, Initialised, Operations
<1>2. \A s \in sent : /\ s.alg \in Algs /\ s.key \in Keys
                      /\ s.ct.mlkem.n \in 1..n /\ s.ct.trad.n = s.ct.mlkem.n
  BY Before DEF IInv, Faithful
<1>3. \A ct \in left : ct.mlkem.n \in 1..n /\ ct.trad.n = ct.mlkem.n
  BY DEF IInv, CiphertextOf
<1>4. Cardinality({s.ct.mlkem.n : s \in sent}) = Cardinality(sent)
  <2> DEFINE T == {s.ct.mlkem.n : s \in sent}
             f == [s \in sent |-> s.ct.mlkem.n]
  <2>1. f \in Surjection(sent, T)
    BY DEF Surjection
  <2>2. f \in Injection(sent, T)
    BY DEF Fresh, Injection, IsInjective
  <2> HIDE DEF T, f
  <2>3. IsFiniteSet(sent)
    BY DEF Fresh
  <2>4. Cardinality(T) = Cardinality(sent)
    BY <2>1, <2>2, <2>3, FS_Surjection
  <2> QED
    BY <2>4 DEF T
<1> QED
  BY <1>1, <1>2, <1>3, <1>4 DEF TypeOK, IInv

(* Every state is of its type: what is on record belongs to one            *)
(* encapsulation each, and to no future one (composite_kem_encapsulate).   *)
THEOREM TypeCorrect == Spec => []TypeOK
<1>1. Init => Fresh
  BY FS_EmptySet DEF Init, Fresh
<1>2. IInv /\ Fresh /\ [Next]_vars => Fresh'
  BY FreshStep
<1>3. IInv /\ Fresh => TypeOK
  BY IInvTypes
<1> QED
  BY <1>1, <1>2, <1>3, Invariance, PTL DEF Spec

=============================================================================
