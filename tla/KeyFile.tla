------------------------------ MODULE KeyFile ------------------------------
(***************************************************************************)
(* Writing a composite key to a file and reading it back: the encoders of  *)
(* signature/composite_encoder.c and kem/composite_kem_encoder.c, the      *)
(* functions that give them the octets, and the functions that take the    *)
(* octets of a file apart again.                                           *)
(*                                                                         *)
(* An encoder works through a list of steps.  Each may fail, because a     *)
(* function of libcrypto that it calls does, and each failure has its own  *)
(* blocks to release.  Threads encode one key at the same time: that is    *)
(* allowed, the key being const to them, but an EVP_PKEY carries switches. *)
(*                                                                         *)
(* Octets are tokens that say which half they are of.  Which decoder takes *)
(* a file is the subject of DecoderChain.                                  *)
(***************************************************************************)
EXTENDS Algorithms, WireFormat

CONSTANTS
    Threads,  \* threads that encode and decode
    Seedless, \* names whose post-quantum half need not retain its seed
    None

ASSUME KeyFileAssumption ==
    /\ Seedless \subseteq Names
    /\ PqSets = PqAlgs
    /\ None \notin {"pki", "spki", "read"} /\ None \notin {0, 1}

VARIABLES
    key,    \* the key that is encoded
    switch, \* EC_INCLUDE_PUBLIC of its traditional half
    call,   \* by thread: the call under way, or the last one
    heap,   \* by thread and block: allocations less releases
    file,   \* by thread: what it has written
    back    \* by thread: what it has read back

vars == <<key, switch, call, heap, file, back>>

\* "copy" is the duplicate of an EC key, "info" a PKCS8_PRIV_KEY_INFO or an
\* X509_PUBKEY, "der" its encoding.  The halves that the KEM decode functions
\* return come from malloc and not from OPENSSL_malloc: they are their own.
Blocks == {"aobj", "pq", "copy", "trad", "blob", "info", "der", "bio",
           "malloc_pq", "malloc_trad", "pq_key"}

Kem == key.name \in KemNames
Half(op) == IF op = "pki" THEN "priv" ELSE "pub"
EcPrivate(op) == op = "pki" /\ key.trad.type = "EC"
Done(t) == call[t].todo = <<>>

-----------------------------------------------------------------------------
(* Octets.                                                                 *)

PqOctets(alg, what) ==
    [i \in 1..Size[alg][what] |-> [pq |-> alg, what |-> what, at |-> i]]
Unwritten(alg) ==
    [i \in 1..Size[alg]["priv"] |-> [pq |-> "unwritten", what |-> "priv", at |-> i]]

\* An ECPrivateKey may have the optional publicKey; nothing else has it.
TradOctets(trad, what, public) == <<[trad |-> trad, what |-> what], [publicKey |-> public]>>

\* Reading a public key, the curve is known; reading a private one, the KEMs
\* look at the type and leave the curve to the operations, and the signatures
\* decode whatever DER they find unless an Edwards curve is named.
Accepts(n, what, trad) ==
    LET due == alg_info_find(n).trad
    IN  CASE what = "pub" /\ due.type = "EC" -> trad = due
          [] what = "priv" /\ n \in SigNames /\ due.type \notin {"ED25519", "ED448"} ->
                trad.type \in {"RSA", "EC"}
          [] OTHER -> trad.type = due.type

\* The signatures leave DER to a decoder that does not ask whether the octets end
\* where it ends; the KEMs ask, and the other formats have one length.
EndIgnored(n, what) ==
    LET type == alg_info_find(n).trad.type
    IN  n \in SigNames /\ IF what = "priv" THEN type \notin {"ED25519", "ED448"}
                                           ELSE type = "RSA"

\* The traditional keys that octets may be read as.
TradRead(n, what, octets) ==
    {trad \in {row.trad : row \in composite_alg_table \union kem_algorithms} :
        /\ Accepts(n, what, trad)
        /\ \E public \in BOOLEAN :
              IF EndIgnored(n, what)
              THEN IsPrefix(TradOctets(trad, what, public), octets)
              ELSE octets = TradOctets(trad, what, public)}

-----------------------------------------------------------------------------
(* The steps of the encoders, in the order of the code.                    *)

composite_pki_pem_encode ==
    IF EcPrivate("pki")
    THEN <<"oid", "pq", "copy", "trad", "blob", "wrap", "bio", "write">>
    ELSE <<"oid", "pq", "trad", "blob", "wrap", "bio", "write">>

composite_spki_pem_encode == <<"oid", "pq", "trad", "blob", "wrap", "bio", "write">>

composite_spki_der_encode == <<"oid", "pq", "trad", "blob", "wrap", "der", "bio", "write">>

kem_pki_encode ==
    IF EcPrivate("pki")
    THEN <<"oid", "pq", "switch", "trad", "blob", "wrap", "bio", "write">>
    ELSE <<"oid", "pq", "trad", "blob", "wrap", "bio", "write">>

kem_spki_encode(form) ==
    IF form = "DER"
    THEN <<"oid", "trad", "blob", "pq", "wrap", "bio", "der", "write">>
    ELSE <<"oid", "trad", "blob", "pq", "wrap", "bio", "write">>

Steps(op, form) ==
    CASE Kem /\ op = "pki" -> kem_pki_encode
      [] Kem /\ op = "spki" -> kem_spki_encode(form)
      [] ~ Kem /\ op = "pki" -> composite_pki_pem_encode
      [] ~ Kem /\ op = "spki" /\ form = "PEM" -> composite_spki_pem_encode
      [] OTHER -> composite_spki_der_encode

\* There is no DER encoder for the PrivateKeyInfo of a signature key.
Forms(op) == IF ~ Kem /\ op = "pki" THEN {"PEM"} ELSE {"PEM", "DER"}

Settle(t, made, freed) ==
    heap' = [heap EXCEPT ![t] =
                [b \in Blocks |-> @[b] + (IF b \in made THEN 1 ELSE 0)
                                       - (IF b \in freed THEN 1 ELSE 0)]]

At(t, step) == call[t].todo # <<>> /\ Head(call[t].todo) = step

\* The step succeeds, and new is the call with what it has made of the octets.
Step(t, made, freed, new) ==
    /\ Settle(t, made, freed)
    /\ call' = [call EXCEPT ![t] = [new EXCEPT !.todo = Tail(call[t].todo)]]

\* The call returns 0.
Refuse(t, freed, fault) ==
    /\ Settle(t, {}, freed)
    /\ call' = [call EXCEPT ![t].todo = <<>>, ![t].ret = 0,
                            ![t].fault = @ \/ fault]

Idle == [op |-> None, form |-> None, todo |-> <<>>, pq |-> <<>>, trad |-> <<>>,
         blob |-> <<>>, ret |-> None, fault |-> FALSE]

\* A device with nothing written to it.
Blank == [oid |-> 0, op |-> None, octets |-> <<>>, written |-> "nothing"]

\* A key of the name: generated, or with the public halves only.
Init ==
    /\ \E n \in Names, private, seed \in BOOLEAN :
          /\ ~ seed => n \in Seedless
          /\ key = [name |-> n, private |-> private, seed |-> seed,
                     pq |-> Generated(n).pq, trad |-> Generated(n).trad]
    /\ switch = TRUE
    /\ call = [t \in Threads |-> Idle]
    /\ heap = [t \in Threads |-> [b \in Blocks |-> 0]]
    /\ file = [t \in Threads |-> Blank]
    /\ back = [t \in Threads |-> None]

\* Bound: a thread encodes the key once, and reads back what it wrote.
Encode_begin(t) ==
    /\ call[t] = Idle
    /\ \E op \in {"pki", "spki"} : \E form \in Forms(op) :
          call' = [call EXCEPT ![t] = [Idle EXCEPT !.op = op, !.form = form,
                                                  !.todo = Steps(op, form)]]
    /\ UNCHANGED <<key, switch, heap, file, back>>

\* The OID of the key's name.
AlgObj(t) ==
    /\ At(t, "oid")
    /\ Refuse(t, {}, TRUE) \/ Step(t, {"aobj"}, {}, call[t])
    /\ UNCHANGED <<key, switch, file, back>>

\* Variant: nobody asks whether there is a private key.
MaterialUnasked(op) == op = "spki" \/ (Kem => key.seed)

\* Whether there is what is to be written.  An ML-DSA key without its seed is not noticed:
\* libcrypto leaves a parameter it does not have as it is, and succeeds.
Material(op) == op = "spki" \/ (key.private /\ (Kem => key.seed))

PqOut(op) ==
    IF op = "pki" /\ ~ key.seed THEN Unwritten(key.pq) ELSE PqOctets(key.pq, Half(op))

\* The post-quantum half: into a buffer of its own (signatures), onto the stack
\* (a KEM seed), or in front of the traditional half (a KEM public key).
PqHalf(t) ==
    /\ At(t, "pq")
    /\ LET op == call[t].op
           last == Kem /\ op = "spki"
           held == {"aobj"} \union (IF last THEN {"trad", "blob"} ELSE {})
       IN  IF ~ Material(op)
           THEN Refuse(t, held, FALSE)
           ELSE \/ Refuse(t, held, TRUE)
                \/ Step(t, IF Kem THEN {} ELSE {"pq"}, IF last THEN {"trad"} ELSE {},
                        [call[t] EXCEPT !.pq = PqOut(op),
                             !.blob = IF last THEN Join(PqOut(op), call[t].trad) ELSE <<>>])
    /\ UNCHANGED <<key, switch, file, back>>

\* A signature key is duplicated, and the duplicate told to leave out its
\* public key; a KEM key is told so itself, and stays so.
CopyKey(t) ==
    /\ At(t, "copy")
    /\ Refuse(t, {"pq", "aobj"}, TRUE) \/ Step(t, {"copy"}, {}, call[t])
    /\ UNCHANGED <<key, switch, file, back>>

SwitchKey(t) ==
    /\ At(t, "switch")
    /\ \/ Refuse(t, {"aobj"}, TRUE) /\ UNCHANGED switch
       \/ Step(t, {}, {}, call[t]) /\ switch' = FALSE
    /\ UNCHANGED <<key, file, back>>

\* What is held while the traditional half is made, and how it comes out.
TradHeld(op) ==
    {"aobj"} \union (IF Kem THEN {} ELSE {"pq"})
             \union (IF ~ Kem /\ EcPrivate(op) THEN {"copy"} ELSE {})
TradOut(op) == TradOctets(key.trad, Half(op), Kem /\ EcPrivate(op) /\ switch)

\* Variant: an encoder puts the switch back when it has the octets.
SwitchRestored(op) == IF Kem /\ EcPrivate(op) THEN TRUE ELSE switch

\* The switch after the traditional half has been taken.
SwitchAfter(op) == switch

TradHalf(t) ==
    /\ At(t, "trad")
    /\ LET op == call[t].op
           copy == TradHeld(op) \intersect {"copy"}
       IN  \/ Refuse(t, TradHeld(op), TRUE)
           \/ Step(t, {"trad"}, copy, [call[t] EXCEPT !.trad = TradOut(op)])
    /\ switch' = SwitchAfter(call[t].op)
    /\ UNCHANGED <<key, file, back>>

\* Variant: the traditional half is forgotten when there is no room.
HalvesForgotten == IF Kem THEN {} ELSE {"pq"}

\* The halves that have a buffer each.
HalvesHeld == IF Kem THEN {"trad"} ELSE {"pq", "trad"}

\* The buffer for the whole.  A KEM public key is filled in by PqHalf.
Blob(t) ==
    /\ At(t, "blob")
    /\ \/ Refuse(t, {"aobj"} \union HalvesHeld, TRUE)
       \/ Step(t, {"blob"}, IF Kem /\ call[t].op = "spki" THEN {} ELSE HalvesHeld,
               [call[t] EXCEPT !.blob = Join(call[t].pq, call[t].trad)])
    /\ UNCHANGED <<key, switch, file, back>>

\* PKCS8_pkey_set0 or X509_PUBKEY_set0_param: on success the structure owns the
\* OID and the octets, on failure the encoder still does.
Wrap(t) ==
    /\ At(t, "wrap")
    /\ \/ Refuse(t, {"aobj", "blob"}, TRUE)
       \/ Step(t, {"info"}, {"aobj", "blob"}, call[t])
    /\ UNCHANGED <<key, switch, file, back>>

\* i2d_X509_PUBKEY.  The signatures release the structure here, before there
\* is anything to write to; the KEMs have opened the BIO and keep both.
DerEncode(t) ==
    /\ At(t, "der")
    /\ IF Kem THEN Refuse(t, {"bio", "info"}, TRUE) \/ Step(t, {"der"}, {}, call[t])
       ELSE Refuse(t, {"info"}, TRUE) \/ Step(t, {"der"}, {"info"}, call[t])
    /\ UNCHANGED <<key, switch, file, back>>

\* Variant: the signatures release the structure at the end as well.
WrittenTwice(t) ==
    IF call[t].op = "spki" /\ call[t].form = "DER" THEN {"der", "info"} ELSE {"info"}

\* What an encoder releases in the end, apart from its BIO.
Written(t) ==
    LET der == call[t].op = "spki" /\ call[t].form = "DER"
    IN  (IF der THEN {"der"} ELSE {}) \union (IF der /\ ~ Kem THEN {} ELSE {"info"})

\* Variant: that there is no BIO is noted, and the writing goes on.
OpenBioUnchecked(t) ==
    /\ At(t, "bio")
    /\ \/ Step(t, {}, {}, [call[t] EXCEPT !.ret = 0])
       \/ Step(t, {"bio"}, {}, call[t])
    /\ UNCHANGED <<key, switch, file, back>>

OpenBio(t) ==
    /\ At(t, "bio")
    /\ \/ Refuse(t, Written(t) \ (IF Kem THEN {"der"} ELSE {}), TRUE)
       \/ Step(t, {"bio"}, {}, call[t])
    /\ UNCHANGED <<key, switch, file, back>>

Document(t, written) ==
    [oid |-> Oid(key.name), op |-> call[t].op, octets |-> call[t].blob,
     written |-> written]

\* Variant: that BIO_write wrote something is taken for success.
WriteAny(t) ==
    /\ At(t, "write")
    /\ \E written \in {"part", "whole"} :
          /\ Step(t, {}, {"bio"} \union Written(t), [call[t] EXCEPT !.ret = 1])
          /\ file' = [file EXCEPT ![t] = Document(t, written)]
    /\ UNCHANGED <<key, switch, back>>

\* A device that is full takes nothing, or a part.
Write(t) ==
    /\ At(t, "write")
    /\ \/ /\ Step(t, {}, {"bio"} \union Written(t), [call[t] EXCEPT !.ret = 1])
          /\ file' = [file EXCEPT ![t] = Document(t, "whole")]
       \/ /\ Refuse(t, {"bio"} \union Written(t), TRUE)
          /\ file' = [file EXCEPT ![t] = Document(t, "part")] \/ UNCHANGED file
    /\ UNCHANGED <<key, switch, back>>

-----------------------------------------------------------------------------
(* Reading it back.                                                        *)

\* The reader of a document that was said to be complete.
Read_begin(t) ==
    /\ Done(t) /\ call[t].op \in {"pki", "spki"} /\ call[t].ret = 1
    /\ call' = [call EXCEPT ![t] =
                    [Idle EXCEPT !.op = "read",
                                 !.todo = <<"split", "read_pq", "read_trad">>]]
    /\ UNCHANGED <<key, switch, heap, file, back>>

\* The algorithm that the OID in front stands for, and what is encoded.
Named(t) == CHOOSE n \in Names : Oid(n) = file[t].oid
Due(t) == alg_info_find(Named(t))
Copies == IF Kem THEN {"malloc_pq", "malloc_trad"} ELSE {}

\* Variant: the copies that *_decode made with malloc go to OPENSSL_free.
ReleasedWrong == IF Kem THEN {"pq", "trad"} ELSE {}

Released == Copies

\* A signature is pointed into, a KEM encoding is copied out of.
SplitDocument(t) ==
    /\ At(t, "split")
    /\ LET what == Half(file[t].op)
           in == file[t].octets
       IN  IF file[t].written # "whole" \/ ~ Splittable(Due(t).pq, what, in)
           THEN Refuse(t, {}, FALSE)
           ELSE \/ Kem /\ Refuse(t, {}, TRUE)
                \/ LET split == Split(Due(t).pq, what, in)
                   IN  Step(t, Copies, {}, [call[t] EXCEPT !.pq = split.pq,
                                                           !.trad = split.trad])
    /\ UNCHANGED <<key, switch, file, back>>

\* Octets of the right length are some key or other.
PqRead(alg, what, octets) == IF octets = PqOctets(alg, what) THEN alg ELSE "another"

ReadPq(t) ==
    /\ At(t, "read_pq")
    /\ LET sized == Len(call[t].pq) = Size[Due(t).pq][Half(file[t].op)]
       IN  \/ Refuse(t, Released, sized)
           \/ sized /\ Step(t, {"pq_key"}, {}, call[t])
    /\ UNCHANGED <<key, switch, file, back>>

\* On success the components are the key's.
ReadTrad(t) ==
    /\ At(t, "read_trad")
    /\ LET what == Half(file[t].op)
           read == TradRead(Named(t), what, call[t].trad)
       IN  \/ Refuse(t, {"pq_key"} \union Released, read # {}) /\ UNCHANGED back
           \/ \E trad \in read :
                 /\ Step(t, {}, {"pq_key"} \union Released, [call[t] EXCEPT !.ret = 1])
                 /\ back' = [back EXCEPT ![t] =
                        [name |-> Named(t), private |-> what = "priv",
                         pq |-> PqRead(Due(t).pq, what, call[t].pq), trad |-> trad]]
    /\ UNCHANGED <<key, switch, file>>

Next ==
    \E t \in Threads :
        \/ Encode_begin(t) \/ AlgObj(t) \/ PqHalf(t) \/ CopyKey(t) \/ SwitchKey(t)
        \/ TradHalf(t) \/ Blob(t) \/ Wrap(t) \/ DerEncode(t) \/ OpenBio(t) \/ Write(t)
        \/ Read_begin(t) \/ SplitDocument(t) \/ ReadPq(t) \/ ReadTrad(t)

Spec == Init /\ [][Next]_vars

-----------------------------------------------------------------------------
(* What the encoders promise.                                              *)

Halves == [pq : PqAlgs \union {"another"},
           trad : {row.trad : row \in composite_alg_table \union kem_algorithms}]

TypeOK ==
    /\ switch \in BOOLEAN
    /\ key.name \in Names /\ key.private \in BOOLEAN
    /\ \A t \in Threads :
          /\ call[t].op \in {None, "pki", "spki", "read"}
          /\ call[t].ret \in {None, 0, 1} /\ (call[t].ret # None => Done(t))
          /\ heap[t] \in [Blocks -> Int]
          /\ file[t] = Blank \/ file[t].oid = Oid(key.name)
          /\ back[t] # None =>
                [pq |-> back[t].pq, trad |-> back[t].trad] \in Halves

\* What is read back from a document that an encoder was content with is the
\* key that was written: its algorithm, both components, and the private key
\* if and only if the document is a private one.  Reading it fails only when
\* libcrypto does.  (The encoders of both families against their importers.)
RoundTrip ==
    \A t \in Threads : call[t].op = "read" /\ Done(t) =>
        \/ /\ call[t].ret = 1
           /\ back[t] = [name |-> key.name, private |-> file[t].op = "pki",
                         pq |-> key.pq, trad |-> key.trad]
        \/ call[t].ret = 0 /\ call[t].fault

\* A generated key has the components that the table promises to everybody who
\* later uses its name: the comparisons of composite_sig_key.c that generation
\* goes through agree with composite_alg_table, down to size and curve.
GeneratedAsNamed ==
    /\ key.pq = alg_info_find(key.name).pq
    /\ key.trad = alg_info_find(key.name).trad

\* Whatever step fails, a call that is over has released all it allocated,
\* once, and by the allocator it came from.
HeapClean == \A t \in Threads : \A b \in Blocks :
    heap[t][b] >= 0 /\ (Done(t) => heap[t][b] = 0)

\* No EC private key is written with the optional public key (draft 10.4.2,
\* composite_kem_key.c:700), however many threads encode the key and whatever
\* they do with the switch that they share.
NoPublicField == \A t \in Threads :
    /\ [publicKey |-> TRUE] \notin ToSet(call[t].trad)
    /\ [publicKey |-> TRUE] \notin ToSet(file[t].octets)

\* An encoder returns 1 if and only if the whole document is written, and 0
\* only if libcrypto failed or there is no private key to write.
Answered == \A t \in Threads : call[t].op \in {"pki", "spki"} /\ Done(t) =>
    /\ call[t].ret = 1 <=> file[t].written = "whole"
    /\ call[t].ret = 0 =>
          \/ call[t].fault
          \/ call[t].op = "pki" /\ (~ key.private \/ (Kem /\ ~ key.seed))
    /\ file[t].op = "pki" => key.private

=============================================================================
