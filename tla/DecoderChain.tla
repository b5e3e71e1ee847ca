---------------------------- MODULE DecoderChain ----------------------------
(***************************************************************************)
(* Decoding a key file: the per-algorithm DER decoders of the provider,    *)
(* signature/composite_decoder.c and kem/composite_kem_decoder.c, under    *)
(* the OSSL_DECODER framework that offers the same bytes to one after the  *)
(* other.                                                                  *)
(*                                                                         *)
(* A decode function answers with a number and at most one object.  1 and  *)
(* no object means "not mine, go on"; 0 ends the whole search, for every   *)
(* other decoder too.  Each composite algorithm registers two decoders,    *)
(* and the order in which the framework gets to them is not the            *)
(* provider's to choose.                                                   *)
(*                                                                         *)
(* An object is handed over by reference: the framework calls back into    *)
(* the provider (load) to take the key, wraps it, and may fail to.         *)
(***************************************************************************)
EXTENDS Integers, FiniteSets

CONSTANTS
    Algs,      \* composite algorithms, each with its two decoders
    Family,    \* "sig" or "kem", for each algorithm
    Shape,     \* what a serialized key of each algorithm looks like
    Documents, \* inputs that callers offer
    NULL       \* no decoder, no algorithm

Structures == {"PrivateKeyInfo", "SubjectPublicKeyInfo"}

\* "empty" is input without a single byte, "other" anything that is not one of
\* the two structures; params says whether AlgorithmIdentifier has parameters,
\* publicKey whether the optional field of OneAsymmetricKey is there.
DocumentType ==
    [structure : Structures \union {"empty", "other"}, alg : Algs \union {NULL},
     shape : {Shape[a] : a \in Algs} \union {NULL},
     params : BOOLEAN, publicKey : BOOLEAN]

ASSUME DecoderAssumption ==
    /\ IsFiniteSet(Algs) /\ NULL \notin Algs
    /\ Family \in [Algs -> {"sig", "kem"}]
    /\ Documents \subseteq DocumentType

\* What the framework may do with an object that is offered to it.
Handovers == {"taken", "refused", "taken_and_freed"}

Selections == SUBSET {"PUBLIC_KEY", "PRIVATE_KEY"}
Decoders == [alg : Algs, structure : Structures]

VARIABLES
    doc,     \* the input
    sel,     \* what the caller selects, {} for anything
    tried,   \* decoders the framework is done with
    cur,     \* the decoder whose decode function runs
    pc,      \* where that function is
    key,     \* who has the key it allocated; "gone" when nobody has
    frees,   \* how often that key was freed
    faults,  \* whether an allocation, a read or the framework failed
    outcome, \* how the search ended
    found    \* the algorithm of the key the caller gets

vars == <<doc, sel, tried, cur, pc, key, frees, faults, outcome, found>>

TypeOK ==
    /\ doc \in Documents /\ sel \in Selections
    /\ tried \subseteq Decoders /\ cur \in Decoders \union {NULL}
    /\ pc \in {"chain", "read", "parse", "import", "handover", "done"}
    /\ key \in {"none", "decoder", "framework", "gone"} /\ frees \in 0 .. 2
    /\ faults \in BOOLEAN
    /\ outcome \in {"searching", "decoded", "aborted", "exhausted"}
    /\ found \in Algs \union {NULL}

Init ==
    /\ doc \in Documents /\ sel \in Selections
    /\ tried = {} /\ cur = NULL /\ pc = "chain"
    /\ key = "none" /\ frees = 0 /\ faults = FALSE
    /\ outcome = "searching" /\ found = NULL

-----------------------------------------------------------------------------
(* The framework.                                                          *)

\* composite_spki_does_selection and its three siblings.
DoesSelection(d) ==
    sel = {} \/ IF d.structure = "PrivateKeyInfo" THEN "PRIVATE_KEY" \in sel
                                                  ELSE "PUBLIC_KEY" \in sel

Offer(d) ==
    /\ pc = "chain" /\ d \notin tried /\ DoesSelection(d)
    /\ cur' = d /\ tried' = tried \union {d}
    /\ pc' = "read" /\ key' = "none" /\ frees' = 0
    /\ UNCHANGED <<doc, sel, faults, outcome, found>>

Exhausted ==
    /\ pc = "chain" /\ \A d \in Decoders : DoesSelection(d) => d \in tried
    /\ pc' = "done" /\ outcome' = "exhausted"
    /\ UNCHANGED <<doc, sel, tried, cur, key, frees, faults, found>>

\* What the framework makes of a return value that came with no object.
Returns(ret) ==
    /\ cur' = NULL
    /\ IF ret = 0 THEN pc' = "done" /\ outcome' = "aborted"
                  ELSE pc' = "chain" /\ UNCHANGED outcome
    /\ UNCHANGED <<doc, sel, found>>

-----------------------------------------------------------------------------
(* The decode functions.                                                   *)

Is(family, structure) == Family[cur.alg] = family /\ cur.structure = structure

\* The core BIO cannot be wrapped or its content cannot be held; a read error
\* after some bytes, and any error inside d2i_bio, pass for "not mine".
ReadFails ==
    /\ pc = "read"
    /\ faults' = TRUE
    /\ \E ret \in {0, 1} : Returns(ret)
    /\ UNCHANGED <<tried, key, frees>>

\* Input with nothing in it is not distinguished from a failure to read it by
\* kem_dec_read_der.
ReadNothing ==
    /\ pc = "read" /\ doc.structure = "empty"
    /\ Returns(IF Family[cur.alg] = "kem" THEN 0 ELSE 1)
    /\ UNCHANGED <<tried, key, frees, faults>>

Read ==
    /\ pc = "read" /\ doc.structure # "empty"
    /\ pc' = "parse"
    /\ UNCHANGED <<doc, sel, tried, cur, key, frees, faults, outcome, found>>

\* Variant: the OID is not compared.
check_algor_any == ~ doc.params

\* kem_dec_check_algor: the right OID, and no parameters.
check_algor == doc.alg = cur.alg /\ ~ doc.params

\* Does the input have the structure this decoder reads, and name its
\* algorithm?  The signature decoders ignore the parameters, and the one for
\* SubjectPublicKeyInfo ignores the OID as well; its PrivateKeyInfo sibling
\* parses with a template that has no place for a public key.
Parses ==
    /\ doc.structure = cur.structure
    /\ CASE Family[cur.alg] = "kem" -> check_algor
         [] Is("sig", "PrivateKeyInfo") -> doc.alg = cur.alg /\ ~ doc.publicKey
         [] OTHER -> TRUE

\* Variant: data that is not ours is answered with 0.
NotMineIsFatal ==
    /\ pc = "parse" /\ ~ Parses
    /\ Returns(0)
    /\ UNCHANGED <<tried, key, frees, faults>>

\* Variant: parsing goes through X509_PUBKEY, whose d2i callback starts the
\* search over with the same bytes.
NotMineReenters ==
    /\ pc = "parse" /\ ~ Parses
    /\ Returns(1)
    /\ tried' = tried \ {cur}
    /\ UNCHANGED <<key, frees, faults>>

NotMine ==
    /\ pc = "parse" /\ ~ Parses
    /\ Returns(1)
    /\ UNCHANGED <<tried, key, frees, faults>>

NoMemory ==
    /\ pc = "parse" /\ Parses
    /\ faults' = TRUE
    /\ Returns(0)
    /\ UNCHANGED <<tried, key, frees>>

NewKey ==
    /\ pc = "parse" /\ Parses
    /\ key' = "decoder" /\ pc' = "import"
    /\ UNCHANGED <<doc, sel, tried, cur, frees, faults, outcome, found>>

\* Variant: the key is freed and handed over all the same.
ImportFailsGoesOn ==
    /\ pc = "import"
    /\ faults' = (faults \/ doc.shape = Shape[cur.alg])
    /\ pc' = "handover" /\ frees' = frees + 1
    /\ UNCHANGED <<doc, sel, tried, cur, key, outcome, found>>

\* The blob does not have this algorithm's shape, or a component cannot be
\* built (or, for a signature private key, duplicated): the key is dropped and
\* the others get their turn.
ImportFails ==
    /\ pc = "import"
    /\ faults' = (faults \/ doc.shape = Shape[cur.alg])
    /\ key' = "gone" /\ frees' = frees + 1
    /\ Returns(1)
    /\ UNCHANGED tried

Import ==
    /\ pc = "import" /\ doc.shape = Shape[cur.alg]
    /\ pc' = "handover"
    /\ UNCHANGED <<doc, sel, tried, cur, key, frees, faults, outcome, found>>

\* Variant: the decoder takes every key it has offered for gone.
NeverOurs(how) == FALSE

\* After object_cb, the decoder frees a key unless the callback returned 1.
StillOurs(how) == how # "taken"

\* object_cb: load gives the framework the key, which wraps it ("taken") or
\* cannot and frees it ("taken_and_freed"); or it never gets to load
\* ("refused").  load leaves the decoder's reference as it is.
Handover(how) ==
    /\ pc = "handover"
    /\ frees' = frees + (IF how = "taken_and_freed" THEN 1 ELSE 0)
                      + (IF StillOurs(how) THEN 1 ELSE 0)
    /\ key' = IF how = "taken" THEN "framework" ELSE "gone"
    /\ IF how = "taken"
       THEN /\ outcome' = "decoded" /\ found' = cur.alg
            /\ pc' = "done" /\ cur' = NULL
            /\ UNCHANGED <<doc, sel, faults>>
       ELSE /\ Returns(0)
            /\ faults' = TRUE
    /\ UNCHANGED tried

Step ==
    \/ \E d \in Decoders : Offer(d)
    \/ Exhausted
    \/ ReadFails \/ ReadNothing \/ Read
    \/ NotMine \/ NoMemory \/ NewKey
    \/ ImportFails \/ Import
    \/ \E how \in Handovers : Handover(how)

\* The caller has its answer.
Ended == pc = "done" /\ UNCHANGED vars

Next == Step \/ Ended

\* The framework's loop runs in its caller's thread and does not stop midway.
Spec == Init /\ [][Next]_vars /\ WF_vars(Step)

-----------------------------------------------------------------------------
(* Correctness.                                                            *)

\* Whatever step fails and whatever the framework does, no key leaks and none is
\* freed that somebody has: while the decoder or the framework has it, nobody
\* frees it, and one that nobody has any more was freed, by the decoder alone
\* unless a hand-over failed.  No decoder leaves its key behind
\* (composite_decoder.c:170-181, composite_kem_decoder.c:142-145).
Released ==
    /\ key \in {"none", "decoder", "framework"} => frees = 0
    /\ key = "gone" => frees >= 1 /\ (frees > 1 => outcome = "aborted")
    /\ pc \in {"chain", "done"} => key # "decoder"
    /\ key = "framework" <=> outcome = "decoded"

\* And a key that load has given away is the framework's to free, not the
\* decoder's: "ownership transfers to the caller" (composite_kem_keymgmt.c:
\* 211-215).
OneOwner == frees <= 1

\* The documents somebody has to be able to read: a decoder for the structure
\* is registered and selected, and the file is as the algorithm's draft says.
Readable ==
    /\ \E d \in Decoders : /\ d.structure = doc.structure /\ d.alg = doc.alg
                           /\ DoesSelection(d)
    /\ ~ doc.params /\ ~ doc.publicKey
    /\ doc.shape = Shape[doc.alg]

\* No decoder spoils the search for another: unless something failed, a file
\* that is some algorithm's is decoded whatever the order of the decoders, and
\* the only input that a decoder ends the search for is one without a single
\* byte (composite_kem_decoder.c:175-180: a 0 "would break dispatch for every
\* other algorithm").
NobodySpoils ==
    ~ faults =>
        /\ Readable => outcome \notin {"aborted", "exhausted"}
        /\ outcome = "aborted" => doc.structure = "empty"

\* What comes out is what the file says: a key of the file's structure and
\* shape and, but for signature public keys, of the algorithm its OID names.
DecodedAsNamed ==
    outcome = "decoded" =>
        /\ doc.shape = Shape[found]
        /\ doc.structure = "PrivateKeyInfo" \/ Family[found] = "kem" => doc.alg = found

\* Whatever is offered, in whatever order, the search ends: no decoder starts
\* it again (composite_decoder.c:98-104 on what X509_PUBKEY would do).
SearchEnds == <>(outcome # "searching")

\* composite_decoder.c:78-83: "data that merely isn't ours (wrong OID,
\* unparsable) must return 1 with no object callback".
WrongOidIsDeclined == found # NULL => doc.alg = found

=============================================================================
