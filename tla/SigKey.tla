------------------------------- MODULE SigKey -------------------------------
(***************************************************************************)
(* COMPOSITE_KEY objects of the signature algorithms:                      *)
(* signature/composite_sig_key.c, composite_keys.c and the component half  *)
(* of composite_sig_encoding.c and composite_decoder.c.                    *)
(*                                                                         *)
(* Unlike a KEM key, a signature key never shares a component: every slot  *)
(* owns an EVP_PKEY of its own.  Where the private material lives depends  *)
(* on how the key came about (generation fills only the public slots, with *)
(* private-capable objects), so signing falls back from the private to the *)
(* public slots and has_private says whether that will work.               *)
(*                                                                         *)
(* Calls on different keys share nothing, so one call at a time is         *)
(* modelled, step by step: each step is a component that is built, or a    *)
(* failure to build it.                                                    *)
(***************************************************************************)
EXTENDS Integers, FiniteSets

CONSTANTS
    Keys,          \* COMPOSITE_KEY allocations
    MldsaPairs,    \* ML-DSA key pairs that EVP_PKEY_generate may draw
    ClassicPairs,  \* traditional key pairs that EVP_PKEY_generate may draw
    Foreign,       \* "pub" and "priv" parameters made elsewhere
    DupSelections, \* selections that libcrypto passes to composite_dup_key
    NULL,          \* the null pointer
    None           \* no composite, no parameter

Composites == [mldsa : MldsaPairs, classic : ClassicPairs]
Params == [pub : Composites \union {None}, priv : Composites \union {None}]
NoParams == [pub |-> None, priv |-> None]
Selections == SUBSET {"PUBLIC_KEY", "PRIVATE_KEY"}

\* An EVP_PKEY: a pair, with or without its private half.
Mldsa   == [pair : MldsaPairs, private : BOOLEAN]
Classic == [pair : ClassicPairs, private : BOOLEAN]

ASSUME SigKeyAssumption ==
    /\ IsFiniteSet(Keys)
    /\ None \notin Composites
    /\ NULL \notin Mldsa \union Classic \union Params
    /\ Foreign \subseteq Params
    /\ DupSelections \subseteq Selections

VARIABLES
    live,   \* keys allocated and not freed
    slots,  \* the component slots and has_private of each key
    call,   \* the call under way
    pkeys,  \* how many EVP_PKEY are allocated
    wire,   \* parameters most recently handed to an export callback
    minted  \* composites generated so far

vars == <<live, slots, call, pkeys, wire, minted>>

Slots == [mldsa_pubkey : Mldsa \union {NULL}, mldsa_privkey : Mldsa \union {NULL},
          classic_pubkey : Classic \union {NULL},
          classic_privkey : Classic \union {NULL},
          has_private : BOOLEAN]
SlotNames == {"mldsa_pubkey", "mldsa_privkey", "classic_pubkey", "classic_privkey"}

\* composite_key_new: zeroed.
EmptyKey == [mldsa_pubkey |-> NULL, mldsa_privkey |-> NULL,
             classic_pubkey |-> NULL, classic_privkey |-> NULL,
             has_private |-> FALSE]

\* "gen" is the keymgmt entry, "generate" composite_signkey_generate called on
\* a key that exists; "side" is the half that a decode is rebuilding.
Calls == [name : {"gen", "generate", "import", "spki", "pki"}, key : Keys,
          pc : {"mldsa", "classic", "derive"}, side : {"pub", "priv"},
          priv : BOOLEAN, params : Params, mldsa : Mldsa \union {NULL}]
Idle == [name |-> "none"]

TypeOK ==
    /\ live \subseteq Keys
    /\ slots \in [Keys -> Slots]
    /\ call \in Calls \union {Idle}
    /\ pkeys \in Nat
    /\ wire \in Params
    /\ minted \subseteq Composites

Init ==
    /\ live = {}
    /\ slots = [k \in Keys |-> EmptyKey]
    /\ call = Idle
    /\ pkeys = 0
    /\ wire = NoParams
    /\ minted = {}

-----------------------------------------------------------------------------
Filled(s) == {n \in SlotNames : s[n] # NULL}

\* What signing and verifying reach for (composite_sig_sign and _verify).
SignWith(s) ==
    [mldsa   |-> IF s.mldsa_privkey # NULL THEN s.mldsa_privkey ELSE s.mldsa_pubkey,
     classic |-> IF s.classic_privkey # NULL THEN s.classic_privkey
                                             ELSE s.classic_pubkey]
VerifyWith(s) == [mldsa |-> s.mldsa_pubkey, classic |-> s.classic_pubkey]

CompositeOf(halves) == [mldsa |-> halves.mldsa.pair, classic |-> halves.classic.pair]

composite_has(k, sel) ==
    /\ "PUBLIC_KEY" \in sel => slots[k].mldsa_pubkey # NULL
                               /\ slots[k].classic_pubkey # NULL
    /\ "PRIVATE_KEY" \in sel => slots[k].has_private

New(k) ==
    /\ call = Idle /\ k \notin live
    /\ live' = live \union {k}
    /\ UNCHANGED <<slots, call, pkeys, wire, minted>>

\* composite_signkey_free: every slot's object goes with the key.
Free(k) ==
    /\ call = Idle /\ k \in live
    /\ live' = live \ {k}
    /\ slots' = [slots EXCEPT ![k] = EmptyKey]
    /\ pkeys' = pkeys - Cardinality(Filled(slots[k]))
    /\ UNCHANGED <<call, wire, minted>>

Begin(k, name, side, priv, params) ==
    call' = [name |-> name, key |-> k, pc |-> "mldsa", side |-> side,
             priv |-> priv, params |-> params, mldsa |-> NULL]

\* composite_gen_with_alg, on a key it allocates.
GenBegin(k) ==
    /\ call = Idle /\ k \notin live
    /\ live' = live \union {k}
    /\ Begin(k, "gen", "pub", FALSE, NoParams)
    /\ UNCHANGED <<slots, pkeys, wire, minted>>

\* composite_signkey_generate on a fresh key of the caller's.
GenerateBegin(k) ==
    /\ call = Idle /\ k \in live /\ slots[k] = EmptyKey
    /\ Begin(k, "generate", "pub", FALSE, NoParams)
    /\ UNCHANGED <<live, slots, pkeys, wire, minted>>

\* composite_key_import into a key that libcrypto just allocated: the public
\* parameter first, then the private one, each if selected and present.  With
\* neither the call succeeds and the key stays empty.
ImportBegin(k, sel, p) ==
    LET pub  == "PUBLIC_KEY" \in sel /\ p.pub # None
        priv == "PRIVATE_KEY" \in sel /\ p.priv # None
    IN
    /\ call = Idle /\ k \notin live
    /\ live' = live \union {k}
    /\ IF pub \/ priv
       THEN Begin(k, "import", IF pub THEN "pub" ELSE "priv", priv, p)
       ELSE call' = Idle
    /\ UNCHANGED <<slots, pkeys, wire, minted>>

\* The key half of composite_spki_decode and composite_pki_decode.
DecodeBegin(k, name, p) ==
    LET side == IF name = "pki" THEN "priv" ELSE "pub"
    IN
    /\ call = Idle /\ k \notin live
    /\ p[side] # None
    /\ live' = live \union {k}
    /\ Begin(k, name, side, FALSE, p)
    /\ UNCHANGED <<slots, pkeys, wire, minted>>

Generating == call.name \in {"gen", "generate"}

\* EVP_PKEY_generate never returns a pair that somebody already has.
Fresh(pair) ==
    /\ \A c \in minted : pair \notin {c.mldsa, c.classic}
    /\ call.mldsa # NULL => call.mldsa.pair # pair

\* The ML-DSA half: ml_dsa_key_generate, EVP_PKEY_new_raw_public_key_ex or
\* EVP_PKEY_fromdata on the seed.
BuildMldsa ==
    /\ call # Idle /\ call.pc = "mldsa"
    /\ \E pair \in MldsaPairs :
          /\ IF Generating THEN Fresh(pair) ELSE pair = call.params[call.side].mldsa
          /\ call' = [call EXCEPT !.pc = "classic",
                        !.mldsa = [pair |-> pair,
                                   private |-> Generating \/ call.side = "priv"]]
    /\ pkeys' = pkeys + 1
    /\ UNCHANGED <<live, slots, wire, minted>>

\* Variant: privkey_decode keeps the ML-DSA half that the key already has.
InstalledKeepsMldsa(s, m, c) ==
    IF call.side = "priv"
    THEN [s EXCEPT !.mldsa_privkey = IF s.mldsa_pubkey = NULL THEN m ELSE NULL,
                   !.classic_privkey = c, !.has_private = TRUE]
    ELSE [s EXCEPT !.mldsa_pubkey = m, !.classic_pubkey = c,
                   !.has_private = @ \/ call.name = "gen"]

\* Variant: every decode marks the key as private.
InstalledAlwaysPrivate(s, m, c) ==
    IF call.side = "priv"
    THEN [s EXCEPT !.mldsa_privkey = m, !.classic_privkey = c, !.has_private = TRUE]
    ELSE [s EXCEPT !.mldsa_pubkey = m, !.classic_pubkey = c,
                   !.has_private = @ \/ call.name # "generate"]

\* Both halves move in together: composite_signkey_set0_components after a
\* generation, pubkey_decode or privkey_decode otherwise.  Only the keymgmt
\* entry marks a generated key as private.
Installed(s, m, c) ==
    IF call.side = "priv"
    THEN [s EXCEPT !.mldsa_privkey = m, !.classic_privkey = c, !.has_private = TRUE]
    ELSE [s EXCEPT !.mldsa_pubkey = m, !.classic_pubkey = c,
                   !.has_private = @ \/ call.name = "gen"]

\* Objects that a decode frees because it replaces them.
Replaced(s) ==
    IF Generating THEN {}
    ELSE Filled(s) \intersect
            (IF call.side = "priv" THEN {"mldsa_privkey", "classic_privkey"}
                                   ELSE {"mldsa_pubkey", "classic_pubkey"})

\* The traditional half, and then what both halves were built for.
BuildClassic ==
    /\ call # Idle /\ call.pc = "classic"
    /\ \E pair \in ClassicPairs :
          LET k == call.key
              c == [pair |-> pair, private |-> call.mldsa.private]
          IN
          /\ IF Generating THEN Fresh(pair)
                           ELSE pair = call.params[call.side].classic
          /\ slots' = [slots EXCEPT ![k] = Installed(@, call.mldsa, c)]
          /\ pkeys' = pkeys + 1 - Cardinality(Replaced(slots[k]))
          /\ minted' = IF Generating
                       THEN minted \union {[mldsa |-> call.mldsa.pair, classic |-> pair]}
                       ELSE minted
    /\ call' = CASE call.name = "import" /\ call.side = "pub" /\ call.priv ->
                      [call EXCEPT !.pc = "mldsa", !.side = "priv", !.mldsa = NULL]
                 [] call.name = "pki" -> [call EXCEPT !.pc = "derive", !.mldsa = NULL]
                 [] OTHER -> Idle
    /\ UNCHANGED <<live, wire>>

\* composite_pki_decode copies the private objects into the public slots.
Derive ==
    /\ call # Idle /\ call.pc = "derive"
    /\ slots' = [slots EXCEPT
                    ![call.key].mldsa_pubkey = slots[call.key].mldsa_privkey,
                    ![call.key].classic_pubkey = slots[call.key].classic_privkey]
    /\ pkeys' = pkeys + 2
    /\ call' = Idle
    /\ UNCHANGED <<live, wire, minted>>

\* Variant: the ML-DSA half is not freed when the traditional half fails.
PendingForgotten == 0

\* Variant: it is freed by the builder and again by its caller.
PendingTwice == IF call.mldsa # NULL THEN 2 ELSE 0

\* The component that the error path of a failed second build frees.
Pending == IF call.mldsa # NULL THEN 1 ELSE 0

\* A component cannot be built.  Every caller but a direct
\* composite_signkey_generate then frees the key it had allocated.
Fail ==
    /\ call # Idle
    /\ IF call.name = "generate"
       THEN /\ pkeys' = pkeys - Pending
            /\ UNCHANGED <<live, slots>>
       ELSE /\ pkeys' = pkeys - Pending - Cardinality(Filled(slots[call.key]))
            /\ live' = live \ {call.key}
            /\ slots' = [slots EXCEPT ![call.key] = EmptyKey]
    /\ call' = Idle
    /\ UNCHANGED <<wire, minted>>

\* composite_dup_key: has_private is copied whatever is selected.
Dup(j, k, sel) ==
    LET src  == slots[j]
        pub  == "PUBLIC_KEY" \in sel
        priv == "PRIVATE_KEY" \in sel /\ src.has_private
        dst  == [mldsa_pubkey    |-> IF pub THEN src.mldsa_pubkey ELSE NULL,
                 mldsa_privkey   |-> IF priv THEN src.mldsa_privkey ELSE NULL,
                 classic_pubkey  |-> IF pub THEN src.classic_pubkey ELSE NULL,
                 classic_privkey |-> IF priv THEN src.classic_privkey ELSE NULL,
                 has_private     |-> src.has_private]
    IN
    /\ call = Idle /\ j \in live /\ k \notin live
    /\ live' = live \union {k}
    /\ slots' = [slots EXCEPT ![k] = dst]
    /\ pkeys' = pkeys + Cardinality(Filled(dst))
    /\ UNCHANGED <<call, wire, minted>>

\* Variant: a private export does not ask has_private.
CanEncodePrivateUnflagged(s) ==
    \A half \in {SignWith(s).mldsa, SignWith(s).classic} :
        half # NULL /\ half.private

\* composite_sig_pubkey_encode and composite_sig_privkey_encode.
CanEncodePublic(s) == s.mldsa_pubkey # NULL /\ s.classic_pubkey # NULL
CanEncodePrivate(s) ==
    /\ s.has_private
    /\ \A half \in {SignWith(s).mldsa, SignWith(s).classic} :
          half # NULL /\ half.private

Exported(s, sel) ==
    IF "PUBLIC_KEY" \in sel
    THEN [pub |-> CompositeOf(VerifyWith(s)), priv |-> None]
    ELSE [pub |-> None, priv |-> CompositeOf(SignWith(s))]

\* composite_key_export: the callback gets the public half when that is asked
\* for and the private half otherwise: a key pair is exported without its
\* private half.
Export(k, sel) ==
    /\ call = Idle /\ k \in live /\ sel # {}
    /\ IF "PUBLIC_KEY" \in sel THEN CanEncodePublic(slots[k])
                               ELSE CanEncodePrivate(slots[k])
    /\ wire' = Exported(slots[k], sel)
    /\ UNCHANGED <<live, slots, call, pkeys, minted>>

Next ==
    \/ \E k \in Keys :
          \/ New(k)
          \/ Free(k)
          \/ GenBegin(k)
          \/ GenerateBegin(k)
          \/ \E sel \in Selections, p \in Foreign \union {wire} : ImportBegin(k, sel, p)
          \/ \E name \in {"spki", "pki"}, p \in Foreign \union {wire} :
                DecodeBegin(k, name, p)
          \/ \E j \in Keys, sel \in DupSelections : Dup(j, k, sel)
          \/ \E sel \in Selections : Export(k, sel)
    \/ BuildMldsa
    \/ BuildClassic
    \/ Derive
    \/ Fail

Spec == Init /\ [][Next]_vars

-----------------------------------------------------------------------------
(* Correctness.                                                            *)

\* The EVP_PKEY allocated are exactly those the slots own and the one half a
\* call has built so far: whichever component fails in whichever call, nothing
\* leaks and nothing is freed twice (composite_sig_key.c:88-103,
\* composite_sig_encoding.c:109, 215 and the callers that free the key).
Ownership ==
    pkeys = Cardinality({at \in Keys \X SlotNames : slots[at[1]][at[2]] # NULL})
            + (IF call # Idle /\ call.mldsa # NULL THEN 1 ELSE 0)

ForeignComposites == {p.pub : p \in Foreign} \union {p.priv : p \in Foreign}
Legit == minted \union (ForeignComposites \ {None})

\* The two public slots, and the two private slots, are filled and emptied
\* together and always hold one composite that was generated or arrived as
\* one; what a key signs with is what it verifies with, unless it was imported
\* from parameters that disagree, which nobody compares
\* (composite_sig_encoding.c:445); and an export never hands out a pairing
\* nobody made (composite_sig_encoding.c:82-84, 173-175: a blob is split and
\* both components are installed).
HalvesTogether ==
    /\ \A k \in Keys :
          LET s == slots[k]
              pub == VerifyWith(s)
              priv == [mldsa |-> s.mldsa_privkey, classic |-> s.classic_privkey]
          IN
          /\ \A halves \in {pub, priv} :
                /\ (halves.mldsa = NULL) <=> (halves.classic = NULL)
                /\ halves.mldsa # NULL => CompositeOf(halves) \in Legit
          /\ pub.mldsa # NULL /\ priv.mldsa # NULL =>
                \/ CompositeOf(pub) = CompositeOf(priv)
                \/ [pub |-> CompositeOf(pub), priv |-> CompositeOf(priv)] \in Foreign
    /\ {wire.pub, wire.priv} \subseteq Legit \union {None}

\* A key that says it has private material can sign with both components.
\* composite_sig_key.h:107: "1 if private key material is present, 0 if public
\* only"; composite_has answers PRIVATE_KEY from the flag alone.
PrivateIsUsable ==
    \A k \in Keys :
        composite_has(k, {"PRIVATE_KEY"}) =>
            \A half \in {SignWith(slots[k]).mldsa, SignWith(slots[k]).classic} :
                half # NULL /\ half.private

-----------------------------------------------------------------------------
(* Refinement.                                                             *)

\* What the slots amount to: the private half is where signing looks for it,
\* if the key says that it has one and what is found there can sign.
Halves(s) ==
    LET sign == SignWith(s)
    IN  [pub  |-> IF s.mldsa_pubkey = NULL THEN None ELSE CompositeOf(VerifyWith(s)),
         priv |-> IF s.has_private /\ sign.mldsa # NULL /\ sign.mldsa.private
                  THEN CompositeOf(sign) ELSE None]

\* A key that a call is at work on shows nothing yet.
Held(k) ==
    IF k \notin live THEN NULL
    ELSE IF call # Idle /\ call.key = k THEN NoParams
    ELSE Halves(slots[k])

Store == INSTANCE SignatureKeyStore
            WITH Imported <- ForeignComposites \ {None},
                 Offered <- Foreign,
                 Absent <- NULL,
                 store <- [k \in Keys |-> Held(k)]

\* Seen through what a key holds, generation, import, decoding, duplication and
\* export are one step each: whichever component fails, a key shows nothing of it
\* in between, and in the end whole halves of what was offered or nothing (which
\* halves is for PrivateIsUsable to say), and an export hands out a half that the
\* key holds (composite_sig_key.c:88-103, composite_sig_encoding.c:82,
\* 173, 403-425, composite_keys.c:237-275).
ImplementsStore == Store!SignatureStoreSpec

=============================================================================
