------------------------------- MODULE KemKey -------------------------------
(***************************************************************************)
(* COMPOSITE_KEM_KEY objects and the EVP_PKEY component objects they own:  *)
(* kem/composite_kem_key.c and kem/composite_kem_keymgmt.c.                *)
(*                                                                         *)
(* A composite KEM key has four slots, an ML-KEM and a traditional         *)
(* component in a public and a private one.  A private-capable component   *)
(* sits in both slots of its half, so its EVP_PKEY carries two references. *)
(* Generation and import build the two components one after the other by   *)
(* calls that may each fail, and only then replace what the key held.      *)
(*                                                                         *)
(* Operations on different keys run concurrently (they share the EVP_PKEY  *)
(* pool and nothing else); a key is used by one operation at a time.  The  *)
(* steps of an operation are its calls that may fail; what lies between    *)
(* two of them happens in one step.                                        *)
(***************************************************************************)
EXTENDS Integers

CONSTANTS
    Keys,          \* COMPOSITE_KEM_KEY allocations
    Objects,       \* EVP_PKEY allocations
    MlkemPairs,    \* ML-KEM key pairs that EVP_PKEY_generate may draw
    ClassicPairs,  \* traditional key pairs that EVP_PKEY_generate may draw
    Foreign,       \* key parameters made by another implementation
    NULL,          \* the null pointer
    None           \* no key pair, no parameter

Composites == [mlkem : MlkemPairs, classic : ClassicPairs]
MaybeComposite == Composites \union {None}

\* OSSL_PARAM "pub" and "priv" as kem_import and kem_export know them.
Params == [pub : MaybeComposite, priv : MaybeComposite]
NoParams == [pub |-> None, priv |-> None]

ASSUME NullAssumption ==
    /\ NULL \notin Objects \union Params
    /\ None \notin Composites
    /\ None \notin MlkemPairs
    /\ None \notin ClassicPairs
ASSUME ForeignAssumption == Foreign \subseteq Params

VARIABLES
    live,    \* keys allocated and not freed
    slots,   \* the component slots and has_private of each key
    refs,    \* the references taken on each EVP_PKEY, 0 when not allocated
    missed,  \* those of which an import holds one less than it believes
    content, \* what each EVP_PKEY holds
    op,      \* the operation each key is undergoing
    wire,    \* parameters most recently handed to an export callback
    minted   \* composites put together by composite_kemkey_generate so far

vars == <<live, slots, refs, missed, content, op, wire, minted>>

-----------------------------------------------------------------------------
(* Keys, components and the references between them.                      *)

Pointers == Objects \union {NULL}

Slots == [mlkem_pubkey : Pointers, mlkem_privkey : Pointers,
          classic_pubkey : Pointers, classic_privkey : Pointers,
          has_private : BOOLEAN]

\* composite_kemkey_new: memset 0.
EmptyKey == [mlkem_pubkey |-> NULL, mlkem_privkey |-> NULL,
             classic_pubkey |-> NULL, classic_privkey |-> NULL,
             has_private |-> FALSE]

\* A filled key: a private component is stored twice, under two references.
KeyOf(m, c, private) ==
    [mlkem_pubkey |-> m, mlkem_privkey |-> IF private THEN m ELSE NULL,
     classic_pubkey |-> c, classic_privkey |-> IF private THEN c ELSE NULL,
     has_private |-> private]

Contents == [pair : MlkemPairs \union ClassicPairs \union {None},
             private : BOOLEAN]
NoContent == [pair |-> None, private |-> FALSE]

Selections == SUBSET {"PUBLIC_KEY", "PRIVATE_KEY"}

\* "gen" is the keymgmt entry, which allocates the key and frees it again when
\* generation fails; "regen" is composite_kemkey_generate on an existing key.
Kinds == {"none", "gen", "regen", "import_private", "import_public"}

Ops == [pc : {"idle", "mlkem", "classic", "ref_mlkem", "ref_classic"},
        kind : Kinds, sel : Selections, params : Params,
        mlkem : Pointers, classic : Pointers]

Idle == [pc |-> "idle", kind |-> "none", sel |-> {}, params |-> NoParams,
         mlkem |-> NULL, classic |-> NULL]

Count(b) == IF b THEN 1 ELSE 0

\* References the slots of s hold on o: what freeing the slots gives up.
SlotRefs(s, o) ==
    Count(s.mlkem_pubkey = o) + Count(s.mlkem_privkey = o)
    + Count(s.classic_pubkey = o) + Count(s.classic_privkey = o)

\* An EVP_PKEY whose last reference goes is deallocated.
ContentAfter(newRefs) ==
    [o \in Objects |-> IF newRefs[o] = 0 THEN NoContent ELSE content[o]]

KeyTypes ==
    /\ live \subseteq Keys
    /\ slots \in [Keys -> Slots]
    /\ refs \in [Objects -> Nat]
    /\ content \in [Objects -> Contents]
    /\ op \in [Keys -> Ops]
    /\ wire \in Params
    /\ minted \subseteq Composites

TypeOK == KeyTypes /\ missed \subseteq Objects

Init ==
    /\ live = {}
    /\ slots = [k \in Keys |-> EmptyKey]
    /\ refs = [o \in Objects |-> 0] /\ missed = {}
    /\ content = [o \in Objects |-> NoContent]
    /\ op = [k \in Keys |-> Idle]
    /\ wire = NoParams
    /\ minted = {}

-----------------------------------------------------------------------------
(* Accessors and queries.                                                  *)

\* The private accessors fall back to the public slot.
get0_mlkem_private(k) ==
    IF slots[k].mlkem_privkey # NULL THEN slots[k].mlkem_privkey
                                     ELSE slots[k].mlkem_pubkey
get0_classic_private(k) ==
    IF slots[k].classic_privkey # NULL THEN slots[k].classic_privkey
                                       ELSE slots[k].classic_pubkey

kem_has(k, sel) ==
    /\ "PUBLIC_KEY" \in sel => /\ slots[k].mlkem_pubkey # NULL
                               /\ slots[k].classic_pubkey # NULL
    /\ "PRIVATE_KEY" \in sel => slots[k].has_private

CompositeOf(m, c) ==
    [mlkem |-> content[m].pair, classic |-> content[c].pair]

-----------------------------------------------------------------------------
(* Life of a key.                                                          *)

\* KEM_KEYMGMT new: kem_key_new.
New(k) ==
    /\ k \notin live
    /\ live' = live \union {k}
    /\ UNCHANGED <<slots, refs, content, op, wire, minted>>

\* composite_kemkey_free: every slot gives up its reference.
Free(k) ==
    /\ k \in live /\ op[k] = Idle
    /\ live' = live \ {k}
    /\ slots' = [slots EXCEPT ![k] = EmptyKey]
    /\ refs' = [o \in Objects |-> refs[o] - SlotRefs(slots[k], o)]
    /\ content' = ContentAfter(refs')
    /\ UNCHANGED <<op, wire, minted>>

\* KEM_KEYMGMT gen: allocate the key, then composite_kemkey_generate.
GenBegin(k) ==
    /\ k \notin live
    /\ live' = live \union {k}
    /\ op' = [op EXCEPT ![k].pc = "mlkem", ![k].kind = "gen"]
    /\ UNCHANGED <<slots, refs, content, wire, minted>>

\* composite_kemkey_generate called on a key that already exists.
RegenBegin(k) ==
    /\ k \in live /\ op[k] = Idle
    /\ op' = [op EXCEPT ![k].pc = "mlkem", ![k].kind = "regen"]
    /\ UNCHANGED <<live, slots, refs, content, wire, minted>>

\* Variant: the public parameter is looked for first.
ImportKindPublicFirst(sel, p) ==
    IF "PUBLIC_KEY" \in sel /\ p.pub # None THEN "import_public"
    ELSE IF "PRIVATE_KEY" \in sel /\ p.priv # None THEN "import_private"
    ELSE "none"

\* Which importer kem_import picks: the private one whenever the caller asked
\* for private material and supplied it.
ImportKind(sel, p) ==
    IF "PRIVATE_KEY" \in sel /\ p.priv # None THEN "import_private"
    ELSE IF "PUBLIC_KEY" \in sel /\ p.pub # None THEN "import_public"
    ELSE "none"

\* kem_import up to the point where the first component is built; a call with
\* nothing to import fails without touching the key.
ImportBegin(k, sel, p) ==
    /\ k \in live /\ op[k] = Idle
    /\ ImportKind(sel, p) # "none"
    /\ op' = [op EXCEPT ![k] = [pc |-> "mlkem", kind |-> ImportKind(sel, p),
                                sel |-> sel, params |-> p,
                                mlkem |-> NULL, classic |-> NULL]]
    /\ UNCHANGED <<live, slots, refs, content, wire, minted>>

Generating(k) == op[k].kind \in {"gen", "regen"}

\* The serialization an import reads.
Source(k) == IF op[k].kind = "import_private" THEN op[k].params.priv
                                              ELSE op[k].params.pub

\* EVP_PKEY_generate never returns a pair that somebody already has.
Fresh(pair) ==
    /\ \A o \in Objects : content[o].pair # pair
    /\ \A c \in minted : pair \notin {c.mlkem, c.classic}

Allocate(o, pair, private) ==
    /\ refs[o] = 0
    /\ refs' = [refs EXCEPT ![o] = 1]
    /\ content' = [content EXCEPT ![o] = [pair |-> pair, private |-> private]]

\* The ML-KEM component: EVP_PKEY_generate, kk_mlkem_priv_from_seed or
\* kk_mlkem_pub_from_raw returns a new object.
BuildMlkem(k) ==
    /\ op[k].pc = "mlkem"
    /\ \E o \in Objects, pair \in MlkemPairs :
          /\ IF Generating(k) THEN Fresh(pair) ELSE pair = Source(k).mlkem
          /\ Allocate(o, pair, op[k].kind # "import_public")
          /\ op' = [op EXCEPT ![k].pc = "classic", ![k].mlkem = o]
    /\ UNCHANGED <<live, slots, wire, minted>>

\* Variant: a public import does not reset has_private.
InstallKeepsFlag(k, m, c, private) ==
    /\ slots' = [slots EXCEPT ![k] = [KeyOf(m, c, private) EXCEPT
                    !.has_private = private \/ slots[k].has_private]]
    /\ op' = [op EXCEPT ![k] = Idle]

\* Variant: a traditional component already in place is kept.
InstallKeepsClassic(k, m, c, private) ==
    LET t == IF slots[k].classic_pubkey = NULL THEN c ELSE slots[k].classic_pubkey
    IN
    /\ slots' = [slots EXCEPT ![k] = KeyOf(m, t, private)]
    /\ op' = [op EXCEPT ![k] = Idle]

\* The two components move in; the callers account for the references.
Install(k, m, c, private) ==
    /\ slots' = [slots EXCEPT ![k] = KeyOf(m, c, private)]
    /\ op' = [op EXCEPT ![k] = Idle]

\* The traditional component of a generation.
GenerateClassic(k) ==
    /\ op[k].pc = "classic" /\ Generating(k)
    /\ \E o \in Objects, pair \in ClassicPairs :
          /\ Fresh(pair)
          /\ Allocate(o, pair, TRUE)
          /\ op' = [op EXCEPT ![k].pc = "ref_mlkem", ![k].classic = o]
    /\ UNCHANGED <<live, slots, wire, minted>>

\* First EVP_PKEY_up_ref of composite_kemkey_generate.
UpRefMlkem(k) ==
    /\ op[k].pc = "ref_mlkem"
    /\ refs' = [refs EXCEPT ![op[k].mlkem] = @ + 1]
    /\ op' = [op EXCEPT ![k].pc = "ref_classic"]
    /\ UNCHANGED <<live, slots, content, wire, minted>>

\* Second EVP_PKEY_up_ref, after which generation cannot fail any more.
UpRefClassic(k) ==
    /\ op[k].pc = "ref_classic"
    /\ refs' = [o \in Objects |-> (refs[o] + Count(o = op[k].classic))
                                  - SlotRefs(slots[k], o)]
    /\ content' = ContentAfter(refs')
    /\ Install(k, op[k].mlkem, op[k].classic, TRUE)
    /\ minted' = minted \union {CompositeOf(op[k].mlkem, op[k].classic)}
    /\ UNCHANGED <<live, wire>>

\* The traditional component of an import, and kk_replace_components.
ImportClassic(k) ==
    /\ op[k].pc = "classic" /\ ~ Generating(k)
    /\ \E c \in Objects, private \in BOOLEAN :
          /\ private <=> op[k].kind = "import_private"
          /\ refs[c] = 0
          /\ refs' = [o \in Objects |->
                (refs[o] + Count(o = c)
                 + (IF private THEN Count(o = c) + Count(o = op[k].mlkem) ELSE 0))
                - SlotRefs(slots[k], o)]
          /\ content' = [ContentAfter(refs') EXCEPT ![c] =
                [pair |-> Source(k).classic, private |-> private]]
          /\ Install(k, op[k].mlkem, c, private)
    /\ UNCHANGED <<live, wire, minted>>

\* kk_replace_components does not ask whether its up_refs succeeded: the import
\* of a private key goes on with two slots and one reference to a component.
ImportUnnoticed(k) ==
    /\ op[k].kind = "import_private" /\ ImportClassic(k)
    /\ missed' \in (SUBSET {slots'[k].mlkem_privkey, slots'[k].classic_privkey}) \ {{}}

\* Variant: the first up_ref is not undone when the second one fails.
ErrFreesNoUndo(k, o) ==
    Count(op[k].mlkem = o) + Count(op[k].classic = o)

\* Variant: the first up_ref is undone even when it is the one that failed.
ErrFreesTwice(k, o) ==
    Count(op[k].mlkem = o) + Count(op[k].classic = o)
    + Count(op[k].pc \in {"ref_mlkem", "ref_classic"} /\ op[k].mlkem = o)

\* References the error paths give up: label err (done for the imports) frees
\* both locals, and a failed second up_ref first undoes the first one.
ErrFrees(k, o) ==
    Count(op[k].mlkem = o) + Count(op[k].classic = o)
    + Count(op[k].pc = "ref_classic" /\ op[k].mlkem = o)

\* Variant: the old components are released before the new ones exist.
FailEmptiesKey(k) ==
    /\ op[k].pc # "idle"
    /\ refs' = [o \in Objects |-> refs[o] - ErrFrees(k, o) - SlotRefs(slots[k], o)]
    /\ content' = ContentAfter(refs')
    /\ slots' = [slots EXCEPT ![k] = EmptyKey]
    /\ op' = [op EXCEPT ![k] = Idle]
    /\ live' = IF op[k].kind = "gen" THEN live \ {k} ELSE live
    /\ UNCHANGED <<wire, minted>>

\* The call an operation is at fails.  The keymgmt entry also frees the key.
Fail(k) ==
    /\ op[k].pc # "idle"
    /\ refs' = [o \in Objects |-> refs[o] - ErrFrees(k, o)]
    /\ content' = ContentAfter(refs')
    /\ op' = [op EXCEPT ![k] = Idle]
    /\ live' = IF op[k].kind = "gen" THEN live \ {k} ELSE live
    /\ UNCHANGED <<slots, wire, minted>>

\* encode_private needs components that retain a private key.
CanEncodePrivate(k) ==
    /\ slots[k].has_private
    /\ get0_mlkem_private(k) # NULL /\ get0_classic_private(k) # NULL
    /\ content[get0_mlkem_private(k)].private
    /\ content[get0_classic_private(k)].private

\* kem_export: the public half is required when asked for, the private half is
\* left out when the key has none.
Export(k, sel) ==
    LET withPub  == "PUBLIC_KEY" \in sel
        withPriv == "PRIVATE_KEY" \in sel /\ slots[k].has_private
    IN
    /\ k \in live /\ op[k] = Idle
    /\ withPub \/ withPriv
    /\ withPub => kem_has(k, {"PUBLIC_KEY"})
    /\ withPriv => CanEncodePrivate(k)
    /\ wire' = [pub |-> IF withPub
                        THEN CompositeOf(slots[k].mlkem_pubkey,
                                         slots[k].classic_pubkey)
                        ELSE None,
                priv |-> IF withPriv
                         THEN CompositeOf(get0_mlkem_private(k),
                                          get0_classic_private(k))
                         ELSE None]
    /\ UNCHANGED <<live, slots, refs, content, op, minted>>

Counted(k) ==
    \/ New(k)
    \/ Free(k)
    \/ GenBegin(k)
    \/ RegenBegin(k)
    \/ \E sel \in Selections, p \in Foreign \union {wire} : ImportBegin(k, sel, p)
    \/ BuildMlkem(k)
    \/ GenerateClassic(k)
    \/ UpRefMlkem(k)
    \/ UpRefClassic(k)
    \/ ImportClassic(k)
    \/ Fail(k)
    \/ \E sel \in Selections : Export(k, sel)

\* What becomes of a component with a reference too few, which goes while a slot
\* still points to it, is not followed.
Next ==
    \/ /\ missed = {}
       /\ \E k \in Keys : (Counted(k) /\ UNCHANGED missed) \/ ImportUnnoticed(k)
    \/ missed # {} /\ UNCHANGED vars

Spec == Init /\ [][Next]_vars

-----------------------------------------------------------------------------
(* Correctness.                                                            *)

\* References operation p is entitled to.
PendingRefs(p, o) ==
    Count(p.mlkem = o) + Count(p.classic = o)
    + Count(p.pc = "ref_classic" /\ p.mlkem = o)

Owns(k, o) == SlotRefs(slots[k], o) + PendingRefs(op[k], o)

OneOwnerEach ==
    /\ \A k \in Keys, o \in Objects : Owns(k, o) > 0 => refs[o] = Owns(k, o)
    /\ \A j, k \in Keys, o \in Objects :
          Owns(j, o) > 0 /\ Owns(k, o) > 0 => j = k
    /\ \A o \in Objects : refs[o] > 0 => \E k \in Keys : Owns(k, o) > 0

\* Every component object belongs to exactly one key, or to the operation that
\* is building it, and its reference count is exactly the number of pointers
\* held there: nothing leaks, nothing is freed while a slot still points to it,
\* whichever call of a generation or an import fails, the two up_refs that nobody
\* looks at excepted (composite_kem_key.h:78-98 says the slots own their
\* references and a shared object is up_ref'd).
Ownership == missed = {} => OneOwnerEach

\* has_private never lies: a key that claims private material yields components
\* that can do private operations through the accessors, although these fall
\* back to the public slot, and they are the private halves of the public key
\* the same composite shows.
PrivateIsUsable ==
    \A k \in Keys :
        /\ slots[k].has_private =>
              /\ CanEncodePrivate(k)
              /\ kem_has(k, {"PUBLIC_KEY"})
              /\ CompositeOf(get0_mlkem_private(k), get0_classic_private(k))
                    = CompositeOf(slots[k].mlkem_pubkey, slots[k].classic_pubkey)
        /\ ~ slots[k].has_private =>
              \A o \in {get0_mlkem_private(k), get0_classic_private(k)} \ {NULL} :
                  ~ content[o].private

\* Composites put together by a generation here or by another implementation.
ForeignComposites == {p.pub : p \in Foreign} \union {p.priv : p \in Foreign}
Legit == minted \union (ForeignComposites \ {None})

\* No operation ever pairs an ML-KEM half with a traditional half it did not
\* arrive or come into being with, in a key or in what an export hands out
\* (composite_kem_keymgmt.c:145-153: a key assembled from separately supplied
\* halves could pair components the composite OID does not name).
NoMixing ==
    /\ \A k \in Keys :
          /\ (slots[k].mlkem_pubkey = NULL) <=> (slots[k].classic_pubkey = NULL)
          /\ slots[k].mlkem_pubkey # NULL =>
                CompositeOf(slots[k].mlkem_pubkey, slots[k].classic_pubkey)
                    \in Legit
    /\ wire.pub # None => wire.pub \in Legit
    /\ wire.priv # None => wire.priv \in Legit
    /\ wire.pub # None /\ wire.priv # None => wire.pub = wire.priv

\* An import that was asked for private material and given it never ends as a
\* public key (composite_kem_keymgmt.c:180-185: the other order "would let a
\* public-key import silently discard the private material").
PrivateNotDiscarded ==
    [][\A k \in Keys :
          (/\ op[k].kind \in {"import_private", "import_public"}
           /\ slots'[k] # slots[k])
          => /\ slots'[k].has_private
                   <=> ("PRIVATE_KEY" \in op[k].sel /\ op[k].params.priv # None)
      ]_vars

-----------------------------------------------------------------------------
(* Refinement.                                                             *)

Held(k) ==
    IF k \notin live THEN NULL
    ELSE IF slots[k].mlkem_pubkey = NULL THEN NoParams
    ELSE LET c == CompositeOf(slots[k].mlkem_pubkey, slots[k].classic_pubkey)
         IN  [pub |-> c, priv |-> IF slots[k].has_private THEN c ELSE None]

Store == INSTANCE CompositeKeyStore
            WITH Imported <- ForeignComposites \ {None},
                 Absent <- NULL,
                 store <- [k \in Keys |-> Held(k)]

\* Seen through the keys alone, generation, import, export and free behave as
\* if each were atomic and all-or-nothing.
ImplementsStore == Store!StoreSpec

=============================================================================
