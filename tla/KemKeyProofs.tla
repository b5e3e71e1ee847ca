---------------------------- MODULE KemKeyProofs ----------------------------
(***************************************************************************)
(* Proofs about KemKey, for any set of keys, objects and key pairs.        *)
(*                                                                         *)
(* Freeing a key subtracts references, so not even type correctness can be *)
(* shown without knowing who owns what; and which pairs meet in a key      *)
(* depends on what the objects it owns contain.  IInv puts these together. *)
(***************************************************************************)
EXTENDS KemKey, TLAPS

(* A key is empty or holds two different objects, each in both slots of    *)
(* its half exactly when the key is private.                               *)
SlotShape(s) ==
    \/ s = EmptyKey
    \/ \E m, c \in Objects, private \in BOOLEAN :
          m # c /\ s = KeyOf(m, c, private)

(* Which locals an operation holds is determined by where it is.           *)
OpShape(p) ==
    /\ p.pc = "idle" => p = Idle
    /\ p.pc = "mlkem" => p.mlkem = NULL /\ p.classic = NULL
    /\ p.pc = "classic" => p.mlkem \in Objects /\ p.classic = NULL
    /\ p.pc \in {"ref_mlkem", "ref_classic"} =>
          /\ p.mlkem \in Objects /\ p.classic \in Objects
          /\ p.mlkem # p.classic
          /\ p.kind \in {"gen", "regen"}
    /\ p.pc # "idle" => p.kind # "none"
    /\ p.kind = "import_private" => "PRIVATE_KEY" \in p.sel /\ p.params.priv # None
    /\ p.kind = "import_public" =>
          /\ p.params.pub # None
          /\ ~ ("PRIVATE_KEY" \in p.sel /\ p.params.priv # None)

(* A key that is not allocated holds nothing and undergoes nothing; a key  *)
(* that the keymgmt entry is generating is still empty.                    *)
LifeShape(k) ==
    /\ k \notin live => slots[k] = EmptyKey /\ op[k] = Idle
    /\ op[k].kind = "gen" => slots[k] = EmptyKey

Shape == \A k \in Keys : SlotShape(slots[k]) /\ OpShape(op[k]) /\ LifeShape(k)

(* What the components of a key are: private-capable exactly when the key  *)
(* says so, and paired as somebody legitimately paired them.               *)
KeyContent(k) ==
    slots[k].mlkem_pubkey # NULL =>
        /\ CompositeOf(slots[k].mlkem_pubkey, slots[k].classic_pubkey) \in Legit
        /\ content[slots[k].mlkem_pubkey].private = slots[k].has_private
        /\ content[slots[k].classic_pubkey].private = slots[k].has_private

(* What the locals of an operation are.  An import took both halves from   *)
(* one serialization, so its first component already belongs to it.        *)
OpContent(k) ==
    /\ op[k].params.pub # None => op[k].params.pub \in Legit
    /\ op[k].params.priv # None => op[k].params.priv \in Legit
    /\ op[k].mlkem # NULL =>
          /\ content[op[k].mlkem].pair \in MlkemPairs
          /\ content[op[k].mlkem].private <=> op[k].kind # "import_public"
          /\ ~ Generating(k) => content[op[k].mlkem].pair = Source(k).mlkem
    /\ op[k].classic # NULL =>
          /\ content[op[k].classic].pair \in ClassicPairs
          /\ content[op[k].classic].private

WireContent ==
    /\ wire.pub # None => wire.pub \in Legit
    /\ wire.priv # None => wire.priv \in Legit
    /\ wire.pub # None /\ wire.priv # None => wire.pub = wire.priv

Meaning == WireContent /\ \A k \in Keys : KeyContent(k) /\ OpContent(k)

IInv == KeyTypes /\ Shape /\ OneOwnerEach /\ Meaning

-----------------------------------------------------------------------------
(* Counting references.                                                    *)

LEMMA SlotRefsType == \A s, o : SlotRefs(s, o) \in Nat
BY DEF SlotRefs, Count

LEMMA PendingRefsType == \A p, o : PendingRefs(p, o) \in Nat
BY DEF PendingRefs, Count

LEMMA NothingOwned ==
    ASSUME NEW o \in Objects
    PROVE  SlotRefs(EmptyKey, o) = 0 /\ PendingRefs(Idle, o) = 0
BY NullAssumption DEF SlotRefs, PendingRefs, EmptyKey, Idle, Count

LEMMA FilledRefs ==
    ASSUME NEW m \in Objects, NEW c \in Objects, NEW o \in Objects, NEW s,
           s.mlkem_pubkey = m, s.classic_pubkey = c
    PROVE  /\ s.mlkem_privkey = m /\ s.classic_privkey = c
                => SlotRefs(s, o) = Count(o = c) + Count(o = c)
                                    + Count(o = m) + Count(o = m)
           /\ s.mlkem_privkey = NULL /\ s.classic_privkey = NULL
                => SlotRefs(s, o) = Count(o = c) + Count(o = m)
BY NullAssumption DEF SlotRefs, Count

(* The accounting argument.  If a step of the operation on k changes every *)
(* reference count by exactly what k gains or loses, and k only takes hold *)
(* of objects it owned already or that nobody had allocated, then every    *)
(* object still has one owner and an exact count.                          *)
LEMMA OwnershipStep ==
    ASSUME IInv, NEW k \in Keys,
           \A j \in Keys \ {k} : slots'[j] = slots[j] /\ op'[j] = op[j],
           refs' \in [Objects -> Int],
           \A o \in Objects : refs'[o] = refs[o] - Owns(k, o) + Owns(k, o)',
           \A o \in Objects : Owns(k, o)' > 0 => Owns(k, o) > 0 \/ refs[o] = 0
    PROVE  OneOwnerEach' /\ refs' \in [Objects -> Nat]
<1>1. \A j \in Keys, o \in Objects : Owns(j, o) \in Nat /\ Owns(j, o)' \in Nat
  BY SlotRefsType, PendingRefsType DEF Owns
<1>2. \A j \in Keys \ {k}, o \in Objects : Owns(j, o)' = Owns(j, o)
  BY DEF Owns
<1>3. refs \in [Objects -> Nat] /\ OneOwnerEach
  BY DEF IInv, KeyTypes
<1>4. \A o \in Objects : refs'[o] \in Nat
  BY <1>1, <1>3 DEF OneOwnerEach
<1>5. refs' \in [Objects -> Nat]
  BY <1>4
<1>6. ASSUME NEW j \in Keys, NEW o \in Objects, Owns(j, o)' > 0
      PROVE  refs'[o] = Owns(j, o)'
  BY <1>1, <1>2, <1>3, <1>6 DEF OneOwnerEach
<1>7. ASSUME NEW i \in Keys, NEW j \in Keys, NEW o \in Objects,
             Owns(i, o)' > 0, Owns(j, o)' > 0
      PROVE  i = j
  BY <1>1, <1>2, <1>3, <1>7 DEF OneOwnerEach
<1>8. ASSUME NEW o \in Objects, refs'[o] > 0
      PROVE  \E j \in Keys : Owns(j, o)' > 0
  <2>1. CASE Owns(k, o)' > 0
    BY <2>1
  <2>2. CASE Owns(k, o)' = 0
    <3>1. refs[o] > 0 /\ ~ (Owns(k, o) > 0)
      BY <1>1, <1>3, <1>8, <2>2 DEF OneOwnerEach
    <3>2. PICK j \in Keys : Owns(j, o) > 0
      BY <1>3, <3>1 DEF OneOwnerEach
    <3>3. QED
      BY <1>2, <3>1, <3>2
  <2>3. QED
    BY <1>1, <2>1, <2>2
<1>9. QED
  BY <1>5, <1>6, <1>7, <1>8 DEF OneOwnerEach

LEMMA FilledKey ==
    ASSUME NEW s, SlotShape(s), s.mlkem_pubkey # NULL
    PROVE  /\ s.mlkem_pubkey \in Objects /\ s.classic_pubkey \in Objects
           /\ s.mlkem_pubkey # s.classic_pubkey
           /\ s.has_private \in BOOLEAN
           /\ s = KeyOf(s.mlkem_pubkey, s.classic_pubkey, s.has_private)
<1>1. PICK m, c \in Objects, private \in BOOLEAN :
         m # c /\ s = KeyOf(m, c, private)
  BY DEF SlotShape, EmptyKey
<1>2. /\ s.mlkem_pubkey = m /\ s.classic_pubkey = c
      /\ s.has_private = private
  BY <1>1 DEF KeyOf
<1>3. QED
  BY <1>1, <1>2

(* What a key or an operation points to is allocated.                      *)
LEMMA HeldIsAllocated ==
    ASSUME IInv, NEW k \in Keys
    PROVE  /\ slots[k].mlkem_pubkey # NULL =>
                 refs[slots[k].mlkem_pubkey] > 0 /\ refs[slots[k].classic_pubkey] > 0
           /\ op[k].mlkem # NULL => op[k].mlkem \in Objects /\ refs[op[k].mlkem] > 0
           /\ op[k].classic # NULL =>
                 op[k].classic \in Objects /\ refs[op[k].classic] > 0
<1>1. \A o \in Objects : Owns(k, o) > 0 => refs[o] > 0
  BY DEF IInv, OneOwnerEach
<1>2. op[k].mlkem \in Pointers /\ op[k].classic \in Pointers
  BY DEF IInv, KeyTypes, Ops
<1>3. ASSUME slots[k].mlkem_pubkey # NULL
      PROVE  refs[slots[k].mlkem_pubkey] > 0 /\ refs[slots[k].classic_pubkey] > 0
  <2>1. slots[k].mlkem_pubkey \in Objects /\ slots[k].classic_pubkey \in Objects
    BY <1>3, FilledKey DEF IInv, Shape
  <2>2. QED
    BY <1>1, <2>1, PendingRefsType DEF Owns, SlotRefs, Count
<1>4. QED
  BY <1>1, <1>2, <1>3, SlotRefsType DEF Owns, PendingRefs, Count, Pointers

LEMMA LegitType == IInv => Legit \subseteq Composites
BY ForeignAssumption
DEF IInv, KeyTypes, Legit, ForeignComposites, Params, MaybeComposite

(* An object that is allocated before and after a step of the operation on *)
(* k keeps its content, so whatever the other keys hold keeps its meaning. *)
LEMMA MeaningStep ==
    ASSUME IInv, NEW k \in Keys,
           \A j \in Keys \ {k} : slots'[j] = slots[j] /\ op'[j] = op[j],
           OneOwnerEach', Shape', minted \subseteq minted',
           \A o \in Objects : refs[o] > 0 /\ refs'[o] > 0
                                => content'[o] = content[o],
           KeyContent(k)', OpContent(k)', WireContent'
    PROVE  Meaning'
<1>1. \A c \in Legit : c \in Legit'
  BY DEF Legit
<1>2. ASSUME NEW j \in Keys \ {k}, NEW o \in Objects, Owns(j, o) > 0
      PROVE  content'[o] = content[o]
  <2>1. refs[o] > 0 /\ Owns(j, o)' = Owns(j, o)
    BY <1>2 DEF IInv, OneOwnerEach, Owns
  <2>2. refs'[o] > 0
    BY <1>2, <2>1 DEF OneOwnerEach
  <2>3. QED
    BY <2>1, <2>2
<1>3. ASSUME NEW j \in Keys \ {k} PROVE KeyContent(j)'
  <2>1. SUFFICES ASSUME slots[j].mlkem_pubkey # NULL
                 PROVE  KeyContent(j)'
    BY DEF KeyContent
  <2>2. slots[j].mlkem_pubkey \in Objects /\ slots[j].classic_pubkey \in Objects
    BY <2>1, FilledKey DEF IInv, Shape
  <2>3. /\ Owns(j, slots[j].mlkem_pubkey) > 0
        /\ Owns(j, slots[j].classic_pubkey) > 0
    BY PendingRefsType DEF Owns, SlotRefs, Count
  <2>4. /\ content'[slots[j].mlkem_pubkey] = content[slots[j].mlkem_pubkey]
        /\ content'[slots[j].classic_pubkey] = content[slots[j].classic_pubkey]
    BY <1>2, <2>2, <2>3
  <2>5. QED
    BY <1>1, <2>1, <2>4 DEF IInv, Meaning, KeyContent, CompositeOf
<1>4. ASSUME NEW j \in Keys \ {k} PROVE OpContent(j)'
  <2>1. op[j].mlkem \in Pointers /\ op[j].classic \in Pointers
    BY DEF IInv, KeyTypes, Ops
  <2>2. /\ op[j].mlkem # NULL =>
              content'[op[j].mlkem] = content[op[j].mlkem]
        /\ op[j].classic # NULL =>
              content'[op[j].classic] = content[op[j].classic]
    BY <1>2, <2>1, SlotRefsType DEF Owns, PendingRefs, Count, Pointers
  <2>3. QED
    BY <1>1, <2>2 DEF IInv, Meaning, OpContent, Generating, Source
<1>5. QED
  BY <1>3, <1>4 DEF Meaning

-----------------------------------------------------------------------------
(* The initial state and every step preserve IInv.                       *)

LEMMA IInvInit == Init => IInv
<1> SUFFICES ASSUME Init PROVE IInv
  OBVIOUS
<1>1. KeyTypes
  BY NullAssumption
  DEF Init, KeyTypes, EmptyKey, Slots, Pointers, NoContent, Contents, Idle, Ops,
      Kinds, Selections, NoParams, Params, MaybeComposite
<1>2. Shape
  BY DEF Init, Shape, SlotShape, OpShape, LifeShape, Idle
<1>3. OneOwnerEach
  BY NothingOwned DEF Init, OneOwnerEach, Owns
<1>4. Meaning
  BY DEF Init, Meaning, WireContent, KeyContent, OpContent, EmptyKey, Idle, NoParams
<1>5. QED
  BY <1>1, <1>2, <1>3, <1>4 DEF IInv

LEMMA NewIInv ==
    ASSUME IInv, NEW k \in Keys, New(k)
    PROVE  IInv'
<1>1. KeyTypes'
  BY DEF IInv, KeyTypes, New
<1>2. Shape'
  BY DEF IInv, Shape, LifeShape, New
<1>3. OneOwnerEach'
  BY DEF IInv, OneOwnerEach, Owns, New
<1>4. Meaning'
  BY DEF IInv, Meaning, WireContent, KeyContent, OpContent, Legit, Generating,
         Source, CompositeOf, New
<1>5. QED
  BY <1>1, <1>2, <1>3, <1>4 DEF IInv

LEMMA FreeIInv ==
    ASSUME IInv, NEW k \in Keys, Free(k)
    PROVE  IInv'
<1>1. /\ slots' = [slots EXCEPT ![k] = EmptyKey] /\ op' = op /\ op[k] = Idle
      /\ refs' = [o \in Objects |-> refs[o] - SlotRefs(slots[k], o)]
      /\ content' = ContentAfter(refs') /\ live' = live \ {k}
  BY DEF Free
<1>2. \A o \in Objects : Owns(k, o) = SlotRefs(slots[k], o) /\ Owns(k, o)' = 0
  BY <1>1, NothingOwned, SlotRefsType DEF Owns, IInv, KeyTypes
<1>3. /\ refs' \in [Objects -> Int]
      /\ \A o \in Objects : refs'[o] = refs[o] - Owns(k, o) + Owns(k, o)'
  BY <1>1, <1>2, SlotRefsType DEF IInv, KeyTypes
<1>4. OneOwnerEach' /\ refs' \in [Objects -> Nat]
  BY <1>1, <1>2, <1>3, OwnershipStep DEF IInv, KeyTypes
<1>5. KeyTypes'
  BY <1>1, <1>4, NullAssumption
  DEF IInv, KeyTypes, Free, ContentAfter, EmptyKey, Slots, Pointers, NoContent,
      Contents
<1>6. Shape'
  BY <1>1 DEF IInv, KeyTypes, Shape, SlotShape, LifeShape
<1>7. Meaning'
  <2>1. /\ \A j \in Keys \ {k} : slots'[j] = slots[j] /\ op'[j] = op[j]
        /\ slots'[k] = EmptyKey /\ op'[k] = Idle /\ minted' = minted /\ wire' = wire
    BY <1>1 DEF IInv, KeyTypes, Free
  <2>2. \A o \in Objects : refs'[o] > 0 => content'[o] = content[o]
    BY <1>1, <1>4 DEF ContentAfter
  <2>3. KeyContent(k)' /\ OpContent(k)'
    BY <2>1 DEF KeyContent, OpContent, EmptyKey, Idle, NoParams
  <2>4. WireContent'
    BY <2>1 DEF IInv, Meaning, WireContent, Legit
  <2>5. QED
    BY <1>4, <1>6, <2>1, <2>2, <2>3, <2>4, MeaningStep
<1>8. QED
  BY <1>4, <1>5, <1>6, <1>7 DEF IInv

LEMMA GenBeginIInv ==
    ASSUME IInv, NEW k \in Keys, GenBegin(k)
    PROVE  IInv'
<1>1. /\ op' = [op EXCEPT ![k].pc = "mlkem", ![k].kind = "gen"]
      /\ live' = live \union {k} /\ op[k] = Idle /\ slots[k] = EmptyKey
      /\ UNCHANGED <<slots, refs, content, wire, minted>>
  BY DEF GenBegin, IInv, Shape, LifeShape
<1>2. op'[k] = [Idle EXCEPT !.pc = "mlkem", !.kind = "gen"]
  BY <1>1 DEF IInv, KeyTypes
<1>3. KeyTypes'
  <2>1. op[k] \in Ops /\ Idle \in Ops
    BY <1>1 DEF IInv, KeyTypes
  <2>2. op'[k] \in Ops
    BY <1>2, <2>1 DEF Idle, Ops, Kinds
  <2>3. op' \in [Keys -> Ops]
    BY <1>1, <2>2 DEF IInv, KeyTypes
  <2>4. QED
    BY <1>1, <2>3 DEF IInv, KeyTypes
<1>4. Shape'
  BY <1>1, <1>2 DEF IInv, KeyTypes, Shape, OpShape, LifeShape, Idle
<1>5. \A j \in Keys, o \in Objects : Owns(j, o)' = Owns(j, o)
  BY <1>1, <1>2 DEF IInv, KeyTypes, Owns, PendingRefs, Idle
<1>6. OneOwnerEach'
  BY <1>1, <1>5 DEF IInv, OneOwnerEach
<1>7. Meaning'
  BY <1>1, <1>2
  DEF IInv, KeyTypes, Meaning, WireContent, KeyContent, OpContent, Legit, Generating,
      Source, CompositeOf, Idle, NoParams
<1>8. QED
  BY <1>3, <1>4, <1>6, <1>7 DEF IInv

LEMMA RegenBeginIInv ==
    ASSUME IInv, NEW k \in Keys, RegenBegin(k)
    PROVE  IInv'
<1>1. /\ op' = [op EXCEPT ![k].pc = "mlkem", ![k].kind = "regen"]
      /\ op[k] = Idle /\ k \in live
      /\ UNCHANGED <<live, slots, refs, content, wire, minted>>
  BY DEF RegenBegin
<1>2. op'[k] = [Idle EXCEPT !.pc = "mlkem", !.kind = "regen"]
  BY <1>1 DEF IInv, KeyTypes
<1>3. KeyTypes'
  <2>1. op[k] \in Ops /\ Idle \in Ops
    BY <1>1 DEF IInv, KeyTypes
  <2>2. op'[k] \in Ops
    BY <1>2, <2>1 DEF Idle, Ops, Kinds
  <2>3. op' \in [Keys -> Ops]
    BY <1>1, <2>2 DEF IInv, KeyTypes
  <2>4. QED
    BY <1>1, <2>3 DEF IInv, KeyTypes
<1>4. Shape'
  BY <1>1, <1>2 DEF IInv, KeyTypes, Shape, OpShape, LifeShape, Idle
<1>5. \A j \in Keys, o \in Objects : Owns(j, o)' = Owns(j, o)
  BY <1>1, <1>2 DEF IInv, KeyTypes, Owns, PendingRefs, Idle
<1>6. OneOwnerEach'
  BY <1>1, <1>5 DEF IInv, OneOwnerEach
<1>7. Meaning'
  BY <1>1, <1>2
  DEF IInv, KeyTypes, Meaning, WireContent, KeyContent, OpContent, Legit, Generating,
      Source, CompositeOf, Idle, NoParams
<1>8. QED
  BY <1>3, <1>4, <1>6, <1>7 DEF IInv

LEMMA ImportBeginIInv ==
    ASSUME IInv, NEW k \in Keys, NEW sel \in Selections,
           NEW p \in Foreign \union {wire}, ImportBegin(k, sel, p)
    PROVE  IInv'
<1> DEFINE q == [pc |-> "mlkem", kind |-> ImportKind(sel, p), sel |-> sel,
                 params |-> p, mlkem |-> NULL, classic |-> NULL]
<1>1. /\ op' = [op EXCEPT ![k] = q] /\ op[k] = Idle /\ k \in live
      /\ ImportKind(sel, p) # "none"
      /\ UNCHANGED <<live, slots, refs, content, wire, minted>>
  BY DEF ImportBegin
<1>2. op'[k] = q
  BY <1>1 DEF IInv, KeyTypes
<1>3. /\ ImportKind(sel, p) \in {"import_private", "import_public"}
      /\ ImportKind(sel, p) = "import_private" =>
            "PRIVATE_KEY" \in sel /\ p.priv # None
      /\ ImportKind(sel, p) = "import_public" =>
            p.pub # None /\ ~ ("PRIVATE_KEY" \in sel /\ p.priv # None)
  BY <1>1 DEF ImportKind
<1>4. KeyTypes'
  BY <1>1, <1>3, ForeignAssumption DEF IInv, KeyTypes, Ops, Kinds, Pointers
<1>5. Shape'
  <2>1. OpShape(q) /\ q.kind # "gen"
    BY <1>3 DEF OpShape
  <2>2. QED
    BY <1>1, <1>2, <2>1 DEF IInv, KeyTypes, Shape, LifeShape
<1>6. \A j \in Keys, o \in Objects : Owns(j, o)' = Owns(j, o)
  BY <1>1, <1>2 DEF IInv, KeyTypes, Owns, PendingRefs, Idle
<1>7. OneOwnerEach'
  BY <1>1, <1>6 DEF IInv, OneOwnerEach
<1>8. Meaning'
  <2>1. /\ p.pub # None => p.pub \in Legit
        /\ p.priv # None => p.priv \in Legit
    BY DEF IInv, Meaning, WireContent, Legit, ForeignComposites
  <2>2. OpContent(k)'
    BY <1>1, <1>2, <2>1 DEF OpContent, Legit
  <2>3. \A j \in Keys \ {k} : OpContent(j)'
    BY <1>1
    DEF IInv, KeyTypes, Meaning, OpContent, Legit, Generating, Source
  <2>4. WireContent' /\ \A j \in Keys : KeyContent(j)'
    BY <1>1 DEF IInv, Meaning, WireContent, KeyContent, Legit, CompositeOf
  <2>5. QED
    BY <2>2, <2>3, <2>4 DEF Meaning
<1>9. QED
  BY <1>4, <1>5, <1>7, <1>8 DEF IInv

(* A new object is referenced by one local of the operation that asked.    *)
LEMMA AllocateIInv ==
    ASSUME IInv, NEW k \in Keys, NEW o \in Objects,
           NEW v \in Contents, refs[o] = 0, refs' = [refs EXCEPT ![o] = 1],
           content' = [content EXCEPT ![o] = v], op' \in [Keys -> Ops],
           \A j \in Keys \ {k} : op'[j] = op[j],
           UNCHANGED <<live, slots, wire, minted>>,
           \A x \in Objects :
              PendingRefs(op'[k], x) = PendingRefs(op[k], x) + Count(x = o)
    PROVE  /\ KeyTypes' /\ OneOwnerEach'
           /\ \A x \in Objects : refs[x] > 0 => content'[x] = content[x]
           /\ content'[o] = v
           /\ KeyContent(k)' /\ WireContent'
<1>1. \A x \in Objects : Owns(k, x)' = Owns(k, x) + Count(x = o)
  BY SlotRefsType, PendingRefsType DEF Owns, Count
<1>2. \A x \in Objects : Owns(k, x) \in Nat
  BY SlotRefsType, PendingRefsType DEF Owns
<1>3. /\ refs' \in [Objects -> Int]
      /\ \A x \in Objects : refs'[x] = refs[x] - Owns(k, x) + Owns(k, x)'
  BY <1>1, <1>2 DEF IInv, KeyTypes, Count
<1>4. \A x \in Objects : Owns(k, x)' > 0 => Owns(k, x) > 0 \/ refs[x] = 0
  BY <1>1, <1>2 DEF Count
<1>5. OneOwnerEach' /\ refs' \in [Objects -> Nat]
  BY <1>3, <1>4, OwnershipStep
<1>6. KeyTypes'
  BY <1>5 DEF IInv, KeyTypes
<1>7. /\ \A x \in Objects : refs[x] > 0 => content'[x] = content[x]
      /\ content'[o] = v
  BY DEF IInv, KeyTypes
<1>8. KeyContent(k)'
  <2>1. SUFFICES ASSUME slots[k].mlkem_pubkey # NULL
                 PROVE  KeyContent(k)'
    BY DEF KeyContent
  <2>2. slots[k].mlkem_pubkey \in Objects /\ slots[k].classic_pubkey \in Objects
    BY <2>1, FilledKey DEF IInv, Shape
  <2>3. /\ content'[slots[k].mlkem_pubkey] = content[slots[k].mlkem_pubkey]
        /\ content'[slots[k].classic_pubkey] = content[slots[k].classic_pubkey]
    BY <1>7, <2>1, <2>2, HeldIsAllocated
  <2>4. QED
    BY <2>1, <2>3 DEF IInv, Meaning, KeyContent, CompositeOf, Legit
<1>9. WireContent'
  BY DEF IInv, Meaning, WireContent, Legit
<1>10. QED
  BY <1>5, <1>6, <1>7, <1>8, <1>9

LEMMA SourceType ==
    ASSUME IInv, NEW k \in Keys, op[k].pc # "idle", ~ Generating(k)
    PROVE  Source(k) \in Composites
BY DEF IInv, KeyTypes, Shape, OpShape, Source, Generating, Ops, Kinds, Params,
       MaybeComposite

LEMMA BuildMlkemIInv ==
    ASSUME IInv, NEW k \in Keys, BuildMlkem(k)
    PROVE  IInv'
<1>1. PICK o \in Objects, v \in Contents :
         /\ v.pair \in MlkemPairs
         /\ v.private <=> op[k].kind # "import_public"
         /\ ~ Generating(k) => v.pair = Source(k).mlkem
         /\ refs[o] = 0 /\ refs' = [refs EXCEPT ![o] = 1]
         /\ content' = [content EXCEPT ![o] = v]
         /\ op' = [op EXCEPT ![k].pc = "classic", ![k].mlkem = o]
  BY DEF BuildMlkem, Allocate, Contents
<1>2. /\ op[k].pc = "mlkem" /\ op[k].mlkem = NULL /\ op[k].classic = NULL
      /\ UNCHANGED <<live, slots, wire, minted>>
  BY DEF BuildMlkem, IInv, Shape, OpShape
<1>3. op'[k] = [op[k] EXCEPT !.pc = "classic", !.mlkem = o]
  BY <1>1 DEF IInv, KeyTypes
<1>4. op' \in [Keys -> Ops]
  <2>1. op'[k] \in Ops
    BY <1>3 DEF IInv, KeyTypes, Ops, Pointers
  <2>2. QED
    BY <1>1, <2>1 DEF IInv, KeyTypes
<1>5. \A x \in Objects :
         PendingRefs(op'[k], x) = PendingRefs(op[k], x) + Count(x = o)
  BY <1>2, <1>3, NullAssumption DEF IInv, KeyTypes, Ops, PendingRefs, Count
<1>6. /\ KeyTypes' /\ OneOwnerEach'
      /\ \A x \in Objects : refs[x] > 0 => content'[x] = content[x]
      /\ content'[o] = v
      /\ KeyContent(k)' /\ WireContent'
  <2>1. \A j \in Keys \ {k} : op'[j] = op[j]
    BY <1>1 DEF IInv, KeyTypes
  <2>2. QED
    BY <1>1, <1>2, <1>4, <1>5, <2>1, AllocateIInv
<1>7. Shape'
  <2>1. OpShape(op'[k]) /\ op'[k].kind = op[k].kind
    BY <1>2, <1>3 DEF IInv, KeyTypes, Ops, Shape, OpShape
  <2>2. k \in live
    BY <1>2 DEF IInv, Shape, LifeShape, Idle
  <2>3. QED
    BY <1>1, <1>2, <2>1, <2>2 DEF IInv, KeyTypes, Shape, LifeShape
<1>8. Meaning'
  <2>1. OpContent(k)'
    BY <1>1, <1>2, <1>3, <1>6, NullAssumption
    DEF IInv, KeyTypes, Ops, Meaning, OpContent, Generating, Source, Legit
  <2>2. QED
    BY <1>1, <1>2, <1>6, <1>7, <2>1, MeaningStep DEF IInv, KeyTypes
<1>9. QED
  BY <1>6, <1>7, <1>8 DEF IInv

LEMMA GenerateClassicIInv ==
    ASSUME IInv, NEW k \in Keys, GenerateClassic(k)
    PROVE  IInv'
<1>1. PICK o \in Objects, v \in Contents :
         /\ v.pair \in ClassicPairs /\ v.private = TRUE
         /\ refs[o] = 0 /\ refs' = [refs EXCEPT ![o] = 1]
         /\ content' = [content EXCEPT ![o] = v]
         /\ op' = [op EXCEPT ![k].pc = "ref_mlkem", ![k].classic = o]
  <2>1. PICK o \in Objects, pair \in ClassicPairs :
           /\ Allocate(o, pair, TRUE)
           /\ op' = [op EXCEPT ![k].pc = "ref_mlkem", ![k].classic = o]
    BY DEF GenerateClassic
  <2>2. [pair |-> pair, private |-> TRUE] \in Contents
    BY DEF Contents
  <2>3. QED
    BY <2>1, <2>2 DEF Allocate
<1>2. /\ op[k].pc = "classic" /\ op[k].mlkem \in Objects
      /\ op[k].classic = NULL /\ op[k].kind \in {"gen", "regen"}
      /\ UNCHANGED <<live, slots, wire, minted>>
  BY DEF GenerateClassic, Generating, IInv, Shape, OpShape
<1>3. op'[k] = [op[k] EXCEPT !.pc = "ref_mlkem", !.classic = o]
  BY <1>1 DEF IInv, KeyTypes
<1>4. op' \in [Keys -> Ops]
  <2>1. op'[k] \in Ops
    BY <1>3 DEF IInv, KeyTypes, Ops, Pointers
  <2>2. QED
    BY <1>1, <2>1 DEF IInv, KeyTypes
<1>5. \A x \in Objects :
         PendingRefs(op'[k], x) = PendingRefs(op[k], x) + Count(x = o)
  BY <1>2, <1>3, NullAssumption DEF IInv, KeyTypes, Ops, PendingRefs, Count
<1>6. /\ KeyTypes' /\ OneOwnerEach'
      /\ \A x \in Objects : refs[x] > 0 => content'[x] = content[x]
      /\ content'[o] = v
      /\ KeyContent(k)' /\ WireContent'
  <2>1. \A j \in Keys \ {k} : op'[j] = op[j]
    BY <1>1 DEF IInv, KeyTypes
  <2>2. QED
    BY <1>1, <1>2, <1>4, <1>5, <2>1, AllocateIInv
<1>7. /\ op[k].mlkem # o
      /\ content'[op[k].mlkem] = content[op[k].mlkem]
  <2>1. refs[op[k].mlkem] > 0
    BY <1>2, HeldIsAllocated, NullAssumption
  <2>2. QED
    BY <1>1, <1>2, <1>6, <2>1
<1>8. Shape'
  <2>1. OpShape(op'[k]) /\ op'[k].kind = op[k].kind
    BY <1>2, <1>3, <1>7 DEF IInv, KeyTypes, Ops, Shape, OpShape
  <2>2. k \in live
    BY <1>2 DEF IInv, Shape, LifeShape, Idle
  <2>3. QED
    BY <1>1, <1>2, <2>1, <2>2 DEF IInv, KeyTypes, Shape, LifeShape
<1>9. Meaning'
  <2>1. OpContent(k)'
    <3>1. /\ op'[k].params = op[k].params /\ op'[k].mlkem = op[k].mlkem
          /\ op'[k].classic = o /\ op'[k].kind = op[k].kind
      BY <1>3 DEF IInv, KeyTypes, Ops
    <3>2. Generating(k)' /\ minted' = minted
      BY <1>2, <3>1 DEF Generating
    <3>3. content'[o].pair \in ClassicPairs /\ content'[o].private
      BY <1>1, <1>6
    <3>4. QED
      BY <1>7, <3>1, <3>2, <3>3 DEF IInv, Meaning, OpContent, Legit
  <2>2. QED
    BY <1>1, <1>2, <1>6, <1>8, <2>1, MeaningStep DEF IInv, KeyTypes
<1>10. QED
  BY <1>6, <1>8, <1>9 DEF IInv

LEMMA UpRefMlkemIInv ==
    ASSUME IInv, NEW k \in Keys, UpRefMlkem(k)
    PROVE  IInv'
<1>1. /\ op[k].pc = "ref_mlkem" /\ op[k].mlkem \in Objects
      /\ refs' = [refs EXCEPT ![op[k].mlkem] = @ + 1]
      /\ op' = [op EXCEPT ![k].pc = "ref_classic"]
      /\ UNCHANGED <<live, slots, content, wire, minted>>
  BY DEF UpRefMlkem, IInv, Shape, OpShape
<1>2. op'[k] = [op[k] EXCEPT !.pc = "ref_classic"]
  BY <1>1 DEF IInv, KeyTypes
<1>3. \A x \in Objects : Owns(k, x)' = Owns(k, x) + Count(x = op[k].mlkem)
  <2>1. \A x \in Objects : PendingRefs(op'[k], x)
                              = PendingRefs(op[k], x) + Count(x = op[k].mlkem)
    BY <1>1, <1>2 DEF IInv, KeyTypes, Ops, PendingRefs, Count
  <2>2. QED
    BY <1>1, <2>1, SlotRefsType, PendingRefsType DEF Owns, Count
<1>4. \A x \in Objects : Owns(k, x) \in Nat
  BY SlotRefsType, PendingRefsType DEF Owns
<1>5. Owns(k, op[k].mlkem) > 0
  BY <1>1, SlotRefsType DEF Owns, PendingRefs, Count
<1>6. /\ refs' \in [Objects -> Int]
      /\ \A x \in Objects : refs'[x] = refs[x] - Owns(k, x) + Owns(k, x)'
  BY <1>1, <1>3, <1>4 DEF IInv, KeyTypes, Count
<1>7. \A x \in Objects : Owns(k, x)' > 0 => Owns(k, x) > 0 \/ refs[x] = 0
  BY <1>3, <1>4, <1>5 DEF Count
<1>8. OneOwnerEach' /\ refs' \in [Objects -> Nat]
  BY <1>1, <1>6, <1>7, OwnershipStep DEF IInv, KeyTypes
<1>9. KeyTypes'
  <2>1. op'[k] \in Ops
    BY <1>2 DEF IInv, KeyTypes, Ops
  <2>2. QED
    BY <1>1, <1>8, <2>1 DEF IInv, KeyTypes
<1>10. Shape'
  <2>1. OpShape(op'[k]) /\ op'[k].kind = op[k].kind
    BY <1>1, <1>2 DEF IInv, KeyTypes, Ops, Shape, OpShape
  <2>2. k \in live
    BY <1>1 DEF IInv, Shape, LifeShape, Idle
  <2>3. QED
    BY <1>1, <2>1, <2>2 DEF IInv, KeyTypes, Shape, LifeShape
<1>11. Meaning'
  <2>1. OpContent(k)'
    BY <1>1, <1>2 DEF IInv, KeyTypes, Ops, Meaning, OpContent, Generating, Source, Legit
  <2>2. KeyContent(k)' /\ WireContent'
    BY <1>1 DEF IInv, Meaning, KeyContent, WireContent, CompositeOf, Legit
  <2>3. QED
    BY <1>1, <1>8, <1>10, <2>1, <2>2, MeaningStep DEF IInv, KeyTypes
<1>12. QED
  BY <1>8, <1>9, <1>10, <1>11 DEF IInv

(* The state an installation leaves: k is idle and filled.                 *)
LEMMA InstallShape ==
    ASSUME IInv, NEW k \in Keys, op[k].pc # "idle",
           NEW m \in Objects, NEW c \in Objects, m # c, NEW private \in BOOLEAN,
           Install(k, m, c, private), live' = live
    PROVE  /\ Shape'
           /\ slots' \in [Keys -> Slots] /\ op' \in [Keys -> Ops]
           /\ slots'[k] = KeyOf(m, c, private) /\ op'[k] = Idle
           /\ \A j \in Keys \ {k} : slots'[j] = slots[j] /\ op'[j] = op[j]
<1>1. /\ slots' = [slots EXCEPT ![k] = KeyOf(m, c, private)]
      /\ op' = [op EXCEPT ![k] = Idle]
  BY DEF Install
<1>2. k \in live
  BY DEF IInv, Shape, LifeShape, Idle
<1>3. slots' \in [Keys -> Slots]
  BY <1>1 DEF IInv, KeyTypes, KeyOf, Slots, Pointers
<1>4. op' \in [Keys -> Ops]
  <2>1. Idle \in Ops
    BY DEF Idle, Ops, Kinds, Selections, NoParams, Params, MaybeComposite, Pointers
  <2>2. QED
    BY <1>1, <2>1 DEF IInv, KeyTypes
<1>5. \A j \in Keys \ {k} : slots'[j] = slots[j] /\ op'[j] = op[j]
  BY <1>1 DEF IInv, KeyTypes
<1>6. slots'[k] = KeyOf(m, c, private) /\ op'[k] = Idle
  BY <1>1 DEF IInv, KeyTypes
<1>7. SlotShape(slots'[k]) /\ OpShape(op'[k]) /\ op'[k].kind # "gen"
  BY <1>6 DEF SlotShape, OpShape, Idle
<1>8. Shape'
  BY <1>2, <1>5, <1>7 DEF IInv, Shape, LifeShape
<1>9. QED
  BY <1>3, <1>4, <1>5, <1>6, <1>8

(* Filling k with two objects whose pairs belong together.                 *)
LEMMA InstallMeaning ==
    ASSUME IInv, NEW k \in Keys, NEW m \in Objects, NEW c \in Objects,
           NEW private \in BOOLEAN,
           slots'[k] = KeyOf(m, c, private), op'[k] = Idle, wire' = wire,
           \A j \in Keys \ {k} : slots'[j] = slots[j] /\ op'[j] = op[j],
           OneOwnerEach', Shape', minted \subseteq minted',
           \A o \in Objects : refs[o] > 0 /\ refs'[o] > 0
                                => content'[o] = content[o],
           CompositeOf(m, c)' \in Legit',
           content'[m].private = private, content'[c].private = private
    PROVE  Meaning'
<1>1. KeyContent(k)'
  BY DEF KeyContent, KeyOf
<1>2. OpContent(k)'
  BY DEF OpContent, Idle, NoParams
<1>3. WireContent'
  BY DEF IInv, Meaning, WireContent, Legit
<1>4. QED
  BY <1>1, <1>2, <1>3, MeaningStep

LEMMA UpRefClassicIInv ==
    ASSUME IInv, NEW k \in Keys, UpRefClassic(k)
    PROVE  /\ IInv'
           /\ \E c \in Composites :
                 /\ minted' = minted \union {c}
                 /\ slots'[k].mlkem_pubkey # NULL /\ slots'[k].has_private
                 /\ CompositeOf(slots[k].mlkem_pubkey, slots[k].classic_pubkey)' = c
<1>1. PICK m \in Objects, c \in Objects :
      /\ op[k].pc = "ref_classic" /\ m = op[k].mlkem /\ c = op[k].classic /\ m # c
      /\ refs' = [o \in Objects |-> (refs[o] + Count(o = c))
                                     - SlotRefs(slots[k], o)]
      /\ content' = ContentAfter(refs')
      /\ Install(k, m, c, TRUE)
      /\ minted' = minted \union {CompositeOf(m, c)}
      /\ UNCHANGED <<live, wire>>
  BY DEF UpRefClassic, IInv, Shape, OpShape
<1>2. /\ Shape' /\ slots' \in [Keys -> Slots] /\ op' \in [Keys -> Ops]
      /\ slots'[k] = KeyOf(m, c, TRUE) /\ op'[k] = Idle
      /\ \A j \in Keys \ {k} : slots'[j] = slots[j] /\ op'[j] = op[j]
  BY <1>1, InstallShape
<1>3. \A o \in Objects : Owns(k, o) = SlotRefs(slots[k], o) + Count(o = c)
                                      + Count(o = m) + Count(o = m)
  BY <1>1, SlotRefsType DEF Owns, PendingRefs, Count
<1>4. \A o \in Objects : Owns(k, o)' = Count(o = c) + Count(o = c)
                                       + Count(o = m) + Count(o = m)
  <2>1. op'[k] = Idle
    BY <1>2
  <2>2. \A o \in Objects : Owns(k, o)' = SlotRefs(slots'[k], o)
    BY <2>1, NothingOwned, SlotRefsType DEF Owns
  <2>3. /\ slots'[k].mlkem_pubkey = m /\ slots'[k].classic_pubkey = c
        /\ slots'[k].mlkem_privkey = m /\ slots'[k].classic_privkey = c
    BY <1>2 DEF KeyOf
  <2>4. QED
    BY <2>2, <2>3, FilledRefs
<1>5. /\ refs' \in [Objects -> Int]
      /\ \A o \in Objects : refs'[o] = refs[o] - Owns(k, o) + Owns(k, o)'
  BY <1>1, <1>3, <1>4, SlotRefsType DEF IInv, KeyTypes, Count
<1>6. \A o \in Objects : Owns(k, o)' > 0 => Owns(k, o) > 0 \/ refs[o] = 0
  BY <1>3, <1>4, SlotRefsType DEF Count
<1>7. OneOwnerEach' /\ refs' \in [Objects -> Nat]
  BY <1>2, <1>5, <1>6, OwnershipStep
<1>8. content' \in [Objects -> Contents]
  BY <1>1 DEF IInv, KeyTypes, ContentAfter, NoContent, Contents
<1>9. /\ CompositeOf(m, c) \in Composites
      /\ content[m].private = TRUE /\ content[c].private = TRUE
  BY <1>1, NullAssumption
  DEF IInv, KeyTypes, Contents, Meaning, Shape, OpShape, OpContent, CompositeOf,
      Composites
<1>10. KeyTypes'
  BY <1>1, <1>2, <1>7, <1>8, <1>9 DEF IInv, KeyTypes
<1>11. Meaning'
  <2>1. /\ \A o \in Objects : refs'[o] > 0 => content'[o] = content[o]
        /\ refs'[m] > 0 /\ refs'[c] > 0
    <3>1. Owns(k, m)' > 0 /\ Owns(k, c)' > 0
      BY <1>1, <1>4 DEF Count
    <3>2. QED
      BY <1>1, <1>7, <3>1 DEF ContentAfter, OneOwnerEach
  <2>2. CompositeOf(m, c)' \in Legit'
    BY <1>1, <2>1 DEF CompositeOf, Legit
  <2>3. QED
    BY <1>1, <1>2, <1>7, <1>9, <2>1, <2>2, InstallMeaning
<1>12. CompositeOf(m, c)' = CompositeOf(m, c)
  <2>1. Owns(k, m)' > 0 /\ Owns(k, c)' > 0
    BY <1>1, <1>4 DEF Count
  <2>2. refs'[m] # 0 /\ refs'[c] # 0
    BY <1>7, <2>1 DEF OneOwnerEach
  <2>3. QED
    BY <1>1, <2>2 DEF ContentAfter, CompositeOf
<1>13. /\ slots'[k].mlkem_pubkey = m /\ slots'[k].classic_pubkey = c
       /\ slots'[k].has_private = TRUE
  BY <1>2 DEF KeyOf
<1>14. IInv'
  BY <1>2, <1>7, <1>10, <1>11 DEF IInv
<1>15. minted' = minted \union {CompositeOf(m, c)}
  BY <1>1
<1>16. CompositeOf(slots[k].mlkem_pubkey, slots[k].classic_pubkey)' = CompositeOf(m, c)
  BY <1>12, <1>13 DEF CompositeOf
<1>17. QED
  BY <1>9, <1>13, <1>14, <1>15, <1>16, NullAssumption

LEMMA ImportClassicIInv ==
    ASSUME IInv, NEW k \in Keys, ImportClassic(k)
    PROVE  /\ IInv'
           /\ slots'[k].mlkem_pubkey # NULL
           /\ slots'[k].has_private \in BOOLEAN
           /\ slots'[k].has_private <=> op[k].kind = "import_private"
           /\ Source(k) \in Legit
           /\ CompositeOf(slots[k].mlkem_pubkey, slots[k].classic_pubkey)' = Source(k)
<1>1. PICK c \in Objects, private \in BOOLEAN :
         /\ private <=> op[k].kind = "import_private"
         /\ refs[c] = 0
         /\ refs' = [o \in Objects |->
               (refs[o] + Count(o = c)
                + (IF private THEN Count(o = c) + Count(o = op[k].mlkem) ELSE 0))
               - SlotRefs(slots[k], o)]
         /\ content' = [ContentAfter(refs') EXCEPT ![c] =
               [pair |-> Source(k).classic, private |-> private]]
         /\ Install(k, op[k].mlkem, c, private)
  BY Zenon DEF ImportClassic
<1>2. UNCHANGED <<live, wire, minted>>
  BY DEF ImportClassic
<1>3. op[k].pc = "classic" /\ ~ Generating(k)
  BY DEF ImportClassic
<1>4. PICK m \in Objects : m = op[k].mlkem
  BY <1>3 DEF IInv, Shape, OpShape
<1>5. PICK v \in Contents : v = [pair |-> Source(k).classic, private |-> private]
  <2>1. Source(k).classic \in ClassicPairs
    BY <1>3, SourceType DEF Composites
  <2>2. QED
    BY <2>1 DEF Contents
<1>6. /\ op[k].pc = "classic" /\ m = op[k].mlkem /\ ~ Generating(k)
      /\ private <=> op[k].kind = "import_private"
      /\ refs[c] = 0
      /\ refs' = [o \in Objects |->
            (refs[o] + Count(o = c)
             + (IF private THEN Count(o = c) + Count(o = m) ELSE 0))
            - SlotRefs(slots[k], o)]
      /\ content' = [ContentAfter(refs') EXCEPT ![c] = v]
      /\ Install(k, m, c, private)
      /\ UNCHANGED <<live, wire, minted>>
  <2>1. m = op[k].mlkem /\ v = [pair |-> Source(k).classic, private |-> private]
    BY <1>4, <1>5
  <2>2. QED
    BY <1>1, <1>3, <1>2, <2>1, Zenon
<1>7. v.pair = Source(k).classic /\ v.private = private
  BY <1>5
<1>8. m # c /\ op[k].classic = NULL
  BY <1>6, HeldIsAllocated, NullAssumption DEF IInv, Shape, OpShape
<1>9. /\ Shape' /\ slots' \in [Keys -> Slots] /\ op' \in [Keys -> Ops]
      /\ slots'[k] = KeyOf(m, c, private) /\ op'[k] = Idle
      /\ \A j \in Keys \ {k} : slots'[j] = slots[j] /\ op'[j] = op[j]
  BY <1>6, <1>8, InstallShape
<1>10. \A o \in Objects : Owns(k, o) = SlotRefs(slots[k], o) + Count(o = m)
  BY <1>6, <1>8, SlotRefsType, NullAssumption DEF Owns, PendingRefs, Count
<1>11. \A o \in Objects : Owns(k, o)' = Count(o = c) + Count(o = m)
                 + (IF private THEN Count(o = c) + Count(o = m) ELSE 0)
  <2>1. op'[k] = Idle
    BY <1>9
  <2>2. \A o \in Objects : Owns(k, o)' = SlotRefs(slots'[k], o)
    BY <2>1, NothingOwned, SlotRefsType DEF Owns
  <2>3. /\ slots'[k].mlkem_pubkey = m /\ slots'[k].classic_pubkey = c
        /\ slots'[k].mlkem_privkey = IF private THEN m ELSE NULL
        /\ slots'[k].classic_privkey = IF private THEN c ELSE NULL
    BY <1>9 DEF KeyOf
  <2>4. QED
    BY <2>2, <2>3, FilledRefs DEF Count
<1>12. /\ refs' \in [Objects -> Int]
      /\ \A o \in Objects : refs'[o] = refs[o] - Owns(k, o) + Owns(k, o)'
  BY <1>6, <1>10, <1>11, SlotRefsType DEF IInv, KeyTypes, Count
<1>13. \A o \in Objects : Owns(k, o)' > 0 => Owns(k, o) > 0 \/ refs[o] = 0
  BY <1>6, <1>10, <1>11, SlotRefsType DEF Count
<1>14. OneOwnerEach' /\ refs' \in [Objects -> Nat]
  BY <1>9, <1>12, <1>13, OwnershipStep
<1>15. KeyTypes'
  <2>1. content' \in [Objects -> Contents]
    BY <1>6 DEF IInv, KeyTypes, ContentAfter, NoContent, Contents
  <2>2. QED
    BY <1>6, <1>9, <1>14, <2>1 DEF IInv, KeyTypes
<1>16. refs'[m] > 0 /\ Count(m = c) = 0
  <2>1. Owns(k, m)' > 0
    BY <1>11 DEF Count
  <2>2. QED
    BY <1>8, <1>14, <2>1 DEF OneOwnerEach, Count
<1>17. /\ \A o \in Objects : refs[o] > 0 /\ refs'[o] > 0
                               => content'[o] = content[o]
       /\ content'[m] = content[m] /\ content'[c] = v
  BY <1>6, <1>8, <1>16 DEF ContentAfter
<1>18. /\ content[m].pair = Source(k).mlkem /\ content[m].private = private
       /\ Source(k) \in Legit
  <2>1. op[k].mlkem # NULL /\ op[k].kind \in {"import_private", "import_public"}
    BY <1>6, NullAssumption
    DEF Generating, IInv, KeyTypes, Ops, Kinds, Shape, OpShape
  <2>2. content[m].pair = Source(k).mlkem
    BY <1>6, <2>1 DEF IInv, Meaning, OpContent
  <2>3. content[m].private = private
    BY <1>6, <2>1 DEF IInv, KeyTypes, Contents, Meaning, OpContent
  <2>4. Source(k) \in Legit
    BY <1>6, <2>1 DEF IInv, Shape, OpShape, Meaning, OpContent, Source
  <2>5. QED
    BY <2>2, <2>3, <2>4
<1>19. CompositeOf(m, c)' = Source(k)
  <2>1. Source(k) \in Composites
    BY <1>18, LegitType
  <2>2. Source(k) = [mlkem |-> Source(k).mlkem, classic |-> Source(k).classic]
    BY <2>1 DEF Composites
  <2>3. QED
    BY <1>7, <1>17, <1>18, <2>2 DEF CompositeOf
<1>20. Meaning'
  <2>1. CompositeOf(m, c)' \in Legit'
    BY <1>6, <1>18, <1>19 DEF Legit
  <2>2. content'[m].private = private /\ content'[c].private = private
    BY <1>7, <1>17, <1>18
  <2>3. wire' = wire /\ minted \subseteq minted'
    BY <1>6
  <2>4. QED
    BY <1>9, <1>14, <1>17, <2>1, <2>2, <2>3, InstallMeaning
<1>21. IInv'
  BY <1>9, <1>14, <1>15, <1>20 DEF IInv
<1>22. /\ slots'[k].mlkem_pubkey = m /\ slots'[k].classic_pubkey = c
       /\ slots'[k].has_private = private
  BY <1>9 DEF KeyOf
<1>23. CompositeOf(slots[k].mlkem_pubkey, slots[k].classic_pubkey)' = Source(k)
  BY <1>19, <1>22 DEF CompositeOf
<1>24. private <=> op[k].kind = "import_private"
  BY <1>6
<1>25. QED
  BY <1>18, <1>21, <1>22, <1>23, <1>24, NullAssumption

LEMMA FailIInv ==
    ASSUME IInv, NEW k \in Keys, Fail(k)
    PROVE  IInv'
<1>1. /\ op[k].pc # "idle"
      /\ refs' = [o \in Objects |-> refs[o] - PendingRefs(op[k], o)]
      /\ content' = ContentAfter(refs') /\ op' = [op EXCEPT ![k] = Idle]
      /\ live' = IF op[k].kind = "gen" THEN live \ {k} ELSE live
      /\ UNCHANGED <<slots, wire, minted>>
  BY DEF Fail, ErrFrees, PendingRefs
<1>2. /\ op'[k] = Idle /\ op' \in [Keys -> Ops]
      /\ \A j \in Keys \ {k} : slots'[j] = slots[j] /\ op'[j] = op[j]
  <2>1. Idle \in Ops
    BY DEF Idle, Ops, Kinds, Selections, NoParams, Params, MaybeComposite, Pointers
  <2>2. QED
    BY <1>1, <2>1 DEF IInv, KeyTypes
<1>3. \A o \in Objects : /\ Owns(k, o) = SlotRefs(slots[k], o) + PendingRefs(op[k], o)
                          /\ Owns(k, o)' = SlotRefs(slots[k], o)
  BY <1>1, <1>2, NothingOwned, SlotRefsType DEF Owns
<1>4. /\ refs' \in [Objects -> Int]
      /\ \A o \in Objects : refs'[o] = refs[o] - Owns(k, o) + Owns(k, o)'
  BY <1>1, <1>3, SlotRefsType, PendingRefsType DEF IInv, KeyTypes
<1>5. \A o \in Objects : Owns(k, o)' > 0 => Owns(k, o) > 0 \/ refs[o] = 0
  BY <1>3, SlotRefsType, PendingRefsType
<1>6. OneOwnerEach' /\ refs' \in [Objects -> Nat]
  BY <1>2, <1>4, <1>5, OwnershipStep
<1>7. KeyTypes'
  BY <1>1, <1>2, <1>6 DEF IInv, KeyTypes, ContentAfter, NoContent, Contents
<1>8. Shape'
  BY <1>1, <1>2 DEF IInv, Shape, OpShape, LifeShape, Idle
<1>9. Meaning'
  <2>1. \A o \in Objects : refs'[o] > 0 => content'[o] = content[o]
    BY <1>1, <1>6 DEF ContentAfter
  <2>2. KeyContent(k)'
    <3>1. SUFFICES ASSUME slots[k].mlkem_pubkey # NULL
                   PROVE  KeyContent(k)'
      BY <1>1 DEF KeyContent
    <3>2. slots[k].mlkem_pubkey \in Objects /\ slots[k].classic_pubkey \in Objects
      BY <3>1, FilledKey DEF IInv, Shape
    <3>3. Owns(k, slots[k].mlkem_pubkey)' > 0 /\ Owns(k, slots[k].classic_pubkey)' > 0
      BY <1>1, PendingRefsType DEF Owns, SlotRefs, Count
    <3>4. /\ content'[slots[k].mlkem_pubkey] = content[slots[k].mlkem_pubkey]
          /\ content'[slots[k].classic_pubkey] = content[slots[k].classic_pubkey]
      BY <1>1, <1>6, <2>1, <3>2, <3>3 DEF OneOwnerEach
    <3>5. QED
      BY <1>1, <3>1, <3>4 DEF IInv, Meaning, KeyContent, CompositeOf, Legit
  <2>3. OpContent(k)' /\ WireContent'
    BY <1>1, <1>2 DEF OpContent, Idle, NoParams, IInv, Meaning, WireContent, Legit
  <2>4. QED
    BY <1>1, <1>2, <1>6, <1>8, <2>1, <2>2, <2>3, MeaningStep
<1>10. QED
  BY <1>6, <1>7, <1>8, <1>9 DEF IInv

LEMMA ExportIInv ==
    ASSUME IInv, NEW k \in Keys, NEW sel \in Selections, Export(k, sel)
    PROVE  IInv'
<1> DEFINE pub == CompositeOf(slots[k].mlkem_pubkey, slots[k].classic_pubkey)
<1>1. UNCHANGED <<live, slots, refs, content, op, minted>>
  BY DEF Export
<1>2. /\ slots[k].mlkem_pubkey # NULL => pub \in Legit
      /\ wire'.pub \in {pub, None} /\ wire'.priv \in {pub, None}
      /\ wire' = [pub |-> wire'.pub, priv |-> wire'.priv]
      /\ ~ (wire'.pub = None /\ wire'.priv = None) => slots[k].mlkem_pubkey # NULL
  <2>1. slots[k].mlkem_pubkey # NULL => pub \in Legit
    BY DEF IInv, Meaning, KeyContent
  <2>2. slots[k].has_private =>
           /\ slots[k].mlkem_pubkey # NULL
           /\ get0_mlkem_private(k) = slots[k].mlkem_pubkey
           /\ get0_classic_private(k) = slots[k].classic_pubkey
    <3>1. SUFFICES ASSUME slots[k].has_private
                   PROVE  /\ slots[k].mlkem_pubkey # NULL
                          /\ get0_mlkem_private(k) = slots[k].mlkem_pubkey
                          /\ get0_classic_private(k) = slots[k].classic_pubkey
      OBVIOUS
    <3>2. PICK m, c \in Objects, private \in BOOLEAN :
             slots[k] = KeyOf(m, c, private)
      BY <3>1 DEF IInv, Shape, SlotShape, EmptyKey
    <3>3. /\ slots[k].mlkem_pubkey = m /\ slots[k].classic_pubkey = c
          /\ slots[k].mlkem_privkey = m /\ slots[k].classic_privkey = c
      BY <3>1, <3>2 DEF KeyOf
    <3>4. QED
      BY <3>3, NullAssumption DEF get0_mlkem_private, get0_classic_private
  <2>3. QED
    BY <2>1, <2>2 DEF Export, kem_has
<1> HIDE DEF pub
<1>3. /\ wire'.pub # None => wire'.pub = pub /\ pub \in Legit
      /\ wire'.priv # None => wire'.priv = pub /\ pub \in Legit
  BY <1>2
<1>4. wire' \in Params
  BY <1>2, <1>3, LegitType DEF Params, MaybeComposite
<1>5. WireContent'
  BY <1>1, <1>3 DEF WireContent, Legit
<1>6. Meaning'
  BY <1>1, <1>5 DEF IInv, Meaning, KeyContent, OpContent, CompositeOf, Legit,
                    Generating, Source
<1>7. KeyTypes' /\ Shape' /\ OneOwnerEach'
  BY <1>1, <1>4 DEF IInv, KeyTypes, Shape, LifeShape, OneOwnerEach, Owns
<1>8. QED
  BY <1>6, <1>7 DEF IInv

LEMMA StutterIInv == IInv /\ UNCHANGED vars => IInv'
BY DEF vars, IInv, KeyTypes, Shape, LifeShape, OneOwnerEach, Owns, Meaning, WireContent,
       KeyContent, OpContent, CompositeOf, Legit, Generating, Source

-----------------------------------------------------------------------------
(* The theorems.                                                           *)

(* An import that misses a reference does to the rest of the state what one *)
(* does that takes all of them.                                            *)
LEMMA StepCounts ==
    ASSUME [Next]_vars
    PROVE  UNCHANGED vars \/ \E k \in Keys : Counted(k)
BY DEF Next, ImportUnnoticed, Counted

LEMMA NextIInv == IInv /\ [Next]_vars => IInv'
<1> SUFFICES ASSUME IInv, [Next]_vars PROVE IInv'
  OBVIOUS
<1>1. CASE UNCHANGED vars
  BY <1>1, StutterIInv
<1>2. ASSUME NEW k \in Keys, Counted(k)
      PROVE  IInv'
  BY <1>2, NewIInv, FreeIInv, GenBeginIInv, RegenBeginIInv, ImportBeginIInv,
     BuildMlkemIInv, GenerateClassicIInv, UpRefMlkemIInv, UpRefClassicIInv,
     ImportClassicIInv, FailIInv, ExportIInv DEF Counted
<1>3. QED
  BY <1>1, <1>2, StepCounts

\* IInv holds in every reachable state: it is inductive.
THEOREM Invariance == Spec => []IInv
BY IInvInit, NextIInv, PTL DEF Spec

\* Every variable keeps its type; in particular no reference count goes below
\* zero, so no EVP_PKEY_free acts on an object that is already gone.
THEOREM TypeCorrect == Spec => []TypeOK
<1>1. Init => TypeOK
  BY IInvInit DEF Init, IInv, TypeOK
<1>2. IInv /\ TypeOK /\ [Next]_vars => TypeOK'
  <2> SUFFICES ASSUME IInv, [Next]_vars, missed \subseteq Objects
               PROVE  KeyTypes' /\ missed' \subseteq Objects
    BY DEF TypeOK
  <2>1. KeyTypes'
    BY NextIInv DEF IInv
  <2>2. ASSUME NEW k \in Keys, ImportUnnoticed(k)
        PROVE  missed' \subseteq Objects
    <3>1. IInv' /\ slots'[k].has_private
      BY <2>2, ImportClassicIInv DEF ImportUnnoticed
    <3>2. SlotShape(slots[k])'
      BY <3>1 DEF IInv, Shape
    <3>3. PICK m, c \in Objects, private \in BOOLEAN : slots'[k] = KeyOf(m, c, private)
      BY <3>1, <3>2 DEF SlotShape, EmptyKey
    <3>4. private
      BY <3>1, <3>3 DEF KeyOf
    <3>5. slots'[k].mlkem_privkey = m /\ slots'[k].classic_privkey = c
      BY <3>3, <3>4 DEF KeyOf
    <3>6. QED
      BY <2>2, <3>5 DEF ImportUnnoticed
  <2>3. QED
    BY <2>1, <2>2 DEF Next, vars
<1>3. QED
  BY <1>1, <1>2, Invariance, PTL DEF Spec

\* Each component object has one owner and an exact reference count, whichever
\* call of composite_kemkey_generate or of an import fails, unless an import has
\* missed a reference without noticing.
THEOREM OwnershipHolds == Spec => []Ownership
<1>1. IInv => Ownership
  BY DEF IInv, Ownership
<1>2. QED
  BY <1>1, Invariance, PTL

LEMMA PrivateAccessors ==
    ASSUME IInv, NEW k \in Keys, slots[k].mlkem_pubkey # NULL
    PROVE  /\ get0_mlkem_private(k) = slots[k].mlkem_pubkey
           /\ get0_classic_private(k) = slots[k].classic_pubkey
           /\ slots[k].classic_pubkey # NULL
           /\ slots[k].has_private \in BOOLEAN
           /\ content[slots[k].mlkem_pubkey].private = slots[k].has_private
           /\ content[slots[k].classic_pubkey].private = slots[k].has_private
<1>1. PICK m, c \in Objects, private \in BOOLEAN : slots[k] = KeyOf(m, c, private)
  BY DEF IInv, Shape, SlotShape, EmptyKey
<1>2. /\ slots[k].mlkem_pubkey = m /\ slots[k].classic_pubkey = c
      /\ slots[k].mlkem_privkey \in {m, NULL}
      /\ slots[k].classic_privkey \in {c, NULL}
      /\ slots[k].has_private = private
  BY <1>1 DEF KeyOf
<1>3. /\ content[slots[k].mlkem_pubkey].private = slots[k].has_private
      /\ content[slots[k].classic_pubkey].private = slots[k].has_private
  BY DEF IInv, Meaning, KeyContent
<1>4. QED
  BY <1>2, <1>3, NullAssumption DEF get0_mlkem_private, get0_classic_private

LEMMA EmptyAccessors ==
    ASSUME IInv, NEW k \in Keys, slots[k].mlkem_pubkey = NULL
    PROVE  /\ slots[k] = EmptyKey
           /\ get0_mlkem_private(k) = NULL /\ get0_classic_private(k) = NULL
           /\ slots[k].classic_pubkey = NULL /\ slots[k].has_private = FALSE
<1>1. slots[k] = EmptyKey
  <2>1. SUFFICES ASSUME NEW m \in Objects, NEW c \in Objects, NEW private \in BOOLEAN,
                        slots[k] = KeyOf(m, c, private)
                 PROVE  FALSE
    BY DEF IInv, Shape, SlotShape
  <2>2. slots[k].mlkem_pubkey = m
    BY <2>1 DEF KeyOf
  <2>3. QED
    BY <2>2, NullAssumption
<1>2. QED
  BY <1>1 DEF EmptyKey, get0_mlkem_private, get0_classic_private

\* has_private is right about what the key's components can do.
THEOREM PrivateUsable == Spec => []PrivateIsUsable
<1>1. IInv => PrivateIsUsable
  <2> SUFFICES ASSUME IInv, NEW k \in Keys
               PROVE  /\ slots[k].has_private =>
                           /\ CanEncodePrivate(k)
                           /\ kem_has(k, {"PUBLIC_KEY"})
                           /\ CompositeOf(get0_mlkem_private(k),
                                          get0_classic_private(k))
                                 = CompositeOf(slots[k].mlkem_pubkey,
                                               slots[k].classic_pubkey)
                      /\ ~ slots[k].has_private =>
                           \A o \in {get0_mlkem_private(k),
                                     get0_classic_private(k)} \ {NULL} :
                               ~ content[o].private
    BY DEF PrivateIsUsable
  <2>1. CASE slots[k].mlkem_pubkey = NULL
    BY <2>1, EmptyAccessors
  <2>2. CASE slots[k].mlkem_pubkey # NULL
    BY <2>2, PrivateAccessors DEF CanEncodePrivate, kem_has
  <2>3. QED
    BY <2>1, <2>2
<1>2. QED
  BY <1>1, Invariance, PTL

\* The two halves of every key and of everything exported belong together.
THEOREM NeverMixed == Spec => []NoMixing
<1>1. IInv => NoMixing
  <2> SUFFICES ASSUME IInv PROVE NoMixing
    OBVIOUS
  <2>1. \A k \in Keys :
           (slots[k].mlkem_pubkey = NULL) <=> (slots[k].classic_pubkey = NULL)
    <3>1. ASSUME NEW k \in Keys
          PROVE  (slots[k].mlkem_pubkey = NULL) <=> (slots[k].classic_pubkey = NULL)
      <4>1. CASE slots[k].mlkem_pubkey = NULL
        BY <4>1, EmptyAccessors
      <4>2. CASE slots[k].mlkem_pubkey # NULL
        BY <4>2, PrivateAccessors
      <4>3. QED
        BY <4>1, <4>2
    <3>2. QED
      BY <3>1
  <2>2. QED
    BY <2>1 DEF IInv, Meaning, WireContent, KeyContent, NoMixing
<1>2. QED
  BY <1>1, Invariance, PTL

\* A key changes kind only as its caller asked: an import that was given
\* private material, and asked for it, leaves a private key.
THEOREM NeverDiscarded == Spec => PrivateNotDiscarded
<1> DEFINE Kept(k) ==
      (/\ op[k].kind \in {"import_private", "import_public"}
       /\ slots'[k] # slots[k])
      => /\ slots'[k].has_private
               <=> ("PRIVATE_KEY" \in op[k].sel /\ op[k].params.priv # None)
<1>1. IInv /\ [Next]_vars => [\A k \in Keys : Kept(k)]_vars
  <2> SUFFICES ASSUME IInv, Next, NEW k \in Keys, slots'[k] # slots[k],
                      op[k].kind \in {"import_private", "import_public"}
               PROVE  slots'[k].has_private
                        <=> ("PRIVATE_KEY" \in op[k].sel /\ op[k].params.priv # None)
    BY DEF vars
  <2>1. PICK j \in Keys : Free(j) \/ UpRefClassic(j) \/ ImportClassic(j)
    BY StepCounts DEF vars, Counted, New, GenBegin, RegenBegin, ImportBegin, BuildMlkem,
           GenerateClassic, UpRefMlkem, Fail, Export
  <2>2. j = k
    BY <2>1 DEF IInv, KeyTypes, Free, UpRefClassic, ImportClassic, Install
  <2>3. ~ Free(k)
    BY DEF Free, Idle
  <2>4. ~ UpRefClassic(k)
    BY DEF UpRefClassic, IInv, Shape, OpShape
  <2>5. slots'[k].has_private <=> op[k].kind = "import_private"
    BY <2>1, <2>2, <2>3, <2>4, ImportClassicIInv
  <2>6. QED
    BY <2>5 DEF IInv, Shape, OpShape
<1>2. QED
  BY <1>1, Invariance, PTL DEF Spec, PrivateNotDiscarded

-----------------------------------------------------------------------------
(* The keys implement CompositeKeyStore.                                   *)

(* An object that stays allocated keeps its content.                       *)
ContentKept == \A o \in Objects : refs[o] > 0 /\ refs'[o] > 0
                                    => content'[o] = content[o]

LEMMA ContentIsKept ==
    ASSUME IInv, NEW j \in Keys, Counted(j)
    PROVE  ContentKept
<1>1. PICK k \in Keys :
        \/ UNCHANGED content
        \/ Free(k) \/ BuildMlkem(k) \/ GenerateClassic(k) \/ UpRefClassic(k)
        \/ ImportClassic(k) \/ Fail(k)
  BY DEF Counted, New, GenBegin, RegenBegin, ImportBegin, UpRefMlkem, Export
<1>2. CASE UNCHANGED content
  BY <1>2 DEF ContentKept
<1>3. CASE Free(k) \/ UpRefClassic(k) \/ Fail(k)
  <2>1. content' = ContentAfter(refs')
    BY <1>3 DEF Free, UpRefClassic, Fail
  <2>2. QED
    BY <2>1 DEF ContentKept, ContentAfter
<1>4. CASE BuildMlkem(k) \/ GenerateClassic(k)
  <2>1. PICK o \in Objects : /\ refs[o] = 0
                             /\ \E v : content' = [content EXCEPT ![o] = v]
    BY <1>4 DEF BuildMlkem, GenerateClassic, Allocate
  <2>2. refs[o] = 0 /\ \A x \in Objects \ {o} : content'[x] = content[x]
    BY <2>1 DEF IInv, KeyTypes
  <2>3. QED
    BY <2>2 DEF ContentKept
<1>5. CASE ImportClassic(k)
  <2>1. PICK c \in Objects : /\ refs[c] = 0
                             /\ \A x \in Objects \ {c} :
                                   content'[x] = ContentAfter(refs')[x]
    BY <1>5 DEF ImportClassic, ContentAfter
  <2>2. QED
    BY <2>1 DEF ContentKept, ContentAfter
<1>6. QED
  BY <1>1, <1>2, <1>3, <1>4, <1>5

(* What a key holds does not change while its slots do not.                *)
LEMMA HeldStable ==
    ASSUME IInv, OneOwnerEach', ContentKept, NEW k \in Keys,
           slots'[k] = slots[k], k \in live' <=> k \in live
    PROVE  Held(k)' = Held(k)
<1>1. CASE slots[k].mlkem_pubkey = NULL
  BY <1>1 DEF Held
<1>2. CASE slots[k].mlkem_pubkey # NULL
  <2>1. slots[k].mlkem_pubkey \in Objects /\ slots[k].classic_pubkey \in Objects
    BY <1>2, FilledKey DEF IInv, Shape
  <2>2. refs[slots[k].mlkem_pubkey] > 0 /\ refs[slots[k].classic_pubkey] > 0
    BY <1>2, HeldIsAllocated
  <2>3. Owns(k, slots[k].mlkem_pubkey)' > 0 /\ Owns(k, slots[k].classic_pubkey)' > 0
    BY PendingRefsType DEF Owns, SlotRefs, Count
  <2>4. refs'[slots[k].mlkem_pubkey] > 0 /\ refs'[slots[k].classic_pubkey] > 0
    BY <2>1, <2>3 DEF OneOwnerEach
  <2>5. CompositeOf(slots[k].mlkem_pubkey, slots[k].classic_pubkey)'
           = CompositeOf(slots[k].mlkem_pubkey, slots[k].classic_pubkey)
    BY <2>1, <2>2, <2>4 DEF ContentKept, CompositeOf
  <2>6. QED
    BY <2>5 DEF Held
<1>3. QED
  BY <1>1, <1>2

LEMMA HeldType ==
    ASSUME IInv, NEW k \in Keys, k \in live
    PROVE  Held(k) \in Params /\ Held(k) # NULL
<1>1. CASE slots[k].mlkem_pubkey = NULL
  BY <1>1, NullAssumption DEF Held, NoParams, Params, MaybeComposite
<1>2. CASE slots[k].mlkem_pubkey # NULL
  <2>1. CompositeOf(slots[k].mlkem_pubkey, slots[k].classic_pubkey) \in Composites
    BY <1>2, LegitType DEF IInv, Meaning, KeyContent
  <2>2. QED
    BY <1>2, <2>1, NullAssumption DEF Held, Params, MaybeComposite
<1>3. QED
  BY <1>1, <1>2

(* Seen from the store, a step on k changes what k holds and nothing else. *)
LEMMA StoreUpdate ==
    ASSUME IInv, OneOwnerEach', ContentKept, NEW k \in Keys,
           \A j \in Keys \ {k} : slots'[j] = slots[j] /\ (j \in live' <=> j \in live)
    PROVE  [j \in Keys |-> Held(j)'] =
              [[j \in Keys |-> Held(j)] EXCEPT ![k] = Held(k)']
<1>1. \A j \in Keys \ {k} : Held(j)' = Held(j)
  BY HeldStable
<1>2. QED
  BY <1>1

LEMMA StoreInitial == Init => Store!StoreInit
BY DEF Init, Store!StoreInit, Held, NoParams, Store!Nothing

(* A step that leaves slots, live, wire and minted alone is a stutter.     *)
LEMMA StoreStutter ==
    ASSUME IInv, OneOwnerEach', ContentKept, UNCHANGED <<live, slots, wire, minted>>
    PROVE  UNCHANGED Store!storeVars
<1>1. \A j \in Keys : Held(j)' = Held(j)
  BY HeldStable
<1>2. QED
  BY <1>1 DEF Store!storeVars

LEMMA StoreAllocates ==
    ASSUME IInv, IInv', ContentKept, NEW k \in Keys, New(k) \/ GenBegin(k)
    PROVE  Store!StoreNew(k)
<1>1. /\ k \notin live /\ live' = live \union {k} /\ slots[k] = EmptyKey
      /\ UNCHANGED <<slots, wire, minted>>
  BY DEF New, GenBegin, IInv, Shape, LifeShape
<1>2. Held(k) = NULL /\ Held(k)' = NoParams
  BY <1>1 DEF Held, EmptyKey
<1>3. [j \in Keys |-> Held(j)'] = [[j \in Keys |-> Held(j)] EXCEPT ![k] = NoParams]
  BY <1>1, <1>2, StoreUpdate DEF IInv
<1>4. QED
  BY <1>1, <1>2, <1>3 DEF Store!StoreNew, Store!Nothing, NoParams

LEMMA StoreReleases ==
    ASSUME IInv, IInv', ContentKept, NEW k \in Keys,
           Free(k) \/ (Fail(k) /\ op[k].kind = "gen")
    PROVE  Store!StoreFree(k)
<1>1. /\ k \in live /\ live' = live \ {k} /\ UNCHANGED <<wire, minted>>
      /\ \A j \in Keys \ {k} : slots'[j] = slots[j]
  BY DEF Free, Fail, IInv, KeyTypes, Shape, LifeShape, Idle
<1>2. Held(k) # NULL /\ Held(k)' = NULL
  BY <1>1, HeldType DEF Held
<1>3. [j \in Keys |-> Held(j)'] = [[j \in Keys |-> Held(j)] EXCEPT ![k] = NULL]
  BY <1>1, <1>2, StoreUpdate DEF IInv
<1>4. QED
  BY <1>1, <1>2, <1>3 DEF Store!StoreFree

LEMMA StoreGenerates ==
    ASSUME IInv, IInv', ContentKept, NEW k \in Keys, UpRefClassic(k)
    PROVE  Store!StoreGenerate(k)
<1>1. /\ k \in live /\ live' = live /\ wire' = wire
      /\ \A j \in Keys \ {k} : slots'[j] = slots[j]
  BY DEF UpRefClassic, Install, IInv, KeyTypes, Shape, LifeShape, Idle
<1>2. PICK c \in Composites :
         /\ minted' = minted \union {c}
         /\ slots'[k].mlkem_pubkey # NULL /\ slots'[k].has_private
         /\ CompositeOf(slots[k].mlkem_pubkey, slots[k].classic_pubkey)' = c
  BY UpRefClassicIInv
<1>3. Held(k)' = [pub |-> c, priv |-> c]
  BY <1>1, <1>2 DEF Held
<1>4. [j \in Keys |-> Held(j)'] =
         [[j \in Keys |-> Held(j)] EXCEPT ![k] = [pub |-> c, priv |-> c]]
  BY <1>1, <1>3, StoreUpdate DEF IInv
<1>5. Held(k) # NULL
  BY <1>1, HeldType
<1>6. QED
  BY <1>1, <1>2, <1>4, <1>5 DEF Store!StoreGenerate

LEMMA StoreImports ==
    ASSUME IInv, IInv', ContentKept, NEW k \in Keys, ImportClassic(k)
    PROVE  Store!StoreImport(k)
<1>1. /\ k \in live /\ live' = live /\ wire' = wire /\ minted' = minted
      /\ \A j \in Keys \ {k} : slots'[j] = slots[j]
  BY DEF ImportClassic, Install, IInv, KeyTypes, Shape, LifeShape, Idle
<1>2. PICK c \in Legit :
         /\ slots'[k].mlkem_pubkey # NULL
         /\ CompositeOf(slots[k].mlkem_pubkey, slots[k].classic_pubkey)' = c
  BY ImportClassicIInv
<1>3. PICK priv \in {c, None} : Held(k)' = [pub |-> c, priv |-> priv]
  BY <1>1, <1>2 DEF Held
<1>4. [j \in Keys |-> Held(j)'] =
         [[j \in Keys |-> Held(j)] EXCEPT ![k] = [pub |-> c, priv |-> priv]]
  BY <1>1, <1>3, StoreUpdate DEF IInv
<1>5. Held(k) # NULL
  BY <1>1, HeldType
<1>6. c \in Store!Legit
  BY DEF Store!Legit, Legit
<1>7. QED
  BY <1>1, <1>4, <1>5, <1>6 DEF Store!StoreImport

LEMMA StoreExports ==
    ASSUME IInv, IInv', ContentKept, NEW k \in Keys, NEW sel \in Selections,
           Export(k, sel)
    PROVE  Store!StoreExport(k)
<1> DEFINE c == CompositeOf(slots[k].mlkem_pubkey, slots[k].classic_pubkey)
<1>1. k \in live /\ UNCHANGED <<live, slots, content, minted>>
  BY DEF Export
<1>2. slots[k].mlkem_pubkey # NULL
  <2>1. slots[k].has_private => slots[k].mlkem_pubkey # NULL
    BY EmptyAccessors
  <2>2. QED
    BY <2>1 DEF Export, kem_has
<1>3. Held(k) = [pub |-> c, priv |-> IF slots[k].has_private THEN c ELSE None]
  BY <1>1, <1>2 DEF Held
<1>4. c # None
  BY <1>2, LegitType, NullAssumption DEF IInv, Meaning, KeyContent
<1>5. CompositeOf(get0_mlkem_private(k), get0_classic_private(k)) = c
  BY <1>2, PrivateAccessors
<1> HIDE DEF c
<1>6. wire' = [pub |-> IF "PUBLIC_KEY" \in sel THEN c ELSE None,
               priv |-> IF "PRIVATE_KEY" \in sel /\ slots[k].has_private
                        THEN c ELSE None]
      /\ ("PUBLIC_KEY" \in sel \/ ("PRIVATE_KEY" \in sel /\ slots[k].has_private))
  BY <1>5 DEF Export, c
<1>7. PICK pub \in {Held(k).pub, None}, priv \in {Held(k).priv, None} :
         ~ (pub = None /\ priv = None) /\ wire' = [pub |-> pub, priv |-> priv]
  BY <1>3, <1>4, <1>6
<1>8. [j \in Keys |-> Held(j)'] = [j \in Keys |-> Held(j)]
  BY <1>1 DEF Held, CompositeOf
<1>9. Held(k) # NULL
  BY <1>1, HeldType
<1>10. QED
  BY <1>1, <1>7, <1>8, <1>9 DEF Store!StoreExport

LEMMA StoreStep ==
    ASSUME IInv, [Next]_vars
    PROVE  [Store!StoreNext]_(Store!storeVars)
<1>1. CASE UNCHANGED vars
  BY <1>1 DEF vars, Store!storeVars, Held, CompositeOf
<1>2. ASSUME NEW j \in Keys, Counted(j)
      PROVE  \/ \E k \in Keys :
                   \/ Store!StoreNew(k) \/ Store!StoreGenerate(k)
                   \/ Store!StoreImport(k) \/ Store!StoreExport(k)
                   \/ Store!StoreFree(k)
             \/ UNCHANGED Store!storeVars
  <2>1. IInv' /\ OneOwnerEach' /\ ContentKept
    BY <1>2, NextIInv, ContentIsKept DEF IInv
  <2>2. PICK k \in Keys :
          \/ New(k) \/ GenBegin(k)
          \/ Free(k) \/ (Fail(k) /\ op[k].kind = "gen")
          \/ UpRefClassic(k)
          \/ ImportClassic(k)
          \/ \E sel \in Selections : Export(k, sel)
          \/ UNCHANGED <<live, slots, wire, minted>>
    BY <1>2 DEF Counted, RegenBegin, ImportBegin, BuildMlkem, GenerateClassic,
                UpRefMlkem, Fail
  <2>3. QED
    BY <2>1, <2>2, StoreAllocates, StoreReleases, StoreGenerates, StoreImports,
       StoreExports, StoreStutter
<1>3. QED
  BY <1>1, <1>2, StepCounts DEF Store!StoreNext

\* The four-slot keys with their fallible, many-step operations implement the
\* store in which every operation is one atomic step.
THEOREM Implementation == Spec => ImplementsStore
<1>1. IInv /\ [Next]_vars => [Store!StoreNext]_(Store!storeVars)
  BY StoreStep
<1>2. QED
  BY <1>1, StoreInitial, Invariance, PTL DEF Spec, ImplementsStore, Store!StoreSpec

=============================================================================
