---------------------------- MODULE SigKeyProofs ----------------------------
(***************************************************************************)
(* Proofs about SigKey: any keys, pairs and parameters made elsewhere.     *)
(*                                                                         *)
(* Nothing in a signature key says which of its objects belong together,   *)
(* so the invariant follows the parameters of a call through its steps: a  *)
(* call only ever fills slots that are empty, and what it has built is one *)
(* half of the composite that it was given.                                *)
(***************************************************************************)
EXTENDS SigKey, FiniteSetTheorems, TLAPS

Pair(m, c) == [mldsa |-> m.pair, classic |-> c.pair]

(* Two slots of a key are empty, or hold a composite somebody made.        *)
Matched(m, c) ==
    /\ m = NULL <=> c = NULL
    /\ m # NULL => Pair(m, c) \in Legit

(* libcrypto duplicates keys as a whole.                                   *)
WholeDup == DupSelections \subseteq {{"PUBLIC_KEY", "PRIVATE_KEY"}}

(* A key on its own: the two halves of each side go together, and a        *)
(* private side belongs to a public side that could sign by itself.  That  *)
(* has_private leads to private material takes whole duplicates.           *)
Sound(s) ==
    /\ Matched(s.mldsa_pubkey, s.classic_pubkey)
    /\ s.mldsa_pubkey # NULL => s.mldsa_pubkey.private = s.classic_pubkey.private
    /\ s.mldsa_pubkey # NULL /\ s.mldsa_privkey # NULL /\ s.mldsa_pubkey.private =>
          Pair(s.mldsa_pubkey, s.classic_pubkey) = Pair(s.mldsa_privkey, s.classic_privkey)
    /\ Matched(s.mldsa_privkey, s.classic_privkey)
    /\ s.mldsa_pubkey # NULL /\ s.mldsa_privkey # NULL =>
          LET pub == Pair(s.mldsa_pubkey, s.classic_pubkey)
              priv == Pair(s.mldsa_privkey, s.classic_privkey)
          IN  pub = priv \/ [pub |-> pub, priv |-> priv] \in Foreign
    /\ s.mldsa_privkey # NULL =>
          s.has_private /\ s.mldsa_privkey.private /\ s.classic_privkey.private
    /\ WholeDup =>
          (s.has_private /\ s.mldsa_privkey = NULL =>
              s.mldsa_pubkey # NULL /\ s.mldsa_pubkey.private)

(* Types, without how many EVP_PKEY there are.                             *)
Types ==
    /\ live \subseteq Keys
    /\ slots \in [Keys -> Slots]
    /\ call \in Calls \union {Idle}
    /\ wire \in Params
    /\ minted \subseteq Composites

KeysSound == \A k \in Keys : Sound(slots[k]) /\ (k \notin live => slots[k] = EmptyKey)

(* What parameters can be: a composite on either side, and two that do not *)
(* agree only if they arrived like that.                                   *)
Proper(p) ==
    /\ p.pub # None => p.pub \in Legit
    /\ p.priv # None => p.priv \in Legit
    /\ p.pub = None \/ p.priv = None \/ p \in Foreign

(* The slots of the key at work, by how far the call has come.             *)
Progress(s) ==
    \/ s = EmptyKey /\ call.pc # "derive"
    \/ /\ call.name = "import" /\ call.side = "priv"
       /\ s.mldsa_pubkey # NULL /\ s.classic_pubkey # NULL
       /\ s.mldsa_privkey = NULL /\ s.classic_privkey = NULL
       /\ ~ s.mldsa_pubkey.private /\ ~ s.has_private
       /\ Pair(s.mldsa_pubkey, s.classic_pubkey) = call.params.pub
    \/ /\ call.pc = "derive"
       /\ s.mldsa_pubkey = NULL /\ s.classic_pubkey = NULL
       /\ s.mldsa_privkey # NULL /\ s.classic_privkey # NULL
       /\ Pair(s.mldsa_privkey, s.classic_privkey) = call.params.priv

Working ==
    /\ call.key \in live
    /\ Progress(slots[call.key])
    /\ Proper(call.params)
    /\ call.pc = "derive" => call.name = "pki"
    /\ Generating => call.side = "pub"
    /\ ~ Generating => /\ call.params[call.side] # None
                       /\ call.params \in Foreign \union {wire}
    /\ call.priv => call.params.priv # None
    /\ call.name = "pki" => call.side = "priv"
    /\ call.pc # "classic" => call.mldsa = NULL
    /\ call.pc = "classic" =>
          /\ call.mldsa # NULL
          /\ call.mldsa.private = (Generating \/ call.side = "priv")
          /\ ~ Generating => call.mldsa.pair = call.params[call.side].mldsa

IInv ==
    /\ Types /\ KeysSound
    /\ Proper(wire) /\ (wire.pub = None \/ wire.priv = None)
    /\ call # Idle => Working

-----------------------------------------------------------------------------
(* Keys.                                                                   *)

LEMMA EmptySound == Sound(EmptyKey) /\ EmptyKey \in Slots
BY DEF Sound, Matched, EmptyKey, Slots

(* Composites are never forgotten.                                         *)
LEMMA SoundLater ==
    ASSUME NEW s, Sound(s), minted \subseteq minted'
    PROVE  Sound(s)'
BY DEF Sound, Matched, Legit

LEMMA ProperLater ==
    ASSUME NEW p, Proper(p), minted \subseteq minted'
    PROVE  Proper(p)'
BY DEF Proper, Legit

(* One key changes, to one that is sound.                                  *)
LEMMA KeyChange ==
    ASSUME Types, KeysSound, NEW k \in Keys, NEW s \in Slots,
           slots' = [slots EXCEPT ![k] = s], minted \subseteq minted',
           Sound(s)', live' \subseteq Keys,
           \A j \in Keys \ {k} : j \in live' <=> j \in live,
           k \in live' \/ s = EmptyKey
    PROVE  KeysSound' /\ slots' \in [Keys -> Slots]
<1>1. slots \in [Keys -> Slots]
  BY DEF Types
<1>2. ASSUME NEW j \in Keys
      PROVE  (Sound(slots[j]) /\ (j \notin live => slots[j] = EmptyKey))'
  <2>1. CASE j = k
    BY <1>1, <2>1
  <2>2. CASE j # k
    <3>1. slots'[j] = slots[j] /\ Sound(slots[j])
      BY <1>1, <2>2 DEF KeysSound
    <3> QED
      BY <2>2, <3>1, SoundLater DEF KeysSound
  <2> QED
    BY <2>1, <2>2
<1> QED
  BY <1>1, <1>2 DEF KeysSound

(* No key changes, and none is freed.                                      *)
LEMMA KeysStay ==
    ASSUME KeysSound, slots' = slots, live \subseteq live', minted' = minted
    PROVE  KeysSound'
BY DEF KeysSound, Sound, Matched, Legit

(* The parameters that may be offered to an import or a decode.            *)
LEMMA OfferedProper ==
    ASSUME IInv, NEW p \in Foreign \union {wire}
    PROVE  p \in Params /\ Proper(p)
<1>1. CASE p = wire
  BY <1>1 DEF IInv, Types
<1>2. CASE p \in Foreign
  BY <1>2, SigKeyAssumption DEF SigKeyAssumption, Proper, Legit, ForeignComposites
<1> QED
  BY <1>1, <1>2

LEMMA InitIInv == Init => IInv
<1>1. SUFFICES ASSUME Init PROVE IInv
  OBVIOUS
<1>2. Types /\ call = Idle
  BY <1>1, EmptySound DEF Init, Types, Params, NoParams
<1>3. KeysSound
  BY <1>1, EmptySound DEF Init, KeysSound
<1>4. Proper(wire) /\ wire.pub = None
  BY <1>1 DEF Init, Proper, NoParams
<1> QED
  BY <1>2, <1>3, <1>4 DEF IInv

(* A call that has only begun on an empty key.                             *)
LEMMA Begun ==
    ASSUME Types, KeysSound, Proper(wire), wire.pub = None \/ wire.priv = None,
           NEW k \in live', slots[k] = EmptyKey,
           live' \subseteq Keys, live \subseteq live',
           NEW name \in {"gen", "generate", "import", "spki", "pki"},
           NEW side \in {"pub", "priv"}, NEW priv \in BOOLEAN, NEW p \in Params,
           Proper(p),
           name \in {"gen", "generate"} => side = "pub",
           name \notin {"gen", "generate"} => p[side] # None /\ p \in Foreign \union {wire},
           priv => p.priv # None,
           name = "pki" => side = "priv",
           Begin(k, name, side, priv, p),
           UNCHANGED <<slots, wire, minted>>
    PROVE  IInv'
<1>1. call' = [name |-> name, key |-> k, pc |-> "mldsa", side |-> side,
               priv |-> priv, params |-> p, mldsa |-> NULL]
  BY DEF Begin
<1>2. call' \in Calls
  BY <1>1 DEF Calls
<1>3. Types'
  BY <1>2 DEF Types
<1>4. KeysSound'
  BY KeysStay
<1>5. Proper(p)' /\ Proper(wire)'
  BY DEF Proper, Legit
<1>6. Working'
  BY <1>1, <1>5 DEF Working, Progress, Generating
<1> QED
  BY <1>3, <1>4, <1>5, <1>6 DEF IInv

-----------------------------------------------------------------------------
(* Steps that begin a call, and steps outside calls.                       *)

LEMMA NewStep == ASSUME IInv, NEW k \in Keys, New(k) PROVE IInv'
<1>1. Types' /\ KeysSound'
  BY KeysStay DEF IInv, New, Types
<1> QED
  BY <1>1 DEF IInv, New, Proper, Legit

LEMMA FreeStep == ASSUME IInv, NEW k \in Keys, Free(k) PROVE IInv'
<1>1. Sound(EmptyKey)' /\ EmptyKey \in Slots
  BY EmptySound, SoundLater DEF Free
<1>2. KeysSound' /\ slots' \in [Keys -> Slots]
  BY <1>1, KeyChange DEF IInv, Free, Types
<1>3. Types'
  BY <1>2 DEF IInv, Free, Types
<1> QED
  BY <1>2, <1>3 DEF IInv, Free, Proper, Legit

LEMMA GenStep ==
    ASSUME IInv, NEW k \in Keys, GenBegin(k) \/ GenerateBegin(k)
    PROVE  IInv'
<1>1. NoParams \in Params /\ Proper(NoParams)
  BY DEF NoParams, Params, Proper
<1>2. slots[k] = EmptyKey
  BY DEF GenBegin, GenerateBegin, IInv, KeysSound
<1>3. \E name \in {"gen", "generate"} : Begin(k, name, "pub", FALSE, NoParams)
  BY DEF GenBegin, GenerateBegin
<1>4. /\ k \in live' /\ live' \subseteq Keys /\ live \subseteq live'
      /\ UNCHANGED <<slots, wire, minted>>
  BY DEF GenBegin, GenerateBegin, IInv, Types
<1> QED
  BY <1>1, <1>2, <1>3, <1>4, Begun DEF IInv

LEMMA ImportStep ==
    ASSUME IInv, NEW k \in Keys, NEW sel \in Selections,
           NEW p \in Foreign \union {wire}, ImportBegin(k, sel, p)
    PROVE  IInv'
<1> DEFINE pub == "PUBLIC_KEY" \in sel /\ p.pub # None
           priv == "PRIVATE_KEY" \in sel /\ p.priv # None
           side == IF pub THEN "pub" ELSE "priv"
<1>1. p \in Params /\ Proper(p)
  BY OfferedProper
<1>2. /\ slots[k] = EmptyKey
      /\ k \in live' /\ live' \subseteq Keys /\ live \subseteq live'
      /\ UNCHANGED <<slots, wire, minted>>
  BY DEF ImportBegin, IInv, KeysSound, Types
<1>3. CASE pub \/ priv
  <2>1. /\ side \in {"pub", "priv"} /\ priv \in BOOLEAN /\ p[side] # None
        /\ priv => p.priv # None
    BY <1>3
  <2>2. Begin(k, "import", side, priv, p)
    BY <1>3 DEF ImportBegin
  <2> HIDE DEF side, priv
  <2> QED
    BY <1>1, <1>2, <2>1, <2>2, Begun DEF IInv
<1>4. CASE ~ (pub \/ priv)
  <2>1. call' = Idle
    BY <1>4 DEF ImportBegin
  <2>2. Types' /\ KeysSound'
    BY <1>2, <2>1, KeysStay DEF IInv, Types
  <2> QED
    BY <1>2, <2>1, <2>2 DEF IInv, Proper, Legit
<1> QED
  BY <1>3, <1>4

LEMMA DecodeStep ==
    ASSUME IInv, NEW k \in Keys, NEW name \in {"spki", "pki"},
           NEW p \in Foreign \union {wire}, DecodeBegin(k, name, p)
    PROVE  IInv'
<1> DEFINE side == IF name = "pki" THEN "priv" ELSE "pub"
<1>1. p \in Params /\ Proper(p)
  BY OfferedProper
<1>2. /\ slots[k] = EmptyKey
      /\ k \in live' /\ live' \subseteq Keys /\ live \subseteq live'
      /\ UNCHANGED <<slots, wire, minted>>
      /\ side \in {"pub", "priv"} /\ p[side] # None
      /\ name = "pki" => side = "priv"
      /\ Begin(k, name, side, FALSE, p)
  BY DEF DecodeBegin, IInv, KeysSound, Types
<1> HIDE DEF side
<1> QED
  BY <1>1, <1>2, Begun DEF IInv

(* The destination gets whole sides of the source; with both, it can do    *)
(* what the source can.                                                    *)
Duplicate(src, pub, priv) ==
    [mldsa_pubkey    |-> IF pub THEN src.mldsa_pubkey ELSE NULL,
     mldsa_privkey   |-> IF priv THEN src.mldsa_privkey ELSE NULL,
     classic_pubkey  |-> IF pub THEN src.classic_pubkey ELSE NULL,
     classic_privkey |-> IF priv THEN src.classic_privkey ELSE NULL,
     has_private     |-> src.has_private]

LEMMA DuplicateSound ==
    ASSUME NEW src \in Slots, Sound(src), NEW pub \in BOOLEAN, NEW priv \in BOOLEAN,
           WholeDup => pub /\ priv = src.has_private
    PROVE  Duplicate(src, pub, priv) \in Slots /\ Sound(Duplicate(src, pub, priv))
<1> DEFINE dst == Duplicate(src, pub, priv)
<1>1. /\ dst.mldsa_pubkey = (IF pub THEN src.mldsa_pubkey ELSE NULL)
      /\ dst.classic_pubkey = (IF pub THEN src.classic_pubkey ELSE NULL)
      /\ dst.mldsa_privkey = (IF priv THEN src.mldsa_privkey ELSE NULL)
      /\ dst.classic_privkey = (IF priv THEN src.classic_privkey ELSE NULL)
      /\ dst.has_private = src.has_private
  BY DEF Duplicate
<1>2. dst \in Slots
  BY DEF Duplicate, Slots
<1> HIDE DEF dst
<1>3. Sound(dst)
  BY <1>1 DEF Sound, Matched
<1> QED
  BY <1>2, <1>3 DEF dst

LEMMA DupIs ==
    ASSUME IInv, NEW j \in Keys, NEW k \in Keys, NEW sel \in DupSelections, Dup(j, k, sel)
    PROVE  \E pub, priv \in BOOLEAN :
              /\ slots' = [slots EXCEPT ![k] = Duplicate(slots[j], pub, priv)]
              /\ priv => slots[j].has_private
              /\ WholeDup => pub /\ priv = slots[j].has_private
<1>1. slots[j].has_private \in BOOLEAN
  BY DEF IInv, Types, Slots
<1>2. PICK pub \in BOOLEAN : pub <=> "PUBLIC_KEY" \in sel
  <2>1. CASE "PUBLIC_KEY" \in sel
    BY <2>1
  <2>2. CASE "PUBLIC_KEY" \notin sel
    BY <2>2
  <2> QED
    BY <2>1, <2>2
<1>3. PICK priv \in BOOLEAN : priv <=> "PRIVATE_KEY" \in sel /\ slots[j].has_private
  <2>1. CASE "PRIVATE_KEY" \in sel /\ slots[j].has_private
    BY <2>1
  <2>2. CASE ~ ("PRIVATE_KEY" \in sel /\ slots[j].has_private)
    BY <2>2
  <2> QED
    BY <2>1, <2>2
<1>4. slots' = [slots EXCEPT ![k] = Duplicate(slots[j], pub, priv)]
  BY <1>2, <1>3 DEF Dup, Duplicate
<1>5. WholeDup => pub /\ priv = slots[j].has_private
  BY <1>1, <1>2, <1>3 DEF WholeDup
<1> QED
  BY <1>3, <1>4, <1>5

LEMMA DupStep ==
    ASSUME IInv, NEW j \in Keys, NEW k \in Keys, NEW sel \in DupSelections, Dup(j, k, sel)
    PROVE  IInv'
<1>1. Sound(slots[j]) /\ slots[j] \in Slots
  BY DEF IInv, KeysSound, Types
<1>2. PICK d \in Slots : Sound(d) /\ slots' = [slots EXCEPT ![k] = d]
  BY <1>1, DupIs, DuplicateSound
<1>3. /\ live' = live \union {k} /\ call' = Idle
      /\ UNCHANGED <<wire, minted>>
  BY DEF Dup
<1>4. Sound(d)'
  BY <1>2, <1>3, SoundLater
<1>5. KeysSound' /\ slots' \in [Keys -> Slots]
  BY <1>2, <1>3, <1>4, KeyChange DEF IInv, Types
<1> QED
  BY <1>3, <1>5 DEF IInv, Types, Proper, Legit

LEMMA ExportStep ==
    ASSUME IInv, NEW k \in Keys, NEW sel \in Selections, Export(k, sel)
    PROVE  IInv'
<1> DEFINE s == slots[k]
<1>1. Sound(s) /\ s \in Slots
  BY DEF IInv, KeysSound, Types
<1>2. CASE "PUBLIC_KEY" \in sel
  <2>1. /\ s.mldsa_pubkey # NULL
        /\ wire' = [pub |-> Pair(s.mldsa_pubkey, s.classic_pubkey), priv |-> None]
    BY <1>2 DEF Export, CanEncodePublic, Exported, VerifyWith, CompositeOf, Pair
  <2>2. /\ Pair(s.mldsa_pubkey, s.classic_pubkey) \in Legit
        /\ s.mldsa_pubkey \in Mldsa /\ s.classic_pubkey \in Classic
    BY <1>1, <2>1 DEF Sound, Matched, Slots
  <2>3. Pair(s.mldsa_pubkey, s.classic_pubkey) \in Composites
    BY <2>2 DEF Pair, Mldsa, Classic, Composites
  <2> QED
    BY <2>1, <2>2, <2>3, KeysStay DEF Export, IInv, Types, Params, Proper, Legit
<1>3. CASE "PUBLIC_KEY" \notin sel
  <2> DEFINE m == IF s.mldsa_privkey # NULL THEN s.mldsa_privkey ELSE s.mldsa_pubkey
             c == IF s.classic_privkey # NULL THEN s.classic_privkey
                                              ELSE s.classic_pubkey
  <2>1. /\ m # NULL /\ c # NULL
        /\ wire' = [pub |-> None, priv |-> Pair(m, c)]
    BY <1>3 DEF Export, CanEncodePrivate, Exported, SignWith, CompositeOf, Pair
  <2>2. Pair(m, c) \in Legit /\ m \in Mldsa /\ c \in Classic
    BY <1>1, <2>1 DEF Sound, Matched, Slots
  <2> HIDE DEF m, c
  <2>3. Pair(m, c) \in Composites
    BY <2>2 DEF Pair, Mldsa, Classic, Composites
  <2> QED
    BY <2>1, <2>2, <2>3, KeysStay DEF Export, IInv, Types, Params, Proper, Legit
<1> QED
  BY <1>2, <1>3

-----------------------------------------------------------------------------
(* Steps of a call.                                                        *)

LEMMA CallTypes ==
    ASSUME IInv, call # Idle
    PROVE  /\ call \in Calls /\ call.key \in Keys /\ Working
           /\ slots[call.key] \in Slots /\ Sound(slots[call.key])
BY DEF IInv, Types, Calls, KeysSound, Working

LEMMA BuildMldsaStep == ASSUME IInv, BuildMldsa PROVE IInv'
<1>1. call # Idle /\ call.pc = "mldsa"
  BY DEF BuildMldsa
<1>2. call \in Calls /\ Working
  BY <1>1, CallTypes
<1>3. PICK pair \in MldsaPairs :
          /\ ~ Generating => pair = call.params[call.side].mldsa
          /\ call' = [call EXCEPT !.pc = "classic",
                        !.mldsa = [pair |-> pair,
                                   private |-> Generating \/ call.side = "priv"]]
  BY DEF BuildMldsa
<1>4. call' \in Calls
  BY <1>2, <1>3 DEF Calls, Mldsa
<1>5. Types' /\ KeysSound'
  BY <1>4, KeysStay DEF IInv, BuildMldsa, Types
<1>6. [pair |-> pair, private |-> Generating \/ call.side = "priv"] # NULL
  <2>1. [pair |-> pair, private |-> Generating \/ call.side = "priv"] \in Mldsa
    BY <1>2 DEF Mldsa
  <2>2. NULL \notin Mldsa
    BY SigKeyAssumption DEF SigKeyAssumption
  <2> QED
    BY <2>1, <2>2
<1>7. /\ call'.name = call.name /\ call'.key = call.key /\ call'.side = call.side
      /\ call'.priv = call.priv /\ call'.params = call.params
      /\ call'.pc = "classic"
      /\ call'.mldsa = [pair |-> pair, private |-> Generating \/ call.side = "priv"]
  BY <1>2, <1>3 DEF Calls
<1>8. slots' = slots /\ live' = live /\ wire' = wire /\ minted' = minted
  BY DEF BuildMldsa
<1>9. Generating' <=> Generating
  BY <1>7 DEF Generating
<1>10. Progress(slots[call.key])'
  BY <1>1, <1>2, <1>7, <1>8 DEF Working, Progress
<1>11. Proper(call.params)' /\ Proper(wire)'
  BY <1>2, <1>7, <1>8 DEF IInv, Working, Proper, Legit
<1>12. Working'
  BY <1>2, <1>3, <1>6, <1>7, <1>8, <1>9, <1>10, <1>11 DEF Working
<1> QED
  BY <1>5, <1>8, <1>11, <1>12 DEF IInv

(* What a decode has built is the composite that its parameter encodes.    *)
LEMMA BuiltHalf ==
    ASSUME IInv, call # Idle, call.pc = "classic", ~ Generating,
           NEW pair, pair = call.params[call.side].classic
    PROVE  /\ [mldsa |-> call.mldsa.pair, classic |-> pair] = call.params[call.side]
           /\ call.params[call.side] \in Legit
<1>1. call \in Calls /\ Working
  BY CallTypes
<1>2. call.params[call.side] # None /\ call.mldsa.pair = call.params[call.side].mldsa
  BY <1>1 DEF Working
<1>3. call.params \in Params /\ call.side \in {"pub", "priv"}
  BY <1>1 DEF Calls
<1>4. call.params[call.side] \in Composites
  BY <1>2, <1>3 DEF Params
<1>5. call.params[call.side] \in Legit
  BY <1>1, <1>2, <1>3 DEF Working, Proper
<1> QED
  BY <1>2, <1>4, <1>5 DEF Composites

(* Both halves installed on the public side: the key was empty.            *)
LEMMA PublicInstalled ==
    ASSUME IInv, call # Idle, call.pc = "classic", call.side = "pub",
           NEW c \in Classic, c.private = call.mldsa.private,
           ~ Generating => c.pair = call.params.pub.classic,
           minted' = IF Generating THEN minted \union {Pair(call.mldsa, c)} ELSE minted
    PROVE  \E t \in Slots :
              /\ t = Installed(slots[call.key], call.mldsa, c)
              /\ t.mldsa_privkey = NULL /\ t.classic_privkey = NULL
              /\ t.mldsa_pubkey # NULL /\ t.classic_pubkey # NULL
              /\ t.mldsa_pubkey = call.mldsa /\ t.classic_pubkey = c
              /\ t.has_private <=> call.name = "gen"
              /\ ~ Generating =>
                    /\ Pair(t.mldsa_pubkey, t.classic_pubkey) = call.params.pub
                    /\ ~ t.mldsa_pubkey.private /\ ~ t.has_private
              /\ Sound(t)'
<1>1. call \in Calls /\ Working
  BY CallTypes
<1>2. slots[call.key] = EmptyKey
  BY <1>1 DEF Working, Progress
<1>3. call.mldsa \in Mldsa /\ c # NULL
  BY <1>1, SigKeyAssumption DEF Calls, Working, SigKeyAssumption
<1>4. PICK m \in Mldsa : m = call.mldsa
  BY <1>3
<1>5. m # NULL
  BY <1>1, <1>4 DEF Working
<1>6. Pair(m, c) \in Legit'
  <2>1. CASE Generating
    BY <1>4, <2>1 DEF Legit
  <2>2. CASE ~ Generating
    BY <1>4, <2>2, BuiltHalf DEF Pair, Legit
  <2> QED
    BY <2>1, <2>2
<1>7. ~ Generating => Pair(m, c) = call.params.pub
  BY <1>4, BuiltHalf DEF Pair
<1>8. /\ call.name = "gen" => m.private
      /\ m.private = c.private
      /\ ~ Generating => ~ m.private /\ call.name # "gen"
  BY <1>1, <1>4 DEF Working, Generating
<1>9. PICK b \in BOOLEAN : b = (call.name = "gen")
  OBVIOUS
<1> DEFINE t == [mldsa_pubkey |-> m, mldsa_privkey |-> NULL, classic_pubkey |-> c,
                 classic_privkey |-> NULL, has_private |-> b]
<1>10. t = Installed(slots[call.key], call.mldsa, c)
  <2>1. (EmptyKey.has_private \/ call.name = "gen") = b
    BY <1>9 DEF EmptyKey
  <2>2. Installed(EmptyKey, m, c) =
           [EmptyKey EXCEPT !.mldsa_pubkey = m, !.classic_pubkey = c, !.has_private = b]
    BY <2>1 DEF Installed
  <2> QED
    BY <1>2, <1>4, <2>2 DEF EmptyKey
<1>11. t \in Slots
  BY DEF Slots
<1>12. Sound(t)'
  BY <1>3, <1>5, <1>6, <1>8, <1>9 DEF Sound, Matched
<1> QED
  BY <1>3, <1>4, <1>5, <1>7, <1>8, <1>9, <1>10, <1>11, <1>12

(* Both halves installed on the private side, next to public halves that   *)
(* the same call may have installed.                                       *)
LEMMA PrivateInstalled ==
    ASSUME IInv, call # Idle, call.pc = "classic", call.side = "priv",
           NEW c \in Classic, c.private = call.mldsa.private,
           c.pair = call.params.priv.classic, minted' = minted
    PROVE  \E t \in Slots :
              /\ t = Installed(slots[call.key], call.mldsa, c)
              /\ t.mldsa_privkey # NULL /\ t.classic_privkey # NULL
              /\ t.has_private /\ t.mldsa_privkey.private
              /\ Pair(t.mldsa_privkey, t.classic_privkey) = call.params.priv
              /\ t.mldsa_pubkey = slots[call.key].mldsa_pubkey
              /\ t.classic_pubkey = slots[call.key].classic_pubkey
              /\ call.name = "pki" => t.mldsa_pubkey = NULL /\ t.classic_pubkey = NULL
              /\ Sound(t)'
<1>1. call \in Calls /\ Working /\ slots[call.key] \in Slots /\ ~ Generating
  BY CallTypes DEF Working
<1>2. call.mldsa \in Mldsa /\ c # NULL
  BY <1>1, SigKeyAssumption DEF Calls, Working, SigKeyAssumption
<1>3. PICK m \in Mldsa : m = call.mldsa
  BY <1>2
<1>4. PICK s \in Slots : s = slots[call.key]
  BY <1>1
<1>5. m # NULL /\ m.private /\ c.private
  BY <1>1, <1>3 DEF Working
<1>6. Pair(m, c) = call.params.priv /\ Pair(m, c) \in Legit'
  BY <1>1, <1>3, BuiltHalf DEF Pair, Legit
<1>7. /\ Matched(s.mldsa_pubkey, s.classic_pubkey)'
      /\ s.mldsa_pubkey # NULL =>
            s.mldsa_pubkey.private = s.classic_pubkey.private /\ ~ s.mldsa_pubkey.private
  BY <1>1, <1>4, CallTypes DEF Sound, Matched, Legit, Working, Progress, EmptyKey
<1>8. s.mldsa_pubkey # NULL =>
          /\ Pair(s.mldsa_pubkey, s.classic_pubkey) = call.params.pub
          /\ call.params.pub # None
  <2>1. SUFFICES ASSUME s.mldsa_pubkey # NULL
                 PROVE  /\ Pair(s.mldsa_pubkey, s.classic_pubkey) = call.params.pub
                        /\ call.params.pub # None
    OBVIOUS
  <2>2. Pair(s.mldsa_pubkey, s.classic_pubkey) = call.params.pub
    BY <1>1, <1>4, <2>1 DEF Working, Progress, EmptyKey
  <2>3. s.mldsa_pubkey \in Mldsa /\ s.classic_pubkey \in Classic
    BY <1>7, <2>1 DEF Matched, Slots
  <2>4. Pair(s.mldsa_pubkey, s.classic_pubkey) \in Composites
    BY <2>3 DEF Pair, Mldsa, Classic, Composites
  <2> QED
    BY <2>2, <2>4, SigKeyAssumption DEF SigKeyAssumption
<1>9. s.mldsa_pubkey # NULL =>
          [pub |-> Pair(s.mldsa_pubkey, s.classic_pubkey), priv |-> Pair(m, c)] \in Foreign
  <2>1. SUFFICES ASSUME s.mldsa_pubkey # NULL
                 PROVE  [pub |-> call.params.pub, priv |-> call.params.priv] \in Foreign
    BY <1>6, <1>8
  <2>2. call.params \in Foreign
    BY <1>1, <1>8, <2>1 DEF Working, Proper
  <2>3. call.params = [pub |-> call.params.pub, priv |-> call.params.priv]
    BY <1>1 DEF Calls, Params
  <2> QED
    BY <2>2, <2>3
<1> DEFINE t == [s EXCEPT !.mldsa_privkey = m, !.classic_privkey = c,
                          !.has_private = TRUE]
<1>10. t = Installed(slots[call.key], call.mldsa, c)
  BY <1>3, <1>4 DEF Installed
<1>11. /\ t \in Slots /\ t.has_private
       /\ t.mldsa_privkey = m /\ t.classic_privkey = c
       /\ t.mldsa_pubkey = s.mldsa_pubkey /\ t.classic_pubkey = s.classic_pubkey
  BY DEF Slots
<1> HIDE DEF t
<1>12. Sound(t)'
  BY <1>2, <1>5, <1>6, <1>7, <1>9, <1>11 DEF Sound, Matched
<1>13. call.name = "pki" => t.mldsa_pubkey = NULL /\ t.classic_pubkey = NULL
  BY <1>1, <1>4, <1>11 DEF Working, Progress, EmptyKey
<1> QED
  BY <1>2, <1>4, <1>5, <1>6, <1>10, <1>11, <1>12, <1>13

(* What the end of a call leaves in the slots.                             *)
Completed(t, c) ==
    /\ slots' = [slots EXCEPT ![call.key] = t]
    /\ minted' = IF Generating THEN minted \union {Pair(call.mldsa, c)} ELSE minted
    /\ minted \subseteq minted' /\ minted' \subseteq Composites
    /\ Generating => Fresh(c.pair)
    /\ Sound(t)'
    /\ call.side = "pub" =>
          /\ t.mldsa_privkey = NULL /\ t.classic_privkey = NULL
          /\ t.mldsa_pubkey # NULL /\ t.classic_pubkey # NULL
          /\ t.mldsa_pubkey = call.mldsa /\ t.classic_pubkey = c
          /\ t.has_private <=> call.name = "gen"
          /\ ~ Generating =>
                /\ Pair(t.mldsa_pubkey, t.classic_pubkey) = call.params.pub
                /\ ~ t.mldsa_pubkey.private /\ ~ t.has_private
    /\ call.side = "priv" =>
          /\ t.mldsa_privkey # NULL /\ t.classic_privkey # NULL
          /\ t.has_private /\ t.mldsa_privkey.private
          /\ Pair(t.mldsa_privkey, t.classic_privkey) = call.params.priv
          /\ t.mldsa_pubkey = slots[call.key].mldsa_pubkey
          /\ t.classic_pubkey = slots[call.key].classic_pubkey
    /\ call.name = "pki" =>
          /\ t.mldsa_privkey # NULL /\ t.classic_privkey # NULL
          /\ t.mldsa_pubkey = NULL /\ t.classic_pubkey = NULL

LEMMA BuildClassicIs ==
    ASSUME IInv, BuildClassic
    PROVE  \E t \in Slots, c \in Classic : Completed(t, c)
<1>1. call # Idle /\ call.pc = "classic"
  BY DEF BuildClassic
<1>2. /\ call \in Calls /\ call.key \in Keys /\ Working
      /\ call.params \in Params /\ call.side \in {"pub", "priv"}
  BY <1>1, CallTypes DEF Calls
<1>3. PICK pair \in ClassicPairs :
          /\ IF Generating THEN Fresh(pair) ELSE pair = call.params[call.side].classic
          /\ slots' = [slots EXCEPT ![call.key] =
                Installed(@, call.mldsa, [pair |-> pair, private |-> call.mldsa.private])]
          /\ minted' = IF Generating
                       THEN minted \union {[mldsa |-> call.mldsa.pair, classic |-> pair]}
                       ELSE minted
  BY DEF BuildClassic
<1>4. PICK c \in Classic :
          c = [pair |-> pair, private |-> call.mldsa.private]
  <2>1. call.mldsa.private \in BOOLEAN
    BY <1>1, <1>2 DEF Working, Calls, Mldsa
  <2> QED
    BY <2>1 DEF Classic
<1>5. /\ minted' = IF Generating THEN minted \union {Pair(call.mldsa, c)} ELSE minted
      /\ minted \subseteq minted'
      /\ minted' \subseteq Composites
  <2>1. call.mldsa.pair \in MldsaPairs
    BY <1>1, <1>2 DEF Working, Calls, Mldsa
  <2> QED
    BY <1>3, <1>4, <2>1 DEF Pair, IInv, Types, Composites
<1>6. CASE call.side = "pub"
  <2>1. /\ call.name # "pki"
        /\ c.private = call.mldsa.private
        /\ ~ Generating => c.pair = call.params.pub.classic
    BY <1>2, <1>3, <1>4, <1>6 DEF Working
  <2>2. PICK t \in Slots :
          /\ t = Installed(slots[call.key], call.mldsa, c)
          /\ t.mldsa_privkey = NULL /\ t.classic_privkey = NULL
          /\ t.mldsa_pubkey # NULL /\ t.classic_pubkey # NULL
          /\ t.mldsa_pubkey = call.mldsa /\ t.classic_pubkey = c
          /\ t.has_private <=> call.name = "gen"
          /\ ~ Generating =>
                /\ Pair(t.mldsa_pubkey, t.classic_pubkey) = call.params.pub
                /\ ~ t.mldsa_pubkey.private /\ ~ t.has_private
          /\ Sound(t)'
    BY <1>1, <1>5, <1>6, <2>1, PublicInstalled
  <2>3. slots' = [slots EXCEPT ![call.key] = t]
    BY <1>3, <1>4, <2>2
  <2>4. Generating => Fresh(c.pair)
    BY <1>3, <1>4
  <2> QED
    BY <1>5, <1>6, <2>1, <2>2, <2>3, <2>4 DEF Completed
<1>7. CASE call.side = "priv"
  <2>1. ~ Generating
    BY <1>2, <1>7 DEF Working
  <2>2. PICK t \in Slots :
          /\ t = Installed(slots[call.key], call.mldsa, c)
          /\ t.mldsa_privkey # NULL /\ t.classic_privkey # NULL
          /\ t.has_private /\ t.mldsa_privkey.private
          /\ Pair(t.mldsa_privkey, t.classic_privkey) = call.params.priv
          /\ t.mldsa_pubkey = slots[call.key].mldsa_pubkey
          /\ t.classic_pubkey = slots[call.key].classic_pubkey
          /\ call.name = "pki" => t.mldsa_pubkey = NULL /\ t.classic_pubkey = NULL
          /\ Sound(t)'
    BY <1>1, <1>3, <1>4, <1>5, <1>7, <2>1, PrivateInstalled
  <2>3. slots' = [slots EXCEPT ![call.key] = t]
    BY <1>3, <1>4, <2>2
  <2> QED
    BY <1>5, <1>7, <2>1, <2>2, <2>3 DEF Completed
<1> QED
  BY <1>2, <1>6, <1>7

LEMMA BuildClassicStep == ASSUME IInv, BuildClassic PROVE IInv'
<1>1. /\ call # Idle /\ call.pc = "classic"
      /\ UNCHANGED <<live, wire>>
  BY DEF BuildClassic
<1>2. /\ call \in Calls /\ call.key \in Keys /\ Working
      /\ call.params \in Params /\ call.side \in {"pub", "priv"}
  BY <1>1, CallTypes DEF Calls
<1>3. PICK t \in Slots, c \in Classic : Completed(t, c)
  BY BuildClassicIs
<1>4. minted \subseteq minted' /\ minted' \subseteq Composites /\ Sound(t)'
  BY <1>3 DEF Completed
<1>5. slots' = [slots EXCEPT ![call.key] = t]
  BY <1>3 DEF Completed
<1>6. KeysSound' /\ slots' \in [Keys -> Slots] /\ slots'[call.key] = t
  BY <1>1, <1>2, <1>4, <1>5, KeyChange DEF IInv, Types, Working
<1>7. CASE call' = Idle
  <2>1. Types'
    BY <1>1, <1>4, <1>6, <1>7 DEF IInv, Types
  <2>2. Proper(wire)'
    BY <1>1, <1>4 DEF IInv, Proper, Legit
  <2> QED
    BY <1>1, <1>6, <1>7, <2>1, <2>2 DEF IInv
<1>8. CASE call' # Idle
  <2>1. \/ /\ call.name = "import" /\ call.side = "pub" /\ call.priv
           /\ call' = [call EXCEPT !.pc = "mldsa", !.side = "priv", !.mldsa = NULL]
        \/ /\ call.name = "pki"
           /\ call' = [call EXCEPT !.pc = "derive", !.mldsa = NULL]
    BY <1>8 DEF BuildClassic
  <2>2. Types'
    BY <1>1, <1>2, <1>4, <1>6, <2>1 DEF IInv, Types, Calls
  <2>3. Proper(wire)'
    BY <1>1, <1>4 DEF IInv, Proper, Legit
  <2>4. /\ call'.key = call.key /\ call'.params = call.params
        /\ call'.name = call.name /\ call'.priv = call.priv
        /\ call'.mldsa = NULL
    BY <1>2, <2>1 DEF Calls
  <2>5. Proper(call.params)'
    BY <1>2, <1>4, <2>4 DEF Working, Proper, Legit
  <2>6. CASE call'.pc = "derive"
    <3>1. call.name = "pki" /\ call'.side = call.side
      BY <1>2, <2>1, <2>6 DEF Calls
    <3>2. Progress(slots[call.key])'
      BY <1>2, <1>3, <1>6, <2>4, <2>6, <3>1 DEF Progress, Completed, Working
    <3> QED
      BY <1>1, <1>2, <1>6, <2>2, <2>3, <2>4, <2>5, <2>6, <3>1, <3>2
         DEF IInv, Working, Generating
  <2>7. CASE call'.pc # "derive"
    <3>1. /\ call.name = "import" /\ call.side = "pub" /\ call.priv
          /\ call'.pc = "mldsa" /\ call'.side = "priv"
      BY <1>2, <2>1, <2>7 DEF Calls
    <3>2. Progress(slots[call.key])'
      BY <1>3, <1>6, <2>4, <3>1 DEF Progress, Generating, Completed
    <3> QED
      BY <1>1, <1>2, <1>6, <2>2, <2>3, <2>4, <2>5, <2>7, <3>1, <3>2
         DEF IInv, Working, Generating
  <2> QED
    BY <2>6, <2>7
<1> QED
  BY <1>7, <1>8

LEMMA DeriveStep == ASSUME IInv, Derive PROVE IInv'
<1>1. /\ call # Idle /\ call.pc = "derive" /\ call' = Idle
      /\ UNCHANGED <<live, wire, minted>>
  BY DEF Derive
<1>2. /\ call \in Calls /\ call.key \in Keys /\ Working
      /\ slots[call.key] \in Slots /\ Sound(slots[call.key])
  BY <1>1, CallTypes
<1>3. PICK s \in Slots : s = slots[call.key]
  BY <1>2
<1> DEFINE t == [s EXCEPT !.mldsa_pubkey = s.mldsa_privkey,
                          !.classic_pubkey = s.classic_privkey]
<1>4. s.mldsa_privkey # NULL /\ s.classic_privkey # NULL
  BY <1>1, <1>2, <1>3 DEF Working, Progress
<1>5. /\ t.mldsa_pubkey = s.mldsa_privkey /\ t.classic_pubkey = s.classic_privkey
      /\ t.mldsa_privkey = s.mldsa_privkey /\ t.classic_privkey = s.classic_privkey
      /\ t.has_private = s.has_private
      /\ t \in Slots
  <2>1. s.mldsa_privkey \in Mldsa /\ s.classic_privkey \in Classic
    BY <1>4 DEF Slots
  <2> QED
    BY <2>1 DEF Slots
<1>6. slots' = [slots EXCEPT ![call.key] = t]
  BY <1>2, <1>3 DEF Derive, IInv, Types
<1> HIDE DEF t
<1>7. Sound(t)'
  BY <1>1, <1>2, <1>3, <1>4, <1>5 DEF Sound, Matched, Legit
<1>8. KeysSound' /\ slots' \in [Keys -> Slots]
  BY <1>1, <1>2, <1>5, <1>6, <1>7, KeyChange DEF IInv, Types, Working
<1> QED
  BY <1>1, <1>8 DEF IInv, Types, Proper, Legit

LEMMA FailStep == ASSUME IInv, Fail PROVE IInv'
<1>1. /\ call # Idle /\ call' = Idle
      /\ UNCHANGED <<wire, minted>>
  BY DEF Fail
<1>2. /\ call.key \in Keys /\ Working
  BY <1>1, CallTypes
<1>3. KeysSound' /\ slots' \in [Keys -> Slots] /\ live' \subseteq Keys
  <2>1. CASE call.name = "generate"
    BY <1>1, <2>1, KeysStay DEF Fail, IInv, Types
  <2>2. CASE call.name # "generate"
    <3>1. Sound(EmptyKey)' /\ EmptyKey \in Slots
      BY <1>1, EmptySound, SoundLater
    <3>2. /\ slots' = [slots EXCEPT ![call.key] = EmptyKey]
          /\ live' = live \ {call.key}
      BY <2>2 DEF Fail
    <3> QED
      BY <1>1, <1>2, <3>1, <3>2, KeyChange DEF IInv, Types
  <2> QED
    BY <2>1, <2>2
<1> QED
  BY <1>1, <1>3 DEF IInv, Types, Proper, Legit

LEMMA StepIInv ==
    ASSUME IInv, [Next]_vars
    PROVE  IInv'
<1>1. CASE Next
  <2>1. ASSUME NEW k \in Keys, NEW sel \in Selections, NEW p \in Foreign \union {wire},
               ImportBegin(k, sel, p)
        PROVE  IInv'
    BY <2>1, ImportStep
  <2>2. ASSUME NEW k \in Keys, NEW name \in {"spki", "pki"},
               NEW p \in Foreign \union {wire}, DecodeBegin(k, name, p)
        PROVE  IInv'
    BY <2>2, DecodeStep
  <2>3. ASSUME NEW k \in Keys, NEW j \in Keys, NEW sel \in DupSelections, Dup(j, k, sel)
        PROVE  IInv'
    BY <2>3, DupStep
  <2>4. ASSUME NEW k \in Keys, NEW sel \in Selections, Export(k, sel)
        PROVE  IInv'
    BY <2>4, ExportStep
  <2>5. ASSUME NEW k \in Keys, New(k) \/ Free(k) \/ GenBegin(k) \/ GenerateBegin(k)
        PROVE  IInv'
    BY <2>5, NewStep, FreeStep, GenStep
  <2> QED
    BY <1>1, <2>1, <2>2, <2>3, <2>4, <2>5,
       BuildMldsaStep, BuildClassicStep, DeriveStep, FailStep DEF Next
<1>2. CASE UNCHANGED vars
  <2>1. call # Idle => Working'
    BY <1>2 DEF vars, IInv, Working, Progress, Proper, Legit, Generating
  <2> QED
    BY <1>2, <2>1, KeysStay DEF vars, IInv, Types, Proper, Legit
<1> QED
  BY <1>1, <1>2

(* IInv holds in every reachable state.                                    *)
THEOREM Invariance == Spec => []IInv
<1>1. IInv /\ [Next]_vars => IInv'
  BY StepIInv
<1> QED
  BY <1>1, InitIInv, PTL DEF Spec

(* The halves of a key, and of what it exports, go together.               *)
THEOREM HalvesTogetherHolds == Spec => []HalvesTogether
<1>1. ASSUME IInv PROVE HalvesTogether
  <2>1. {wire.pub, wire.priv} \subseteq Legit \union {None}
    BY <1>1 DEF IInv, Proper
  <2>2. \A k \in Keys : Sound(slots[k])
    BY <1>1 DEF IInv, KeysSound
  <2> QED
    BY <2>1, <2>2 DEF HalvesTogether, VerifyWith, CompositeOf, Sound, Matched, Pair
<1> QED
  BY <1>1, Invariance, PTL

(* A key that has_private calls private can sign with both its halves.     *)
THEOREM PrivateIsUsableHolds == ASSUME WholeDup PROVE Spec => []PrivateIsUsable
<1>1. ASSUME IInv, WholeDup PROVE PrivateIsUsable
  <2>1. \A k \in Keys : Sound(slots[k])
    BY <1>1 DEF IInv, KeysSound
  <2> QED
    BY <2>1 DEF PrivateIsUsable, composite_has, SignWith, Sound, Matched
<1>2. IInv => PrivateIsUsable
  BY <1>1, WholeDup
<1> QED
  BY <1>2, Invariance, PTL

(* A key with a public half signs with the composite that it verifies      *)
(* with, and reaches for two halves of it, although composite_sig_sign     *)
(* takes either from the private or from the public slot: unless a caller  *)
(* imports a pair whose sides disagree, which nothing compares.  SigOps    *)
(* relies on this: a key is one composite there.                           *)
Agreeing ==
    \A p \in Foreign : p.pub # None /\ p.priv # None => p.pub = p.priv

SignsAsVerifies ==
    \A k \in Keys :
        LET sign   == SignWith(slots[k])
            verify == VerifyWith(slots[k])
        IN  verify.mldsa # NULL =>
                /\ sign.mldsa # NULL /\ sign.classic # NULL
                /\ CompositeOf(sign) = CompositeOf(verify)

THEOREM SignsAsVerifiesHolds == ASSUME Agreeing PROVE Spec => []SignsAsVerifies
<1>1. ASSUME IInv, Agreeing PROVE SignsAsVerifies
  <2>1. SUFFICES ASSUME NEW k \in Keys, slots[k].mldsa_pubkey # NULL
                 PROVE  LET sign == SignWith(slots[k])
                        IN  /\ sign.mldsa # NULL /\ sign.classic # NULL
                            /\ CompositeOf(sign) = CompositeOf(VerifyWith(slots[k]))
    BY DEF SignsAsVerifies, VerifyWith
  <2>2. Sound(slots[k]) /\ slots[k] \in Slots
    BY <1>1 DEF IInv, KeysSound, Types
  <2>3. CASE slots[k].mldsa_privkey = NULL
    BY <2>1, <2>2, <2>3 DEF Sound, Matched, SignWith, VerifyWith
  <2>4. CASE slots[k].mldsa_privkey # NULL
    <3> DEFINE pub  == Pair(slots[k].mldsa_pubkey, slots[k].classic_pubkey)
               priv == Pair(slots[k].mldsa_privkey, slots[k].classic_privkey)
    <3>1. /\ slots[k].classic_privkey # NULL /\ slots[k].classic_pubkey # NULL
          /\ pub = priv \/ [pub |-> pub, priv |-> priv] \in Foreign
      BY <2>1, <2>2, <2>4 DEF Sound, Matched
    <3>2. pub \in Composites /\ priv \in Composites
      BY <2>1, <2>2, <2>4, <3>1 DEF Slots, Mldsa, Classic, Pair, Composites
    <3>3. pub # None /\ priv # None
      BY <3>2, SigKeyAssumption DEF SigKeyAssumption
    <3> HIDE DEF pub, priv
    <3>4. pub = priv
      BY <1>1, <3>1, <3>3 DEF Agreeing
    <3> QED
      BY <2>4, <3>1, <3>4 DEF pub, priv, Pair, SignWith, VerifyWith, CompositeOf
  <2> QED
    BY <2>3, <2>4
<1>2. IInv => SignsAsVerifies
  BY <1>1, Agreeing
<1> QED
  BY <1>2, Invariance, PTL

-----------------------------------------------------------------------------
(* Counting the EVP_PKEY.                                                  *)

Owned == {at \in Keys \X SlotNames : slots[at[1]][at[2]] # NULL}
InHand == IF call # Idle /\ call.mldsa # NULL THEN 1 ELSE 0

LEMMA NamesFinite == IsFiniteSet(SlotNames)
<1>1. IsFiniteSet({"mldsa_pubkey"})
  BY FS_Singleton
<1>2. IsFiniteSet({"mldsa_pubkey"} \union {"mldsa_privkey"})
  BY <1>1, FS_AddElement
<1>3. IsFiniteSet({"mldsa_pubkey"} \union {"mldsa_privkey"} \union {"classic_pubkey"})
  BY <1>2, FS_AddElement
<1>4. IsFiniteSet({"mldsa_pubkey"} \union {"mldsa_privkey"} \union {"classic_pubkey"}
                  \union {"classic_privkey"})
  BY <1>3, FS_AddElement
<1>5. SlotNames = {"mldsa_pubkey"} \union {"mldsa_privkey"} \union {"classic_pubkey"}
                  \union {"classic_privkey"}
  BY DEF SlotNames
<1> QED
  BY <1>4, <1>5

LEMMA FilledFinite == \A s : IsFiniteSet(Filled(s)) /\ Cardinality(Filled(s)) \in Nat
<1>1. \A s : Filled(s) \in SUBSET SlotNames
  BY DEF Filled
<1> QED
  BY <1>1, NamesFinite, FS_Subset, FS_CardinalityType

LEMMA FilledEmpty == Filled(EmptyKey) = {} /\ Cardinality(Filled(EmptyKey)) = 0
<1>1. Filled(EmptyKey) = {}
  BY DEF Filled, EmptyKey, SlotNames
<1> QED
  BY <1>1, FS_EmptySet

LEMMA OwnedFinite == IsFiniteSet(Owned) /\ Cardinality(Owned) \in Nat
<1>1. IsFiniteSet(Keys \X SlotNames)
  BY NamesFinite, SigKeyAssumption, FS_Product DEF SigKeyAssumption
<1>2. Owned \in SUBSET (Keys \X SlotNames)
  BY DEF Owned
<1> QED
  BY <1>1, <1>2, FS_Subset, FS_CardinalityType

(* What a set of slots counts, apart from one key.                         *)
LEMMA OwnedSplit ==
    ASSUME NEW f, NEW k \in Keys
    PROVE  LET own == {at \in Keys \X SlotNames : f[at[1]][at[2]] # NULL}
               rest == {at \in (Keys \ {k}) \X SlotNames : f[at[1]][at[2]] # NULL}
           IN  Cardinality(own) = Cardinality(rest) + Cardinality(Filled(f[k]))
               /\ Cardinality(rest) \in Nat
<1> DEFINE own == {at \in Keys \X SlotNames : f[at[1]][at[2]] # NULL}
           rest == {at \in (Keys \ {k}) \X SlotNames : f[at[1]][at[2]] # NULL}
           mine == {k} \X Filled(f[k])
<1>1. own = rest \union mine /\ rest \intersect mine = {}
  BY DEF Filled
<1>2. IsFiniteSet(rest)
  <2>1. IsFiniteSet(Keys \X SlotNames)
    BY NamesFinite, SigKeyAssumption, FS_Product DEF SigKeyAssumption
  <2>2. rest \in SUBSET (Keys \X SlotNames)
    OBVIOUS
  <2> QED
    BY <2>1, <2>2, FS_Subset
<1>3. IsFiniteSet(mine) /\ Cardinality(mine) = Cardinality(Filled(f[k]))
  <2>1. IsFiniteSet({k}) /\ Cardinality({k}) = 1
    BY FS_Singleton
  <2>2. IsFiniteSet(mine) /\ Cardinality(mine) = 1 * Cardinality(Filled(f[k]))
    BY <2>1, FilledFinite, FS_Product
  <2> QED
    BY <2>2, FilledFinite
<1> HIDE DEF own, rest, mine
<1>4. Cardinality(own) = Cardinality(rest) + Cardinality(mine) - Cardinality({})
  BY <1>1, <1>2, <1>3, FS_Union
<1>5. Cardinality(rest) \in Nat
  BY <1>2, FS_CardinalityType
<1>6. Cardinality(own) = Cardinality(rest) + Cardinality(Filled(f[k]))
  BY <1>3, <1>4, <1>5, FilledFinite, FS_EmptySet
<1> QED
  BY <1>5, <1>6 DEF own, rest

(* One key changes: the objects change by what it has more, or less.       *)
LEMMA OwnedChange ==
    ASSUME slots \in [Keys -> Slots], NEW k \in Keys, NEW s,
           slots' = [slots EXCEPT ![k] = s]
    PROVE  Cardinality(Owned)' = Cardinality(Owned) - Cardinality(Filled(slots[k]))
                                                    + Cardinality(Filled(s))
<1> DEFINE rest(f) == {at \in (Keys \ {k}) \X SlotNames : f[at[1]][at[2]] # NULL}
<1>1. rest(slots') = rest(slots) /\ slots'[k] = s
  OBVIOUS
<1>2. /\ Cardinality(Owned) = Cardinality(rest(slots)) + Cardinality(Filled(slots[k]))
      /\ Cardinality(rest(slots)) \in Nat
  BY OwnedSplit DEF Owned
<1>3. Cardinality(Owned)' = Cardinality(rest(slots')) + Cardinality(Filled(slots'[k]))
  BY OwnedSplit DEF Owned
<1> HIDE DEF rest
<1> QED
  BY <1>1, <1>2, <1>3, FilledFinite

LEMMA InitOwnership == Init => Ownership
<1>1. SUFFICES ASSUME Init PROVE Ownership
  OBVIOUS
<1>2. Owned = {}
  BY <1>1 DEF Init, Owned, SlotNames, EmptyKey
<1> QED
  BY <1>1, <1>2, FS_EmptySet DEF Init, Ownership, Owned

(* Ownership, in the terms of the lemmas.                                  *)
Balance == pkeys = Cardinality(Owned) + InHand

LEMMA BalanceIsOwnership == Balance <=> Ownership
BY DEF Balance, Ownership, Owned, InHand

(* Two objects move into a key whose slots for them are empty.             *)
LEMMA TwoMore ==
    ASSUME NEW s, NEW t, NEW a \in SlotNames, NEW b \in SlotNames, a # b,
           a \notin Filled(s), b \notin Filled(s),
           Filled(t) = Filled(s) \union {a, b}
    PROVE  Cardinality(Filled(t)) = Cardinality(Filled(s)) + 2
<1>1. /\ IsFiniteSet(Filled(s) \union {a})
      /\ Cardinality(Filled(s) \union {a}) = Cardinality(Filled(s)) + 1
  BY FilledFinite, FS_AddElement
<1>2. Cardinality((Filled(s) \union {a}) \union {b}) =
         Cardinality(Filled(s) \union {a}) + 1
  BY <1>1, FS_AddElement
<1>3. Filled(t) = (Filled(s) \union {a}) \union {b}
  OBVIOUS
<1> QED
  BY <1>1, <1>2, <1>3, FilledFinite

LEMMA BeginBalance ==
    ASSUME IInv, Balance, NEW k \in Keys,
           \/ New(k) \/ GenBegin(k) \/ GenerateBegin(k)
           \/ \E sel \in Selections, p \in Foreign \union {wire} : ImportBegin(k, sel, p)
           \/ \E name \in {"spki", "pki"}, p \in Foreign \union {wire} :
                 DecodeBegin(k, name, p)
           \/ \E sel \in Selections : Export(k, sel)
    PROVE  Balance'
<1>1. /\ call = Idle /\ slots' = slots /\ pkeys' = pkeys
      /\ call' = Idle \/ call'.mldsa = NULL
  BY DEF New, GenBegin, GenerateBegin, ImportBegin, DecodeBegin, Export, Begin
<1>2. InHand = 0 /\ InHand' = 0
  BY <1>1 DEF InHand
<1> QED
  BY <1>1, <1>2 DEF Balance, Owned

LEMMA FreeBalance ==
    ASSUME IInv, Balance, NEW k \in Keys, Free(k) PROVE Balance'
<1>1. /\ slots \in [Keys -> Slots] /\ slots' = [slots EXCEPT ![k] = EmptyKey]
      /\ pkeys' = pkeys - Cardinality(Filled(slots[k]))
      /\ call = Idle /\ call' = Idle
  BY DEF Free, IInv, Types
<1>2. InHand = 0 /\ InHand' = 0
  BY <1>1 DEF InHand
<1>3. Cardinality(Owned)' = Cardinality(Owned) - Cardinality(Filled(slots[k])) + 0
  BY <1>1, OwnedChange, FilledEmpty
<1> QED
  BY <1>1, <1>2, <1>3, OwnedFinite, FilledFinite DEF Balance

LEMMA DupBalance ==
    ASSUME IInv, Balance, NEW j \in Keys, NEW k \in Keys,
           NEW sel \in DupSelections, Dup(j, k, sel)
    PROVE  Balance'
<1>1. /\ slots \in [Keys -> Slots] /\ slots[k] = EmptyKey
      /\ call = Idle /\ call' = Idle
  BY DEF Dup, IInv, Types, KeysSound
<1>2. \E d : /\ slots' = [slots EXCEPT ![k] = d]
             /\ pkeys' = pkeys + Cardinality(Filled(d))
  BY DEF Dup
<1>3. PICK d : /\ slots' = [slots EXCEPT ![k] = d]
               /\ pkeys' = pkeys + Cardinality(Filled(d))
  BY <1>2
<1>4. InHand = 0 /\ InHand' = 0
  BY <1>1 DEF InHand
<1>5. Cardinality(Owned)' = Cardinality(Owned) - 0 + Cardinality(Filled(d))
  BY <1>1, <1>3, OwnedChange, FilledEmpty
<1> QED
  BY <1>3, <1>4, <1>5, OwnedFinite, FilledFinite DEF Balance

LEMMA BuildMldsaBalance == ASSUME IInv, Balance, BuildMldsa PROVE Balance'
<1>1. call # Idle /\ call.pc = "mldsa" /\ call \in Calls /\ Working
  BY CallTypes DEF BuildMldsa
<1>2. InHand = 0
  BY <1>1 DEF InHand, Working
<1>3. IInv'
  BY BuildMldsaStep
<1>4. call'.pc = "classic" /\ call'.name # "none"
  BY <1>1 DEF BuildMldsa, Calls
<1>5. call' # Idle
  BY <1>4 DEF Idle
<1>6. InHand' = 1
  BY <1>3, <1>4, <1>5 DEF IInv, Working, InHand
<1>7. pkeys' = pkeys + 1 /\ slots' = slots
  BY DEF BuildMldsa
<1> QED
  BY <1>2, <1>6, <1>7, OwnedFinite DEF Balance, Owned

LEMMA BuildClassicBalance == ASSUME IInv, Balance, BuildClassic PROVE Balance'
<1>1. /\ call # Idle /\ call.pc = "classic" /\ call \in Calls /\ call.key \in Keys
      /\ Working /\ slots[call.key] \in Slots
      /\ slots \in [Keys -> Slots]
  BY CallTypes DEF BuildClassic, IInv, Types
<1>2. PICK pair \in ClassicPairs :
          slots' = [slots EXCEPT ![call.key] =
                Installed(@, call.mldsa, [pair |-> pair, private |-> call.mldsa.private])]
  BY DEF BuildClassic
<1> DEFINE c == [pair |-> pair, private |-> call.mldsa.private]
           t == Installed(slots[call.key], call.mldsa, c)
<1>3. c # NULL /\ call.mldsa # NULL
  <2>1. c \in Classic
    BY <1>1 DEF Working, Calls, Mldsa, Classic
  <2> QED
    BY <1>1, <2>1, SigKeyAssumption DEF SigKeyAssumption, Working
<1>4. /\ Replaced(slots[call.key]) = {}
      /\ Cardinality(Filled(t)) = Cardinality(Filled(slots[call.key])) + 2
  <2> HIDE DEF c
  <2>1. CASE call.side = "pub"
    <3>1. slots[call.key] = EmptyKey
      BY <1>1, <2>1 DEF Working, Progress
    <3>2. /\ t.mldsa_pubkey = call.mldsa /\ t.classic_pubkey = c
          /\ t.mldsa_privkey = NULL /\ t.classic_privkey = NULL
      BY <2>1, <3>1 DEF Installed, EmptyKey
    <3> HIDE DEF t
    <3>3. Filled(t) = Filled(EmptyKey) \union {"mldsa_pubkey", "classic_pubkey"}
      BY <1>3, <3>2, FilledEmpty DEF Filled, SlotNames
    <3>4. Cardinality(Filled(t)) = Cardinality(Filled(EmptyKey)) + 2
      BY <3>3, FilledEmpty, TwoMore DEF SlotNames
    <3> QED
      BY <3>1, <3>4, FilledEmpty DEF Replaced
  <2>2. CASE call.side = "priv"
    <3>1. /\ slots[call.key].mldsa_privkey = NULL
          /\ slots[call.key].classic_privkey = NULL
      BY <1>1, <2>2 DEF Working, Progress, EmptyKey
    <3>2. /\ t.mldsa_privkey = call.mldsa /\ t.classic_privkey = c
          /\ t.mldsa_pubkey = slots[call.key].mldsa_pubkey
          /\ t.classic_pubkey = slots[call.key].classic_pubkey
      BY <1>1, <2>2 DEF Installed, Slots
    <3> HIDE DEF t
    <3>3. Filled(t) = Filled(slots[call.key]) \union {"mldsa_privkey", "classic_privkey"}
      BY <1>3, <3>2 DEF Filled, SlotNames
    <3>4. "mldsa_privkey" \notin Filled(slots[call.key])
          /\ "classic_privkey" \notin Filled(slots[call.key])
      BY <3>1 DEF Filled
    <3>5. Cardinality(Filled(t)) = Cardinality(Filled(slots[call.key])) + 2
      BY <3>3, <3>4, TwoMore DEF SlotNames
    <3> QED
      BY <2>2, <3>4, <3>5 DEF Replaced
  <2> QED
    BY <1>1, <2>1, <2>2 DEF Calls
<1>5. pkeys' = pkeys + 1
  BY <1>4, FS_EmptySet DEF BuildClassic
<1>6. InHand = 1
  BY <1>1, <1>3 DEF InHand
<1>7. InHand' = 0
  <2>1. call' = Idle \/ call'.mldsa = NULL
    BY <1>1 DEF BuildClassic, Calls
  <2> QED
    BY <2>1 DEF InHand
<1>8. Cardinality(Owned)' = Cardinality(Owned) - Cardinality(Filled(slots[call.key]))
                                               + Cardinality(Filled(t))
  <2>1. slots' = [slots EXCEPT ![call.key] = t]
    BY <1>2
  <2>2. PICK k \in Keys : k = call.key
    BY <1>1
  <2>3. PICK u : u = t
    OBVIOUS
  <2> HIDE DEF t
  <2> QED
    BY <1>1, <2>1, <2>2, <2>3, OwnedChange
<1> HIDE DEF t
<1> QED
  BY <1>4, <1>5, <1>6, <1>7, <1>8, OwnedFinite, FilledFinite DEF Balance

LEMMA DeriveBalance == ASSUME IInv, Balance, Derive PROVE Balance'
<1>1. /\ call # Idle /\ call.pc = "derive" /\ call \in Calls /\ call.key \in Keys
      /\ Working /\ slots[call.key] \in Slots
      /\ slots \in [Keys -> Slots] /\ call' = Idle /\ pkeys' = pkeys + 2
  BY CallTypes DEF Derive, IInv, Types
<1>2. InHand = 0 /\ InHand' = 0
  BY <1>1 DEF InHand, Working
<1>3. PICK s \in Slots : s = slots[call.key]
  BY <1>1
<1> DEFINE t == [s EXCEPT !.mldsa_pubkey = s.mldsa_privkey,
                          !.classic_pubkey = s.classic_privkey]
<1>4. /\ s.mldsa_pubkey = NULL /\ s.classic_pubkey = NULL
      /\ s.mldsa_privkey # NULL /\ s.classic_privkey # NULL
  BY <1>1, <1>3 DEF Working, Progress
<1>5. /\ t.mldsa_pubkey = s.mldsa_privkey /\ t.classic_pubkey = s.classic_privkey
      /\ t.mldsa_privkey = s.mldsa_privkey /\ t.classic_privkey = s.classic_privkey
  BY DEF Slots
<1>6. slots' = [slots EXCEPT ![call.key] = t]
  BY <1>1, <1>3 DEF Derive
<1> HIDE DEF t
<1>7. Filled(t) = Filled(s) \union {"mldsa_pubkey", "classic_pubkey"}
  BY <1>4, <1>5 DEF Filled, SlotNames
<1>8. "mldsa_pubkey" \notin Filled(s) /\ "classic_pubkey" \notin Filled(s)
  BY <1>4 DEF Filled
<1>9. Cardinality(Filled(t)) = Cardinality(Filled(s)) + 2
  BY <1>7, <1>8, TwoMore DEF SlotNames
<1>10. Cardinality(Owned)' = Cardinality(Owned) - Cardinality(Filled(s))
                                                + Cardinality(Filled(t))
  <2>1. PICK k \in Keys : k = call.key
    BY <1>1
  <2> QED
    BY <1>1, <1>3, <1>6, <2>1, OwnedChange
<1> QED
  BY <1>1, <1>2, <1>9, <1>10, OwnedFinite, FilledFinite DEF Balance

LEMMA FailBalance == ASSUME IInv, Balance, Fail PROVE Balance'
<1>1. /\ call # Idle /\ call.key \in Keys /\ slots \in [Keys -> Slots]
      /\ call' = Idle
  BY CallTypes DEF Fail, IInv, Types
<1>2. InHand = Pending /\ InHand' = 0
  BY <1>1 DEF InHand, Pending
<1>3. Pending \in {0, 1}
  BY DEF Pending
<1>4. CASE call.name = "generate"
  BY <1>2, <1>3, <1>4, OwnedFinite DEF Fail, Balance, Owned
<1>5. CASE call.name # "generate"
  <2>1. PICK k \in Keys : k = call.key
    BY <1>1
  <2>2. /\ slots' = [slots EXCEPT ![k] = EmptyKey]
        /\ pkeys' = pkeys - Pending - Cardinality(Filled(slots[k]))
    BY <1>5, <2>1 DEF Fail
  <2>3. Cardinality(Owned)' = Cardinality(Owned) - Cardinality(Filled(slots[k])) + 0
    BY <1>1, <2>2, OwnedChange, FilledEmpty
  <2> QED
    BY <1>2, <1>3, <2>2, <2>3, OwnedFinite, FilledFinite DEF Balance
<1> QED
  BY <1>4, <1>5

LEMMA StepBalance ==
    ASSUME IInv, Balance, [Next]_vars
    PROVE  Balance'
<1>1. CASE Next
  <2>1. ASSUME NEW k \in Keys, Free(k) PROVE Balance'
    BY <2>1, FreeBalance
  <2>2. ASSUME NEW j \in Keys, NEW k \in Keys, NEW sel \in DupSelections, Dup(j, k, sel)
        PROVE  Balance'
    BY <2>2, DupBalance
  <2>3. ASSUME NEW k \in Keys,
               \/ New(k) \/ GenBegin(k) \/ GenerateBegin(k)
               \/ \E sel \in Selections, p \in Foreign \union {wire} :
                     ImportBegin(k, sel, p)
               \/ \E name \in {"spki", "pki"}, p \in Foreign \union {wire} :
                     DecodeBegin(k, name, p)
               \/ \E sel \in Selections : Export(k, sel)
        PROVE  Balance'
    BY <2>3, BeginBalance
  <2> QED
    BY <1>1, <2>1, <2>2, <2>3, BuildMldsaBalance, BuildClassicBalance,
       DeriveBalance, FailBalance DEF Next
<1>2. CASE UNCHANGED vars
  BY <1>2 DEF vars, Balance, Owned, InHand
<1> QED
  BY <1>1, <1>2

THEOREM BalanceInvariance == Spec => [](IInv /\ Balance)
<1>1. Init => IInv /\ Balance
  BY InitIInv, InitOwnership, BalanceIsOwnership
<1>2. IInv /\ Balance /\ [Next]_vars => (IInv /\ Balance)'
  BY StepIInv, StepBalance
<1> QED
  BY <1>1, <1>2, PTL DEF Spec

(* No EVP_PKEY is lost or freed twice, whichever component fails in        *)
(* whichever call.                                                         *)
THEOREM OwnershipHolds == Spec => []Ownership
BY BalanceInvariance, BalanceIsOwnership, PTL

(* Every variable has its type; that there are never fewer than no         *)
(* EVP_PKEY takes the count of those that keys own.                        *)
THEOREM TypeCorrect == Spec => []TypeOK
<1>1. IInv /\ Balance => TypeOK
  <2>1. InHand \in Nat
    BY DEF InHand
  <2> QED
    BY <2>1, OwnedFinite DEF IInv, Types, Balance, TypeOK
<1> QED
  BY <1>1, BalanceInvariance, PTL

-----------------------------------------------------------------------------
(* The keys implement SignatureKeyStore.                                   *)

(* What the store knows of slots, in terms of pairs.                       *)
LEMMA HalvesAre ==
    ASSUME NEW s, s.mldsa_privkey = NULL <=> s.classic_privkey = NULL,
           s.mldsa_privkey # NULL => s.has_private /\ s.mldsa_privkey.private
    PROVE  /\ Halves(s).pub =
                 IF s.mldsa_pubkey = NULL THEN None
                 ELSE Pair(s.mldsa_pubkey, s.classic_pubkey)
           /\ s.mldsa_privkey # NULL =>
                 Halves(s).priv = Pair(s.mldsa_privkey, s.classic_privkey)
           /\ s.mldsa_privkey = NULL =>
                 Halves(s).priv =
                    IF s.has_private /\ s.mldsa_pubkey # NULL /\ s.mldsa_pubkey.private
                    THEN Pair(s.mldsa_pubkey, s.classic_pubkey) ELSE None
           /\ Halves(s) = [pub |-> Halves(s).pub, priv |-> Halves(s).priv]
<1>1. CASE s.mldsa_privkey # NULL
  BY <1>1 DEF Halves, SignWith, VerifyWith, CompositeOf, Pair
<1>2. CASE s.mldsa_privkey = NULL
  BY <1>2 DEF Halves, SignWith, VerifyWith, CompositeOf, Pair
<1> QED
  BY <1>1, <1>2

LEMMA EmptyHolds == Halves(EmptyKey) = NoParams
BY DEF Halves, EmptyKey, NoParams, SignWith

LEMMA HoldingSomething ==
    ASSUME IInv, NEW k \in Keys
    PROVE  Held(k) # NULL <=> k \in live
<1>1. \A s \in Slots : Sound(s) => Halves(s) \in Params
  <2>1. SUFFICES ASSUME NEW s \in Slots, Sound(s) PROVE Halves(s) \in Params
    OBVIOUS
  <2>2. /\ s.mldsa_pubkey # NULL => Pair(s.mldsa_pubkey, s.classic_pubkey) \in Composites
        /\ s.mldsa_privkey # NULL => Pair(s.mldsa_privkey, s.classic_privkey) \in Composites
    BY <2>1 DEF Sound, Matched, Slots, Mldsa, Classic, Pair, Composites
  <2>3. /\ s.mldsa_privkey = NULL <=> s.classic_privkey = NULL
        /\ s.mldsa_privkey # NULL => s.has_private /\ s.mldsa_privkey.private
    BY <2>1 DEF Sound, Matched
  <2> QED
    BY <2>2, <2>3, HalvesAre DEF Params
<1>2. NoParams \in Params
  BY DEF NoParams, Params
<1>3. slots[k] \in Slots /\ Sound(slots[k])
  BY DEF IInv, Types, KeysSound
<1> QED
  BY <1>1, <1>2, <1>3, SigKeyAssumption DEF Held, SigKeyAssumption

(* A key is not looked at by another key's call.                           *)
LEMMA NotAtWork ==
    ASSUME NEW j, slots'[j] = slots[j], j \in live' <=> j \in live,
           call = Idle \/ call.key # j, call' = Idle \/ call'.key # j
    PROVE  Held(j)' = Held(j)
BY DEF Held, Halves, SignWith, VerifyWith, CompositeOf

(* Only one key changes, to show what its slots amount to.                 *)
LEMMA Shown ==
    ASSUME Types, NEW k \in Keys, NEW s, slots' = [slots EXCEPT ![k] = s],
           call = Idle \/ call.key = k, call' = Idle, k \in live',
           \A j \in Keys \ {k} : j \in live' <=> j \in live
    PROVE  [j \in Keys |-> Held(j)'] = [[j \in Keys |-> Held(j)] EXCEPT ![k] = Halves(s)]
<1>1. slots'[k] = s /\ \A j \in Keys \ {k} : slots'[j] = slots[j]
  BY DEF Types
<1>2. Held(k)' = Halves(s)
  BY <1>1 DEF Held, Halves, SignWith, VerifyWith, CompositeOf
<1>3. \A j \in Keys \ {k} : Held(j)' = Held(j)
  BY <1>1, NotAtWork
<1> QED
  BY <1>2, <1>3

LEMMA StoreChange ==
    ASSUME NEW k \in Keys, NEW held, Held(k)' = held,
           \A j \in Keys \ {k} : Held(j)' = Held(j)
    PROVE  [j \in Keys |-> Held(j)'] = [[j \in Keys |-> Held(j)] EXCEPT ![k] = held]
OBVIOUS

LEMMA StoreInitial == Init => Store!StoreInit
BY DEF Init, Store!StoreInit, Held, NoParams, Store!Nothing

(* A call shows as the allocation of its key when it begins, ...           *)
LEMMA StoreAllocates ==
    ASSUME IInv, NEW k \in Keys,
           \/ New(k) \/ GenBegin(k)
           \/ \E sel \in Selections, p \in Foreign \union {wire} : ImportBegin(k, sel, p)
           \/ \E name \in {"spki", "pki"}, p \in Foreign \union {wire} :
                 DecodeBegin(k, name, p)
    PROVE  Store!StoreNew(k)
<1>1. /\ k \notin live /\ live' = live \union {k} /\ call = Idle
      /\ call' = Idle \/ call'.key = k
      /\ UNCHANGED <<slots, wire, minted>>
  BY DEF New, GenBegin, ImportBegin, DecodeBegin, Begin
<1>2. slots'[k] = EmptyKey
  BY <1>1 DEF IInv, KeysSound
<1>3. Held(k) = NULL /\ Held(k)' = NoParams
  BY <1>1, <1>2, EmptyHolds DEF Held
<1>4. \A j \in Keys \ {k} : Held(j)' = Held(j)
  BY <1>1, NotAtWork
<1>5. [j \in Keys |-> Held(j)'] = [[j \in Keys |-> Held(j)] EXCEPT ![k] = NoParams]
  BY <1>3, <1>4, StoreChange
<1> QED
  BY <1>1, <1>3, <1>5 DEF Store!StoreNew, Store!Nothing, NoParams

(* ... as nothing while it is under way, ...                               *)
LEMMA StoreWaits ==
    ASSUME IInv,
           \/ \E k \in Keys : GenerateBegin(k)
           \/ BuildMldsa
           \/ BuildClassic /\ call' # Idle
           \/ Fail /\ call.name = "generate"
    PROVE  UNCHANGED Store!storeVars
<1>1. /\ live' = live /\ wire' = wire /\ minted' = minted
      /\ \E k \in Keys :
            /\ \A j \in Keys \ {k} : slots'[j] = slots[j]
            /\ call = Idle \/ call.key = k
            /\ call' = Idle \/ call'.key = k
            /\ Held(k)' = Held(k)
  <2>1. ASSUME NEW k \in Keys, GenerateBegin(k)
        PROVE  /\ UNCHANGED <<live, slots, wire, minted>> /\ call = Idle /\ call'.key = k
               /\ Held(k)' = Held(k)
    <3>1. /\ UNCHANGED <<live, slots, wire, minted>> /\ call = Idle /\ call'.key = k
          /\ k \in live /\ slots[k] = EmptyKey
      BY <2>1 DEF GenerateBegin, Begin
    <3> QED
      BY <3>1, EmptyHolds DEF Held
  <2>2. ASSUME BuildMldsa
        PROVE  /\ UNCHANGED <<live, slots, wire, minted>>
               /\ \E k \in Keys : call.key = k /\ call'.key = k /\ Held(k)' = Held(k)
    <3>1. /\ UNCHANGED <<live, slots, wire, minted>> /\ call # Idle /\ call \in Calls
      BY <2>2, CallTypes DEF BuildMldsa
    <3>2. call'.key = call.key /\ call.key \in Keys /\ call' # Idle
      BY <2>2, <3>1 DEF BuildMldsa, Calls, Idle
    <3> QED
      BY <3>1, <3>2 DEF Held
  <2>3. ASSUME BuildClassic, call' # Idle
        PROVE  /\ UNCHANGED <<live, wire, minted>>
               /\ \E k \in Keys : /\ \A j \in Keys \ {k} : slots'[j] = slots[j]
                                  /\ call.key = k /\ call'.key = k /\ Held(k)' = Held(k)
    <3>1. /\ UNCHANGED <<live, wire>> /\ call # Idle /\ call \in Calls /\ call.key \in Keys
          /\ \A j \in Keys \ {call.key} : slots'[j] = slots[j]
      BY <2>3, CallTypes DEF BuildClassic, IInv, Types
    <3>2. call.name \in {"import", "pki"} /\ call'.key = call.key
      BY <2>3, <3>1 DEF BuildClassic, Calls
    <3>3. minted' = minted
      BY <2>3, <3>2 DEF BuildClassic, Generating
    <3> QED
      BY <2>3, <3>1, <3>2, <3>3 DEF Held
  <2>4. ASSUME Fail, call.name = "generate"
        PROVE  /\ UNCHANGED <<live, slots, wire, minted>>
               /\ \E k \in Keys : call.key = k /\ call' = Idle /\ Held(k)' = Held(k)
    <3>1. /\ UNCHANGED <<live, slots, wire, minted>> /\ call # Idle /\ call' = Idle
          /\ call.key \in Keys /\ Working
      BY <2>4, CallTypes DEF Fail
    <3>2. PICK k \in Keys : k = call.key
      BY <3>1
    <3>3. slots[k] = EmptyKey /\ k \in live
      BY <2>4, <3>1, <3>2 DEF Working, Progress
    <3>4. Held(k) = NoParams
      BY <3>1, <3>2, <3>3 DEF Held
    <3>5. Held(k)' = NoParams
      BY <3>1, <3>3, EmptyHolds DEF Held
    <3> QED
      BY <3>1, <3>2, <3>4, <3>5
  <2> QED
    BY <2>1, <2>2, <2>3, <2>4
<1>2. \A j \in Keys : Held(j)' = Held(j)
  BY <1>1, NotAtWork
<1> QED
  BY <1>1, <1>2 DEF Store!storeVars

(* ... as the loss of its key when it fails, ...                           *)
LEMMA StoreFrees ==
    ASSUME IInv, NEW k \in Keys,
           Free(k) \/ (Fail /\ call.name # "generate" /\ call.key = k)
    PROVE  Store!StoreFree(k)
<1>1. /\ call = Idle \/ call.key = k
      /\ k \in live /\ live' = live \ {k} /\ call' = Idle
      /\ slots' = [slots EXCEPT ![k] = EmptyKey] /\ UNCHANGED <<wire, minted>>
  <2>1. CASE Free(k)
    BY <2>1 DEF Free
  <2>2. CASE Fail /\ call.name # "generate" /\ call.key = k
    BY <2>2, CallTypes DEF Fail, Working
  <2> QED
    BY <2>1, <2>2
<1>2. Held(k) # NULL /\ Held(k)' = NULL
  BY <1>1, HoldingSomething DEF Held
<1>3. \A j \in Keys \ {k} : Held(j)' = Held(j)
  BY <1>1, NotAtWork DEF IInv, Types
<1>4. [j \in Keys |-> Held(j)'] = [[j \in Keys |-> Held(j)] EXCEPT ![k] = NULL]
  BY <1>2, <1>3, StoreChange
<1> QED
  BY <1>1, <1>2, <1>4 DEF Store!StoreFree

(* ... and as what it was called for when its last half is in place: a     *)
(* pair that nobody has, ...                                               *)
LEMMA StoreDraws ==
    ASSUME IInv, BuildClassic, Generating, call' = Idle
    PROVE  \E k \in Keys : Store!StoreDraw(k)
<1>1. /\ call # Idle /\ call.pc = "classic" /\ UNCHANGED <<live, wire>>
      /\ call \in Calls /\ call.key \in Keys /\ Working
  BY CallTypes DEF BuildClassic
<1>2. PICK t \in Slots, c \in Classic : Completed(t, c)
  BY BuildClassicIs
<1>3. PICK k \in Keys : k = call.key
  BY <1>1
<1>4. /\ slots' = [slots EXCEPT ![k] = t]
      /\ minted' = minted \union {Pair(call.mldsa, c)} /\ Fresh(c.pair)
      /\ t.mldsa_privkey = NULL /\ t.classic_privkey = NULL
      /\ t.mldsa_pubkey # NULL
      /\ t.mldsa_pubkey = call.mldsa /\ t.classic_pubkey = c
  BY <1>1, <1>2, <1>3 DEF Completed, Working
<1>5. PICK composite \in Composites : composite = Pair(call.mldsa, c)
  BY <1>2, <1>4 DEF Completed
<1>6. composite \notin minted
  BY <1>4, <1>5 DEF Fresh, Pair
<1>7. PICK priv \in {composite, None} : Halves(t) = [pub |-> composite, priv |-> priv]
  BY <1>4, <1>5, HalvesAre
<1>8. [j \in Keys |-> Held(j)'] =
         [[j \in Keys |-> Held(j)] EXCEPT ![k] = [pub |-> composite, priv |-> priv]]
  <2>1. k \in live' /\ \A j \in Keys \ {k} : j \in live' <=> j \in live
    BY <1>1, <1>3 DEF Working
  <2>2. [j \in Keys |-> Held(j)'] = [[j \in Keys |-> Held(j)] EXCEPT ![k] = Halves(t)]
    BY <1>3, <1>4, <2>1, Shown DEF IInv
  <2> QED
    BY <1>7, <2>2
<1>9. Held(k) = Store!Nothing
  BY <1>1, <1>3 DEF Held, Working, NoParams, Store!Nothing
<1>10. minted' = minted \union {composite}
  BY <1>4, <1>5
<1>11. Store!StoreDraw(k)
  BY <1>1, <1>6, <1>8, <1>9, <1>10 DEF Store!StoreDraw
<1> QED
  BY <1>11

(* ... or some of the parameters that were offered.                        *)
LEMMA StoreReads ==
    ASSUME IInv, \/ BuildClassic /\ ~ Generating /\ call' = Idle
                 \/ Derive
    PROVE  \E k \in Keys : Store!StoreRead(k)
<1>1. /\ call # Idle /\ call' = Idle /\ UNCHANGED <<live, wire>>
      /\ call \in Calls /\ call.key \in Keys /\ Working /\ call.side \in {"pub", "priv"}
  BY CallTypes DEF BuildClassic, Derive, Calls
<1>2. PICK k \in Keys : k = call.key
  BY <1>1
<1>3. Held(k) = Store!Nothing /\ k \in live
  BY <1>1, <1>2 DEF Held, Working, NoParams, Store!Nothing
<1>4. call.params \in Foreign \union {wire} /\ minted' = minted
  BY <1>1 DEF Working, Generating, BuildClassic, Derive
<1>5. PICK p \in Foreign \union {wire} : p = call.params
  BY <1>4
<1>6. \E t : slots' = [slots EXCEPT ![k] = t] /\ Halves(t) \in Store!Readings(p)
  <2>1. CASE BuildClassic /\ call.side = "pub"
    <3>1. PICK t \in Slots, c \in Classic : Completed(t, c)
      BY <2>1, BuildClassicIs
    <3>2. ~ Generating
      BY <2>1, <1>1 DEF Derive, BuildClassic
    <3>3. /\ slots' = [slots EXCEPT ![k] = t]
          /\ t.mldsa_privkey = NULL /\ t.classic_privkey = NULL /\ t.mldsa_pubkey # NULL
          /\ Pair(t.mldsa_pubkey, t.classic_pubkey) = p.pub /\ ~ t.has_private
      BY <1>2, <1>5, <2>1, <3>1, <3>2 DEF Completed
    <3>4. Halves(t) = [pub |-> p.pub, priv |-> None]
      BY <3>3, HalvesAre
    <3>5. [pub |-> p.pub, priv |-> None] \in Store!Readings(p)
      BY DEF Store!Readings
    <3> QED
      BY <3>3, <3>4, <3>5
  <2>2. CASE BuildClassic /\ call.side = "priv"
    <3>1. PICK t \in Slots, c \in Classic : Completed(t, c)
      BY <2>2, BuildClassicIs
    <3>2. /\ slots' = [slots EXCEPT ![k] = t]
          /\ t.mldsa_privkey # NULL /\ t.classic_privkey # NULL
          /\ t.has_private /\ t.mldsa_privkey.private
          /\ Pair(t.mldsa_privkey, t.classic_privkey) = p.priv
          /\ t.mldsa_pubkey = slots[k].mldsa_pubkey
          /\ t.classic_pubkey = slots[k].classic_pubkey
      BY <1>2, <1>5, <2>2, <3>1 DEF Completed
    <3>3. \/ slots[k].mldsa_pubkey = NULL
          \/ Pair(slots[k].mldsa_pubkey, slots[k].classic_pubkey) = p.pub
      <4>1. call.pc # "derive"
        BY <2>2 DEF BuildClassic
      <4> QED
        BY <1>1, <1>2, <1>5, <4>1 DEF Working, Progress, EmptyKey
    <3>4. PICK pub \in {p.pub, None} : Halves(t) = [pub |-> pub, priv |-> p.priv]
      <4>1. Halves(t).pub \in {p.pub, None} /\ Halves(t).priv = p.priv
        BY <3>2, <3>3, HalvesAre
      <4> QED
        BY <3>2, <4>1, HalvesAre
    <3>5. [pub |-> pub, priv |-> p.priv] \in Store!Readings(p)
      BY DEF Store!Readings
    <3> QED
      BY <3>2, <3>4, <3>5
  <2>3. CASE Derive
    <3>1. call.pc = "derive"
      BY <2>3 DEF Derive
    <3>2. PICK s \in Slots : s = slots[k]
      BY <1>1, <1>2, CallTypes
    <3>3. /\ s.mldsa_privkey # NULL /\ s.classic_privkey # NULL
          /\ Pair(s.mldsa_privkey, s.classic_privkey) = p.priv
      BY <1>1, <1>2, <1>5, <3>1, <3>2 DEF Working, Progress
    <3>4. s.has_private /\ s.mldsa_privkey.private
      BY <3>2, <3>3 DEF IInv, KeysSound, Sound
    <3> DEFINE t == [s EXCEPT !.mldsa_pubkey = s.mldsa_privkey,
                              !.classic_pubkey = s.classic_privkey]
    <3>5. slots' = [slots EXCEPT ![k] = t]
      BY <1>2, <2>3, <3>2 DEF Derive, IInv, Types
    <3>6. /\ t.mldsa_pubkey = s.mldsa_privkey /\ t.classic_pubkey = s.classic_privkey
          /\ t.mldsa_privkey = s.mldsa_privkey /\ t.classic_privkey = s.classic_privkey
          /\ t.has_private = s.has_private
      BY DEF Slots
    <3> HIDE DEF t
    <3>7. Halves(t) = [pub |-> p.priv, priv |-> p.priv]
      BY <3>3, <3>4, <3>6, HalvesAre
    <3>8. [pub |-> p.priv, priv |-> p.priv] \in Store!Readings(p)
      BY DEF Store!Readings
    <3> QED
      BY <3>5, <3>7, <3>8
  <2> QED
    BY <1>1, <2>1, <2>2, <2>3
<1>7. PICK t : slots' = [slots EXCEPT ![k] = t] /\ Halves(t) \in Store!Readings(p)
  BY <1>6
<1>8. [j \in Keys |-> Held(j)'] = [[j \in Keys |-> Held(j)] EXCEPT ![k] = Halves(t)]
  BY <1>1, <1>2, <1>3, <1>7, Shown DEF IInv
<1>9. Store!StoreRead(k)
  BY <1>1, <1>3, <1>4, <1>7, <1>8 DEF Store!StoreRead
<1> QED
  BY <1>9

(* A duplicate holds no half that its original does not hold: whatever is  *)
(* selected, what a duplicate could sign with is what the original signs   *)
(* with.                                                                   *)
LEMMA StoreDuplicates ==
    ASSUME IInv, NEW j \in Keys, NEW k \in Keys, NEW sel \in DupSelections, Dup(j, k, sel)
    PROVE  Store!StoreDuplicate(j, k)
<1>1. /\ call = Idle /\ call' = Idle /\ j \in live /\ k \notin live
      /\ live' = live \union {k} /\ UNCHANGED <<wire, minted>>
  BY DEF Dup
<1>2. PICK s \in Slots : s = slots[j] /\ Sound(s)
  BY DEF IInv, Types, KeysSound
<1>3. PICK pub \in BOOLEAN, priv \in BOOLEAN :
         slots' = [slots EXCEPT ![k] = Duplicate(s, pub, priv)]
  BY <1>2, DupIs
<1> DEFINE t == Duplicate(s, pub, priv)
<1>4. /\ t.mldsa_pubkey = (IF pub THEN s.mldsa_pubkey ELSE NULL)
      /\ t.classic_pubkey = (IF pub THEN s.classic_pubkey ELSE NULL)
      /\ t.mldsa_privkey = (IF priv THEN s.mldsa_privkey ELSE NULL)
      /\ t.classic_privkey = (IF priv THEN s.classic_privkey ELSE NULL)
      /\ t.has_private = s.has_private
  BY DEF Duplicate
<1>5. slots' = [slots EXCEPT ![k] = t]
  BY <1>3
<1> HIDE DEF t
<1>6. /\ s.mldsa_privkey = NULL <=> s.classic_privkey = NULL
      /\ s.mldsa_privkey # NULL => s.has_private /\ s.mldsa_privkey.private
  BY <1>2 DEF Sound, Matched
<1>7. /\ t.mldsa_privkey = NULL <=> t.classic_privkey = NULL
      /\ t.mldsa_privkey # NULL => t.has_private /\ t.mldsa_privkey.private
  BY <1>4, <1>6
<1>8. Halves(t).pub \in {Halves(s).pub, None}
  BY <1>4, <1>6, <1>7, HalvesAre
<1>9. Halves(t).priv \in {Halves(s).priv, None}
  <2>1. CASE t.mldsa_privkey # NULL
    BY <1>4, <1>6, <1>7, <2>1, HalvesAre
  <2>2. CASE t.mldsa_privkey = NULL /\ s.mldsa_privkey = NULL
    BY <1>4, <1>6, <1>7, <2>2, HalvesAre
  <2>3. CASE t.mldsa_privkey = NULL /\ s.mldsa_privkey # NULL
    <3>1. Halves(s).priv = Pair(s.mldsa_privkey, s.classic_privkey)
      BY <1>6, <2>3, HalvesAre
    <3>2. CASE t.mldsa_pubkey # NULL /\ t.mldsa_pubkey.private
      BY <1>2, <1>4, <1>6, <1>7, <2>3, <3>1, <3>2, HalvesAre DEF Sound
    <3>3. CASE ~ (t.mldsa_pubkey # NULL /\ t.mldsa_pubkey.private)
      BY <1>6, <1>7, <2>3, <3>3, HalvesAre
    <3> QED
      BY <3>2, <3>3
  <2> QED
    BY <2>1, <2>2, <2>3
<1>10. Halves(t) = [pub |-> Halves(t).pub, priv |-> Halves(t).priv]
  BY <1>7, HalvesAre
<1>11. Held(j) = Halves(s) /\ Held(j) # NULL /\ Held(k) = NULL
  BY <1>1, <1>2, HoldingSomething DEF Held
<1>12. [i \in Keys |-> Held(i)'] = [[i \in Keys |-> Held(i)] EXCEPT ![k] = Halves(t)]
  BY <1>1, <1>5, Shown DEF IInv
<1> QED
  BY <1>1, <1>8, <1>9, <1>10, <1>11, <1>12 DEF Store!StoreDuplicate

(* An export hands out one half, which the key holds.                      *)
LEMMA StoreHandsOut ==
    ASSUME IInv, NEW k \in Keys, NEW sel \in Selections, Export(k, sel)
    PROVE  Store!StoreHandOut(k)
<1>1. /\ call = Idle /\ k \in live /\ UNCHANGED <<live, slots, call, minted>>
      /\ wire' = Exported(slots[k], sel)
  BY DEF Export
<1>2. PICK s \in Slots : s = slots[k] /\ Sound(s)
  BY DEF IInv, Types, KeysSound
<1>3. /\ s.mldsa_privkey = NULL <=> s.classic_privkey = NULL
      /\ s.mldsa_privkey # NULL => s.has_private /\ s.mldsa_privkey.private
      /\ s.mldsa_pubkey = NULL <=> s.classic_pubkey = NULL
  BY <1>2 DEF Sound, Matched
<1>4. /\ s.mldsa_pubkey # NULL => Pair(s.mldsa_pubkey, s.classic_pubkey) # None
      /\ s.mldsa_privkey # NULL => Pair(s.mldsa_privkey, s.classic_privkey) # None
  <2>1. /\ s.mldsa_pubkey # NULL => Pair(s.mldsa_pubkey, s.classic_pubkey) \in Composites
        /\ s.mldsa_privkey # NULL => Pair(s.mldsa_privkey, s.classic_privkey) \in Composites
    BY <1>3 DEF Slots, Mldsa, Classic, Pair, Composites
  <2> QED
    BY <2>1, SigKeyAssumption DEF SigKeyAssumption
<1>5. Held(k) = Halves(s) /\ Held(k) # NULL
  BY <1>1, <1>2, HoldingSomething DEF Held
<1>6. \/ wire' = [pub |-> Halves(s).pub, priv |-> None] /\ Halves(s).pub # None
      \/ wire' = [pub |-> None, priv |-> Halves(s).priv] /\ Halves(s).priv # None
  <2>1. CASE "PUBLIC_KEY" \in sel
    <3>1. /\ s.mldsa_pubkey # NULL
          /\ wire' = [pub |-> Pair(s.mldsa_pubkey, s.classic_pubkey), priv |-> None]
      BY <1>1, <1>2, <2>1 DEF Export, CanEncodePublic, Exported, VerifyWith, CompositeOf,
                              Pair
    <3> QED
      BY <1>3, <1>4, <3>1, HalvesAre
  <2>2. CASE "PUBLIC_KEY" \notin sel
    <3>1. /\ s.has_private
          /\ SignWith(s).mldsa # NULL /\ SignWith(s).mldsa.private
          /\ wire' = [pub |-> None, priv |-> CompositeOf(SignWith(s))]
      BY <1>1, <1>2, <2>2 DEF Export, CanEncodePrivate, Exported
    <3>2. CASE s.mldsa_privkey # NULL
      <4>1. wire' = [pub |-> None, priv |-> Pair(s.mldsa_privkey, s.classic_privkey)]
        BY <1>3, <3>1, <3>2 DEF SignWith, CompositeOf, Pair
      <4> QED
        BY <1>3, <1>4, <3>2, <4>1, HalvesAre
    <3>3. CASE s.mldsa_privkey = NULL
      <4>1. /\ s.mldsa_pubkey # NULL /\ s.mldsa_pubkey.private
            /\ wire' = [pub |-> None, priv |-> Pair(s.mldsa_pubkey, s.classic_pubkey)]
        BY <1>3, <3>1, <3>3 DEF SignWith, CompositeOf, Pair
      <4> QED
        BY <1>3, <1>4, <3>1, <3>3, <4>1, HalvesAre
    <3> QED
      BY <3>2, <3>3
  <2> QED
    BY <2>1, <2>2
<1>7. \A j \in Keys : Held(j)' = Held(j)
  BY <1>1, NotAtWork
<1>8. Store!StoreExport(k)
  BY <1>1, <1>5, <1>6, <1>7 DEF Store!StoreExport
<1> QED
  BY <1>6, <1>8 DEF Store!StoreHandOut

LEMMA StoreStep ==
    ASSUME IInv, [Next]_vars
    PROVE  [Store!SignatureStoreNext]_(Store!storeVars)
<1>1. CASE UNCHANGED vars
  BY <1>1 DEF vars, Store!storeVars, Held
<1>2. CASE Next
  <2>1. ASSUME NEW k \in Keys,
               \/ New(k) \/ GenBegin(k)
               \/ \E sel \in Selections, p \in Foreign \union {wire} :
                     ImportBegin(k, sel, p)
               \/ \E name \in {"spki", "pki"}, p \in Foreign \union {wire} :
                     DecodeBegin(k, name, p)
        PROVE  Store!StoreNew(k)
    BY <2>1, StoreAllocates
  <2>2. ASSUME NEW k \in Keys, \/ Free(k)
                               \/ Fail /\ call.name # "generate" /\ call.key = k
        PROVE  Store!StoreFree(k)
    BY <2>2, StoreFrees
  <2>3. ASSUME NEW k \in Keys, NEW j \in Keys, NEW sel \in DupSelections, Dup(j, k, sel)
        PROVE  Store!StoreDuplicate(j, k)
    BY <2>3, StoreDuplicates
  <2>4. ASSUME NEW k \in Keys, NEW sel \in Selections, Export(k, sel)
        PROVE  Store!StoreHandOut(k)
    BY <2>4, StoreHandsOut
  <2>5. ASSUME \/ \E k \in Keys : GenerateBegin(k)
               \/ BuildMldsa
               \/ BuildClassic /\ call' # Idle
               \/ Fail /\ call.name = "generate"
        PROVE  UNCHANGED Store!storeVars
    BY <2>5, StoreWaits
  <2>6. ASSUME BuildClassic \/ Derive
        PROVE  \/ \E k \in Keys : Store!StoreDraw(k) \/ Store!StoreRead(k)
               \/ UNCHANGED Store!storeVars
    BY <2>6, StoreDraws, StoreReads, StoreWaits
  <2>7. ASSUME Fail
        PROVE  \/ \E k \in Keys : Store!StoreFree(k)
               \/ UNCHANGED Store!storeVars
    <3>1. call.key \in Keys
      BY <2>7, CallTypes DEF Fail
    <3> QED
      BY <2>2, <2>5, <2>7, <3>1
  <2>8. \/ \E k \in Keys : \/ Store!StoreNew(k) \/ Store!StoreFree(k)
                           \/ Store!StoreHandOut(k) \/ Store!StoreDraw(k)
                           \/ Store!StoreRead(k)
                           \/ \E j \in Keys : Store!StoreDuplicate(j, k)
        \/ UNCHANGED Store!storeVars
    BY <1>2, <2>1, <2>2, <2>3, <2>4, <2>5, <2>6, <2>7 DEF Next
  <2> QED
    BY <2>8 DEF Store!SignatureStoreNext
<1> QED
  BY <1>1, <1>2

(* Every call on signature keys is one step of the store or none, whichever *)
(* component fails in whichever call, and whatever part of a key libcrypto  *)
(* duplicates.                                                              *)
THEOREM Implementation == Spec => ImplementsStore
<1>1. IInv /\ [Next]_vars => [Store!SignatureStoreNext]_(Store!storeVars)
  BY StoreStep
<1> QED
  BY <1>1, StoreInitial, Invariance, PTL DEF Spec, ImplementsStore,
     Store!SignatureStoreSpec

=============================================================================
