--------------------------- MODULE KeyFileProofs ---------------------------
(***************************************************************************)
(* Proofs about KeyFile: any number of threads and any lengths.            *)
(*                                                                         *)
(* Where an encoder or a reader is, is its next step: the steps still to   *)
(* do follow from it, and so does what is held and what the halves are.    *)
(***************************************************************************)
EXTENDS KeyFile, WireFormatProofs

-----------------------------------------------------------------------------
(* What is still to do.  kem and ec say whether the key is a KEM key, and  *)
(* whether its traditional half is an EC key.                              *)

Pending(todo) == IF todo = <<>> THEN "none" ELSE Head(todo)

Rest(kem, ec, op, form, x) ==
    CASE x = "read_trad" -> <<"read_trad">>
      [] x = "read_pq" -> <<"read_pq", "read_trad">>
      [] x = "split" -> <<"split", "read_pq", "read_trad">>
      [] x = "write" -> <<"write">>
      [] x = "bio" -> IF kem /\ op = "spki" /\ form = "DER" THEN <<"bio", "der", "write">>
                      ELSE <<"bio", "write">>
      [] x = "der" -> IF kem THEN <<"der", "write">> ELSE <<"der", "bio", "write">>
      [] x = "wrap" -> IF op = "spki" /\ form = "DER"
                       THEN IF kem THEN <<"wrap", "bio", "der", "write">>
                            ELSE <<"wrap", "der", "bio", "write">>
                       ELSE <<"wrap", "bio", "write">>
      [] x = "blob" -> IF op = "spki" /\ form = "DER"
                       THEN IF kem THEN <<"blob", "pq", "wrap", "bio", "der", "write">>
                            ELSE <<"blob", "wrap", "der", "bio", "write">>
                       ELSE IF op = "spki" /\ kem
                            THEN <<"blob", "pq", "wrap", "bio", "write">>
                            ELSE <<"blob", "wrap", "bio", "write">>
      [] x = "trad" -> IF op = "spki" /\ form = "DER"
                       THEN IF kem THEN <<"trad", "blob", "pq", "wrap", "bio", "der", "write">>
                            ELSE <<"trad", "blob", "wrap", "der", "bio", "write">>
                       ELSE IF op = "spki" /\ kem
                            THEN <<"trad", "blob", "pq", "wrap", "bio", "write">>
                            ELSE <<"trad", "blob", "wrap", "bio", "write">>
      [] x = "copy" -> <<"copy", "trad", "blob", "wrap", "bio", "write">>
      [] x = "switch" -> <<"switch", "trad", "blob", "wrap", "bio", "write">>
      [] x = "pq" -> IF op = "spki"
                     THEN IF kem
                          THEN IF form = "DER" THEN <<"pq", "wrap", "bio", "der", "write">>
                               ELSE <<"pq", "wrap", "bio", "write">>
                          ELSE IF form = "DER"
                               THEN <<"pq", "trad", "blob", "wrap", "der", "bio", "write">>
                               ELSE <<"pq", "trad", "blob", "wrap", "bio", "write">>
                     ELSE IF ec
                          THEN IF kem
                               THEN <<"pq", "switch", "trad", "blob", "wrap", "bio", "write">>
                               ELSE <<"pq", "copy", "trad", "blob", "wrap", "bio", "write">>
                          ELSE <<"pq", "trad", "blob", "wrap", "bio", "write">>
      [] x = "oid" -> IF op = "spki"
                      THEN IF kem
                           THEN IF form = "DER"
                                THEN <<"oid", "trad", "blob", "pq", "wrap", "bio", "der", "write">>
                                ELSE <<"oid", "trad", "blob", "pq", "wrap", "bio", "write">>
                           ELSE IF form = "DER"
                                THEN <<"oid", "pq", "trad", "blob", "wrap", "der", "bio", "write">>
                                ELSE <<"oid", "pq", "trad", "blob", "wrap", "bio", "write">>
                      ELSE IF ec
                           THEN IF kem
                                THEN <<"oid", "pq", "switch", "trad", "blob", "wrap", "bio", "write">>
                                ELSE <<"oid", "pq", "copy", "trad", "blob", "wrap", "bio", "write">>
                           ELSE <<"oid", "pq", "trad", "blob", "wrap", "bio", "write">>
      [] OTHER -> <<>>

(* The step after x.                                                       *)
After(kem, ec, op, form, x) ==
    CASE x = "oid" -> IF kem /\ op = "spki" THEN "trad" ELSE "pq"
      [] x = "pq" -> IF op = "spki" THEN IF kem THEN "wrap" ELSE "trad"
                     ELSE IF ec THEN IF kem THEN "switch" ELSE "copy" ELSE "trad"
      [] x \in {"copy", "switch"} -> "trad"
      [] x = "trad" -> "blob"
      [] x = "blob" -> IF kem /\ op = "spki" THEN "pq" ELSE "wrap"
      [] x = "wrap" -> IF ~ kem /\ op = "spki" /\ form = "DER" THEN "der" ELSE "bio"
      [] x = "bio" -> IF kem /\ op = "spki" /\ form = "DER" THEN "der" ELSE "write"
      [] x = "der" -> IF kem THEN "write" ELSE "bio"
      [] x = "split" -> "read_pq"
      [] x = "read_pq" -> "read_trad"
      [] OTHER -> "none"

(* A call of this kind may come to the step.                               *)
Fits(kem, ec, op, form, x) ==
    \/ x = "none"
    \/ x \in {"split", "read_pq", "read_trad"} /\ op = "read"
    \/ x \in {"oid", "pq", "trad", "blob", "wrap", "bio", "write"} /\ op \in {"pki", "spki"}
    \/ x = "copy" /\ ~ kem /\ ec /\ op = "pki"
    \/ x = "switch" /\ kem /\ ec /\ op = "pki"
    \/ x = "der" /\ op = "spki" /\ form = "DER"

(* The remaining steps are those that belong to the first of them.         *)
Ends(kem, ec, op, form, todo) ==
    /\ Fits(kem, ec, op, form, Pending(todo))
    /\ todo = Rest(kem, ec, op, form, Pending(todo))

LEMMA Onward ==
    ASSUME NEW kem, NEW ec, NEW op, NEW form, NEW x, x # "none",
           Fits(kem, ec, op, form, x)
    PROVE  LET todo == Rest(kem, ec, op, form, x)
               y == After(kem, ec, op, form, x)
           IN  /\ todo # <<>> /\ Head(todo) = x
               /\ Tail(todo) = Rest(kem, ec, op, form, y)
               /\ Fits(kem, ec, op, form, y)
<1>1. CASE x = "read_trad"
  BY <1>1 DEF Rest, After, Fits
<1>2. CASE x = "read_pq"
  BY <1>2 DEF Rest, After, Fits
<1>3. CASE x = "split"
  BY <1>3 DEF Rest, After, Fits
<1>4. CASE x = "write"
  BY <1>4 DEF Rest, After, Fits
<1>5. CASE x = "bio"
  BY <1>5 DEF Rest, After, Fits
<1>6. CASE x = "der"
  BY <1>6 DEF Rest, After, Fits
<1>7. CASE x = "wrap"
  BY <1>7 DEF Rest, After, Fits
<1>8. CASE x = "blob"
  BY <1>8 DEF Rest, After, Fits
<1>9. CASE x = "trad"
  BY <1>9 DEF Rest, After, Fits
<1>10. CASE x = "copy"
  BY <1>10 DEF Rest, After, Fits
<1>11. CASE x = "switch"
  BY <1>11 DEF Rest, After, Fits
<1>12. CASE x = "pq"
  BY <1>12 DEF Rest, After, Fits
<1>13. CASE x = "oid"
  BY <1>13 DEF Rest, After, Fits
<1> QED
  BY <1>1, <1>2, <1>3, <1>4, <1>5, <1>6, <1>7, <1>8, <1>9, <1>10, <1>11, <1>12, <1>13 DEF Fits

(* A call begins with the first step of its kind.                          *)
LEMMA Beginning ==
    ASSUME NEW op, NEW form, op \in {"pki", "spki"}, form \in Forms(op)
    PROVE  Steps(op, form) = Rest(Kem, key.trad.type = "EC", op, form, "oid")
<1>1. form \in {"PEM", "DER"} /\ (~ Kem /\ op = "pki" => form = "PEM")
  BY DEF Forms
<1>2. CASE op = "pki"
  BY <1>1, <1>2 DEF Steps, EcPrivate, kem_pki_encode, composite_pki_pem_encode, Rest
<1>3. CASE op = "spki"
  BY <1>1, <1>3 DEF Steps, kem_spki_encode, composite_spki_pem_encode,
                    composite_spki_der_encode, Rest
<1> QED
  BY <1>2, <1>3

-----------------------------------------------------------------------------
(* What a call that is about to do x holds.                                *)

IsKem(k) == k.name \in KemNames
IsEc(k) == k.trad.type = "EC"

Holding(kem, ec, op, form, x) ==
    CASE x = "pq" -> {"aobj"} \union (IF kem /\ op = "spki" THEN {"trad", "blob"} ELSE {})
      [] x = "copy" -> {"aobj", "pq"}
      [] x = "switch" -> {"aobj"}
      [] x = "trad" -> {"aobj"} \union (IF kem THEN {} ELSE {"pq"})
                         \union (IF ~ kem /\ ec /\ op = "pki" THEN {"copy"} ELSE {})
      [] x = "blob" -> {"aobj", "trad"} \union (IF kem THEN {} ELSE {"pq"})
      [] x = "wrap" -> {"aobj", "blob"}
      [] x = "der" -> {"info"} \union (IF kem THEN {"bio"} ELSE {})
      [] x = "bio" -> IF ~ kem /\ op = "spki" /\ form = "DER" THEN {"der"} ELSE {"info"}
      [] x = "write" -> {"bio"}
            \union (IF op = "spki" /\ form = "DER" THEN {"der"} ELSE {})
            \union (IF ~ kem /\ op = "spki" /\ form = "DER" THEN {} ELSE {"info"})
      [] x = "read_pq" -> IF kem THEN {"malloc_pq", "malloc_trad"} ELSE {}
      [] x = "read_trad" -> {"pq_key"}
            \union (IF kem THEN {"malloc_pq", "malloc_trad"} ELSE {})
      [] OTHER -> {}

(* Each of these blocks is allocated once, and no other.                   *)
Exactly(held) == [b \in Blocks |-> IF b \in held THEN 1 ELSE 0]

(* A call is a record of its kind, its remaining steps belong together and *)
(* its blocks are those that its next step finds.                          *)
Shape(k, c) ==
    /\ c = [op |-> c.op, form |-> c.form, todo |-> c.todo, pq |-> c.pq, trad |-> c.trad,
            blob |-> c.blob, ret |-> c.ret, fault |-> c.fault]
    /\ c.fault \in BOOLEAN
    /\ c.op \in {None, "pki", "spki", "read"}
    /\ c.op \in {"pki", "spki"} =>
          c.form \in {"PEM", "DER"} /\ (~ IsKem(k) /\ c.op = "pki" => c.form = "PEM")
    /\ Ends(IsKem(k), IsEc(k), c.op, c.form, c.todo)

Balanced(k, c, h) ==
    h = Exactly(Holding(IsKem(k), IsEc(k), c.op, c.form, Pending(c.todo)))

-----------------------------------------------------------------------------
(* What the call has made of the octets when it is about to do x.          *)

Has(k, op) == op = "spki" \/ (k.private /\ (IsKem(k) => k.seed))
PqOf(k, op) == IF op = "pki" /\ ~ k.seed THEN Unwritten(k.pq) ELSE PqOctets(k.pq, Half(op))
TradOf(k, op) == TradOctets(k.trad, Half(op), FALSE)

(* The document of k, as far as it was written.                            *)
Saved(k, f) ==
    /\ f = [oid |-> Oid(k.name), op |-> f.op,
            octets |-> Join(PqOf(k, f.op), TradOf(k, f.op)), written |-> f.written]
    /\ f.op \in {"pki", "spki"} /\ Has(k, f.op) /\ f.written \in {"part", "whole"}

(* A KEM public key is put together from the end.                          *)
LastHalfFirst(k, op) == IsKem(k) /\ op = "spki"

Off(sw) == sw = FALSE

Encoding(k, c, f, b, sw) ==
    LET x == Pending(c.todo)
    IN  /\ b = None
        /\ c.trad = IF x \in {"oid", "copy", "switch", "trad"}
                          \/ (x = "pq" /\ ~ LastHalfFirst(k, c.op))
                    THEN <<>>
                    ELSE IF x = "none" THEN c.trad ELSE TradOf(k, c.op)
        /\ c.trad \in {<<>>, TradOf(k, c.op)}
        /\ x \in {"copy", "switch", "wrap", "der", "bio", "write"}
              \/ (x \in {"trad", "blob"} /\ ~ LastHalfFirst(k, c.op)) =>
              c.pq = PqOf(k, c.op) /\ Has(k, c.op)
        /\ x \in {"wrap", "der", "bio", "write"} =>
              c.blob = Join(PqOf(k, c.op), TradOf(k, c.op))
        /\ x = "trad" /\ IsKem(k) /\ IsEc(k) /\ c.op = "pki" => Off(sw)
        /\ x # "none" => f = Blank
        /\ x = "none" =>
              /\ f = Blank \/ (Saved(k, f) /\ f.op = c.op)
              /\ \/ c.ret = 1 /\ f.written = "whole"
                 \/ /\ c.ret = 0 /\ f.written # "whole"
                    /\ c.fault \/ ~ Has(k, c.op)

Reading(k, c, f, b) ==
    LET x == Pending(c.todo)
    IN  /\ Saved(k, f) /\ f.written = "whole"
        /\ c.trad \in {<<>>, TradOf(k, f.op)}
        /\ x \in {"read_pq", "read_trad"} =>
              c.pq = PqOf(k, f.op) /\ c.trad = TradOf(k, f.op)
        /\ x # "none" => b = None
        /\ x = "none" =>
              \/ /\ c.ret = 1
                 /\ b = [name |-> k.name, private |-> f.op = "pki",
                         pq |-> PqRead(k.pq, Half(f.op), PqOf(k, f.op)),
                         trad |-> k.trad]
              \/ c.ret = 0 /\ c.fault /\ b = None

(* While a call is under way there is no answer.                           *)
Content(k, c, f, b, sw) ==
    /\ c.op = None => c.todo = <<>> /\ c.trad = <<>> /\ c.ret = None /\ f = Blank /\ b = None
    /\ Pending(c.todo) # "none" => c.ret = None
    /\ c.op \in {"pki", "spki"} => Encoding(k, c, f, b, sw)
    /\ c.op = "read" => Reading(k, c, f, b)

KeyInv ==
    /\ key.name \in Names
    /\ key.private \in BOOLEAN /\ key.seed \in BOOLEAN
    /\ key.seed \/ key.name \in Seedless
    /\ key.pq = Generated(key.name).pq /\ key.trad = Generated(key.name).trad

Sound(k, c, h, f, b, sw) ==
    Shape(k, c) /\ Balanced(k, c, h) /\ Content(k, c, f, b, sw)

IInv ==
    /\ KeyInv
    /\ switch \in BOOLEAN
    /\ call = [s \in Threads |-> call[s]]
    /\ heap = [s \in Threads |-> heap[s]]
    /\ file = [s \in Threads |-> file[s]]
    /\ back = [s \in Threads |-> back[s]]
    /\ \A s \in Threads : Sound(key, call[s], heap[s], file[s], back[s], switch)

(* Another thread that finds the switch off, where it was on, has lost     *)
(* nothing by it.                                                          *)
LEMMA SwitchMayFall ==
    ASSUME NEW k, NEW c, NEW h, NEW f, NEW b, NEW sw \in BOOLEAN, NEW off \in BOOLEAN,
           off = sw \/ off = FALSE, Sound(k, c, h, f, b, sw)
    PROVE  Sound(k, c, h, f, b, off)
  BY DEF Sound, Content, Encoding, Off

(* One thread goes on.                                                     *)
Alone(t) ==
    /\ key' = key /\ switch' \in BOOLEAN /\ (switch' = switch \/ switch' = FALSE)
    /\ file' = [s \in Threads |-> file'[s]] /\ back' = [s \in Threads |-> back'[s]]
    /\ \A s \in Threads \ {t} : file'[s] = file[s] /\ back'[s] = back[s]

LEMMA OthersStay ==
    ASSUME IInv, NEW t \in Threads, Alone(t),
           call' = [s \in Threads |-> call'[s]], heap' = [s \in Threads |-> heap'[s]],
           \A s \in Threads \ {t} : call'[s] = call[s] /\ heap'[s] = heap[s],
           Sound(key, call'[t], heap'[t], file'[t], back'[t], switch')
    PROVE  IInv'
<1>1. key' = key /\ KeyInv'
  BY DEF Alone, IInv, KeyInv
<1>2. ASSUME NEW s \in Threads
      PROVE  Sound(key', call'[s], heap'[s], file'[s], back'[s], switch')
  <2>1. CASE s = t
    BY <1>1, <2>1
  <2>2. CASE s # t
    <3>1. Sound(key, call[s], heap[s], file[s], back[s], switch)
      BY DEF IInv
    <3>2. Sound(key, call[s], heap[s], file[s], back[s], switch')
      BY <3>1, SwitchMayFall DEF Alone, IInv
    <3> QED
      BY <1>1, <2>2, <3>2 DEF Alone
  <2> QED
    BY <2>1, <2>2
<1> QED
  BY <1>1, <1>2 DEF IInv, Alone

LEMMA StepKeeps ==
    ASSUME IInv, NEW t \in Threads, Alone(t),
           NEW made, NEW freed, NEW new, Step(t, made, freed, new),
           Pending(call[t].todo) # "none",
           new = [op |-> call[t].op, form |-> call[t].form, todo |-> call[t].todo,
                  pq |-> new.pq, trad |-> new.trad, blob |-> new.blob, ret |-> new.ret,
                  fault |-> call[t].fault],
           NEW y, y = After(IsKem(key), IsEc(key), call[t].op, call[t].form,
                            Pending(call[t].todo)),
           NEW held, held = Holding(IsKem(key), IsEc(key), call[t].op, call[t].form,
                                    Pending(call[t].todo)),
           made \intersect held = {}, freed \subseteq held,
           (held \union made) \ freed
               = Holding(IsKem(key), IsEc(key), call[t].op, call[t].form, y),
           \A d : /\ d = [op |-> call[t].op, form |-> call[t].form,
                          todo |-> Tail(call[t].todo), pq |-> new.pq, trad |-> new.trad,
                          blob |-> new.blob, ret |-> new.ret, fault |-> call[t].fault]
                  /\ Pending(d.todo) = y
                  => Content(key, d, file'[t], back'[t], switch')
    PROVE  IInv'
<1> DEFINE d == [new EXCEPT !.todo = Tail(call[t].todo)]
           h == [b \in Blocks |-> heap[t][b] + (IF b \in made THEN 1 ELSE 0)
                                             - (IF b \in freed THEN 1 ELSE 0)]
<1>1. /\ call' = [s \in Threads |-> call'[s]] /\ call'[t] = d
      /\ \A s \in Threads \ {t} : call'[s] = call[s]
  BY DEF Step, IInv
<1>2. /\ heap' = [s \in Threads |-> heap'[s]] /\ heap'[t] = h
      /\ \A s \in Threads \ {t} : heap'[s] = heap[s]
  BY DEF Step, Settle, IInv
<1>3. Shape(key, call[t]) /\ Balanced(key, call[t], heap[t])
  BY DEF IInv, Sound
<1>4. /\ d = [op |-> call[t].op, form |-> call[t].form, todo |-> Tail(call[t].todo),
              pq |-> new.pq, trad |-> new.trad, blob |-> new.blob, ret |-> new.ret,
              fault |-> call[t].fault]
      /\ Shape(key, d) /\ Pending(d.todo) = y /\ Balanced(key, d, h)
  <2> DEFINE e == [op |-> call[t].op, form |-> call[t].form, todo |-> Tail(call[t].todo),
                   pq |-> new.pq, trad |-> new.trad, blob |-> new.blob, ret |-> new.ret,
                   fault |-> call[t].fault]
  <2>1. d = e
    <3> DEFINE pq == new.pq  trad == new.trad  blob == new.blob  ret == new.ret
               todo == call[t].todo  op == call[t].op  form == call[t].form  fault == call[t].fault
               z == Tail(call[t].todo)
    <3>1. new = [op |-> op, form |-> form, todo |-> todo, pq |-> pq, trad |-> trad,
                 blob |-> blob, ret |-> ret, fault |-> fault]
      OBVIOUS
    <3>2. [new EXCEPT !.todo = z] = [op |-> op, form |-> form, todo |-> z, pq |-> pq,
                trad |-> trad, blob |-> blob, ret |-> ret, fault |-> fault]
      <4> HIDE DEF pq, trad, blob, ret, todo, op, form, fault, z
      <4> QED
        BY <3>1
    <3> QED
      BY <3>2
  <2>2. /\ Tail(call[t].todo) = Rest(IsKem(key), IsEc(key), call[t].op, call[t].form, y)
        /\ Fits(IsKem(key), IsEc(key), call[t].op, call[t].form, y)
    <3> DEFINE kem == IsKem(key)  ec == IsEc(key)  op == call[t].op  form == call[t].form
               x == Pending(call[t].todo)
    <3>1. Fits(kem, ec, op, form, x) /\ call[t].todo = Rest(kem, ec, op, form, x) /\ x # "none"
      BY <1>3 DEF Shape, Ends
    <3>2. y = After(kem, ec, op, form, x)
      OBVIOUS
    <3> HIDE DEF kem, ec, op, form, x
    <3>3. /\ Tail(Rest(kem, ec, op, form, x)) = Rest(kem, ec, op, form, y)
          /\ Fits(kem, ec, op, form, y)
      BY <3>1, <3>2, Onward
    <3> QED
      BY <3>1, <3>3 DEF kem, ec, op, form
  <2>3. Pending(Tail(call[t].todo)) = y
    <3>1. CASE y = "none"
      BY <2>2, <3>1 DEF Rest, Pending
    <3>2. CASE y # "none"
      <4>1. /\ Rest(IsKem(key), IsEc(key), call[t].op, call[t].form, y) # <<>>
            /\ Head(Rest(IsKem(key), IsEc(key), call[t].op, call[t].form, y)) = y
        BY <2>2, <3>2, Onward
      <4> QED
        BY <2>2, <4>1 DEF Pending
    <3> QED
      BY <3>1, <3>2
  <2>4. Shape(key, e)
    BY <1>3, <2>2, <2>3 DEF Shape, Ends
  <2>5. [b \in Blocks |-> heap[t][b] + (IF b \in made THEN 1 ELSE 0)
                              - (IF b \in freed THEN 1 ELSE 0)]
            = Exactly(Holding(IsKem(key), IsEc(key), call[t].op, call[t].form, y))
    <3>1. heap[t] = Exactly(held)
      BY <1>3 DEF Balanced
    <3>2. [b \in Blocks |-> Exactly(held)[b] + (IF b \in made THEN 1 ELSE 0)
                                             - (IF b \in freed THEN 1 ELSE 0)]
              = Exactly((held \union made) \ freed)
      BY DEF Exactly
    <3> QED
      BY <3>1, <3>2
  <2>6. Balanced(key, e, [b \in Blocks |-> heap[t][b] + (IF b \in made THEN 1 ELSE 0)
                                             - (IF b \in freed THEN 1 ELSE 0)])
    BY <2>3, <2>5 DEF Balanced
  <2> QED
    BY <2>1, <2>3, <2>4, <2>6
<1> HIDE DEF d, h
<1>5. Sound(key, d, h, file'[t], back'[t], switch')
  BY <1>4 DEF Sound
<1> QED
  BY <1>1, <1>2, <1>5, OthersStay

LEMMA RefuseKeeps ==
    ASSUME IInv, NEW t \in Threads, Alone(t),
           NEW freed, NEW fault \in BOOLEAN, Refuse(t, freed, fault),
           freed = Holding(IsKem(key), IsEc(key), call[t].op, call[t].form,
                           Pending(call[t].todo)),
           \A d : d = [op |-> call[t].op, form |-> call[t].form, todo |-> <<>>,
                       pq |-> call[t].pq, trad |-> call[t].trad, blob |-> call[t].blob,
                       ret |-> 0, fault |-> (call[t].fault \/ fault)]
                  => Content(key, d, file'[t], back'[t], switch')
    PROVE  IInv'
<1> DEFINE d == [call[t] EXCEPT !.todo = <<>>, !.ret = 0, !.fault = @ \/ fault]
           h == [b \in Blocks |-> heap[t][b] + (IF b \in {} THEN 1 ELSE 0)
                                             - (IF b \in freed THEN 1 ELSE 0)]
<1>1. /\ call' = [s \in Threads |-> call'[s]] /\ call'[t] = d
      /\ \A s \in Threads \ {t} : call'[s] = call[s]
  BY DEF Refuse, IInv
<1>2. /\ heap' = [s \in Threads |-> heap'[s]] /\ heap'[t] = h
      /\ \A s \in Threads \ {t} : heap'[s] = heap[s]
  BY DEF Refuse, Settle, IInv
<1>3. Shape(key, call[t]) /\ Balanced(key, call[t], heap[t])
  BY DEF IInv, Sound
<1>4. /\ d = [op |-> call[t].op, form |-> call[t].form, todo |-> <<>>,
              pq |-> call[t].pq, trad |-> call[t].trad, blob |-> call[t].blob,
              ret |-> 0, fault |-> (call[t].fault \/ fault)]
      /\ Shape(key, d) /\ Balanced(key, d, h)
  <2> DEFINE e == [op |-> call[t].op, form |-> call[t].form, todo |-> <<>>,
                   pq |-> call[t].pq, trad |-> call[t].trad, blob |-> call[t].blob,
                   ret |-> 0, fault |-> (call[t].fault \/ fault)]
             held == Holding(IsKem(key), IsEc(key), call[t].op, call[t].form,
                             Pending(call[t].todo))
  <2>1. d = e
    <3> DEFINE pq == call[t].pq  trad == call[t].trad  blob == call[t].blob  ret == call[t].ret
               todo == call[t].todo  op == call[t].op  form == call[t].form  was == call[t].fault
    <3>1. call[t] = [op |-> op, form |-> form, todo |-> todo, pq |-> pq, trad |-> trad,
               blob |-> blob, ret |-> ret, fault |-> was]
      BY <1>3 DEF Shape
    <3> DEFINE first == [call[t] EXCEPT !.todo = <<>>]
               second == [first EXCEPT !.ret = 0]
    <3>2. first = [op |-> op, form |-> form, todo |-> <<>>, pq |-> pq, trad |-> trad,
                   blob |-> blob, ret |-> ret, fault |-> was]
      <4> HIDE DEF pq, trad, blob, ret, todo, op, form, was
      <4> QED
        BY <3>1
    <3>3. second = [op |-> op, form |-> form, todo |-> <<>>, pq |-> pq, trad |-> trad,
                    blob |-> blob, ret |-> 0, fault |-> was]
      <4> HIDE DEF first, pq, trad, blob, ret, todo, op, form, was
      <4> QED
        BY <3>2
    <3>4. [second EXCEPT !.fault = was \/ fault] =
              [op |-> op, form |-> form, todo |-> <<>>, pq |-> pq, trad |-> trad,
               blob |-> blob, ret |-> 0, fault |-> (was \/ fault)]
      <4> HIDE DEF second, pq, trad, blob, ret, todo, op, form, was
      <4> QED
        BY <3>3
    <3>5. [second EXCEPT !.fault = was \/ fault] = d
      OBVIOUS
    <3> QED
      BY <3>4, <3>5
  <2>2. Pending(<<>>) = "none"
    BY DEF Pending
  <2>3. Shape(key, e)
    BY <1>3, <2>2 DEF Shape, Ends, Fits, Rest
  <2>4. [b \in Blocks |-> heap[t][b] + (IF b \in {} THEN 1 ELSE 0) - (IF b \in held THEN 1 ELSE 0)]
            = Exactly({})
    BY <1>3 DEF Balanced, Exactly
  <2>5. Holding(IsKem(key), IsEc(key), call[t].op, call[t].form, "none") = {}
    BY DEF Holding
  <2>6. Balanced(key, e, [b \in Blocks |-> heap[t][b] + (IF b \in {} THEN 1 ELSE 0)
                                             - (IF b \in held THEN 1 ELSE 0)])
    BY <2>2, <2>4, <2>5 DEF Balanced
  <2> QED
    BY <2>1, <2>3, <2>6
<1> HIDE DEF d, h
<1>5. Sound(key, d, h, file'[t], back'[t], switch')
  BY <1>4 DEF Sound
<1> QED
  BY <1>1, <1>2, <1>5, OthersStay

-----------------------------------------------------------------------------
(* The steps, one by one.                                                  *)

LEMMA AtStep ==
    ASSUME IInv, NEW t \in Threads, NEW x, x # "none", At(t, x)
    PROVE  /\ Pending(call[t].todo) = x
           /\ Fits(IsKem(key), IsEc(key), call[t].op, call[t].form, x)
           /\ Shape(key, call[t])
           /\ Content(key, call[t], file[t], back[t], switch)
           /\ Kem = IsKem(key)
  BY DEF IInv, Sound, At, Pending, Shape, Ends, Kem, IsKem

(* An encoder that is given no reason to stop has failed by libcrypto.     *)
LEMMA EncoderRefuses ==
    ASSUME IInv, NEW t \in Threads, Alone(t), back'[t] = back[t],
           NEW freed, NEW fault \in BOOLEAN, Refuse(t, freed, fault),
           Pending(call[t].todo) # "none",
           call[t].op \in {"pki", "spki"},
           freed = Holding(IsKem(key), IsEc(key), call[t].op, call[t].form,
                           Pending(call[t].todo)),
           fault \/ ~ Has(key, call[t].op),
           \/ file'[t] = Blank
           \/ Saved(key, file'[t]) /\ file'[t].op = call[t].op /\ file'[t].written = "part"
    PROVE  IInv'
<1>1. /\ Encoding(key, call[t], file[t], back[t], switch)
      /\ call[t].fault \in BOOLEAN
  BY DEF IInv, Sound, Content, Shape
<1>2. ASSUME NEW d, d = [op |-> call[t].op, form |-> call[t].form, todo |-> <<>>,
                         pq |-> call[t].pq, trad |-> call[t].trad, blob |-> call[t].blob,
                         ret |-> 0, fault |-> (call[t].fault \/ fault)]
      PROVE  Content(key, d, file'[t], back'[t], switch')
  <2>1. /\ d.op = call[t].op /\ Pending(d.todo) = "none" /\ d.ret = 0
        /\ d.trad = call[t].trad /\ d.fault = (call[t].fault \/ fault)
    BY <1>2 DEF Pending
  <2>2. d.op # None /\ d.op # "read"
    BY <2>1, KeyFileAssumption
  <2>3. file'[t].written # "whole"
    BY DEF Blank
  <2>4. d.fault \/ ~ Has(key, d.op)
    BY <1>1, <2>1
  <2>5. back'[t] = None /\ d.trad \in {<<>>, TradOf(key, d.op)}
    BY <1>1, <2>1 DEF Encoding
  <2>6. Encoding(key, d, file'[t], back'[t], switch')
    BY <2>1, <2>3, <2>4, <2>5 DEF Encoding
  <2> QED
    BY <2>1, <2>2, <2>6 DEF Content
<1> QED
  BY <1>2, RefuseKeeps

(* The obligations of a step that is done.                                 *)
LEMMA EncoderSteps ==
    ASSUME IInv, NEW t \in Threads, Alone(t), back'[t] = back[t], file'[t] = file[t],
           NEW made, NEW freed, NEW new, Step(t, made, freed, new),
           NEW x, x = Pending(call[t].todo), x \notin {"none", "write"},
           NEW op, op = call[t].op, op \in {"pki", "spki"},
           NEW form, form = call[t].form,
           new = [op |-> op, form |-> form, todo |-> call[t].todo,
                  pq |-> new.pq, trad |-> new.trad, blob |-> new.blob, ret |-> call[t].ret,
                  fault |-> call[t].fault],
           NEW y, y = After(IsKem(key), IsEc(key), op, form, x),
           made \intersect Holding(IsKem(key), IsEc(key), op, form, x) = {},
           freed \subseteq Holding(IsKem(key), IsEc(key), op, form, x),
           (Holding(IsKem(key), IsEc(key), op, form, x) \union made) \ freed
               = Holding(IsKem(key), IsEc(key), op, form, y),
           new.trad = IF y \in {"oid", "copy", "switch", "trad"}
                            \/ (y = "pq" /\ ~ LastHalfFirst(key, op))
                      THEN <<>> ELSE TradOf(key, op),
           y \in {"copy", "switch", "wrap", "der", "bio", "write"}
                 \/ (y \in {"trad", "blob"} /\ ~ LastHalfFirst(key, op)) =>
              new.pq = PqOf(key, op) /\ Has(key, op),
           y \in {"wrap", "der", "bio", "write"} =>
              new.blob = Join(PqOf(key, op), TradOf(key, op)),
           y = "trad" /\ IsKem(key) /\ IsEc(key) /\ op = "pki" => Off(switch')
    PROVE  IInv'
<1>1. /\ Encoding(key, call[t], file[t], back[t], switch)
      /\ Fits(IsKem(key), IsEc(key), op, form, x)
      /\ call[t].ret = None
  BY DEF IInv, Sound, Content, Shape, Ends
<1>2. y # "none" /\ y # "oid"
  BY <1>1 DEF After, Fits
<1>3. ASSUME NEW d, d = [op |-> op, form |-> form, todo |-> Tail(call[t].todo),
                         pq |-> new.pq, trad |-> new.trad, blob |-> new.blob,
                         ret |-> call[t].ret, fault |-> call[t].fault],
             Pending(d.todo) = y
      PROVE  Content(key, d, file'[t], back'[t], switch')
  <2>1. /\ d.op = op /\ d.trad = new.trad /\ d.pq = new.pq /\ d.blob = new.blob
        /\ d.ret = None
    BY <1>1, <1>3
  <2>2. d.op # None /\ d.op # "read"
    BY <2>1, KeyFileAssumption
  <2>3. d.trad \in {<<>>, TradOf(key, d.op)}
    BY <2>1
  <2>4. back'[t] = None /\ file'[t] = Blank
    BY <1>1 DEF Encoding
  <2>5. Encoding(key, d, file'[t], back'[t], switch')
    BY <1>2, <1>3, <2>1, <2>3, <2>4 DEF Encoding
  <2> QED
    BY <2>1, <2>2, <2>5 DEF Content
<1> QED
  BY <1>3, StepKeeps

(* Assignments to the fields of a call.                                    *)
LEMMA AssignPq ==
    ASSUME NEW c, NEW a, NEW b,
           c = [op |-> c.op, form |-> c.form, todo |-> c.todo, pq |-> c.pq,
                trad |-> c.trad, blob |-> c.blob, ret |-> c.ret, fault |-> c.fault],
           NEW new, new = [c EXCEPT !.pq = a, !.blob = b]
    PROVE  /\ new = [op |-> c.op, form |-> c.form, todo |-> c.todo, pq |-> new.pq,
                     trad |-> new.trad, blob |-> new.blob, ret |-> new.ret,
                     fault |-> c.fault]
           /\ new.pq = a /\ new.trad = c.trad /\ new.blob = b /\ new.ret = c.ret
<1> DEFINE op == c.op  form == c.form  todo == c.todo  pq == c.pq  trad == c.trad
           blob == c.blob  ret == c.ret  fault == c.fault
           first == [c EXCEPT !.pq = a]
<1>1. c = [op |-> op, form |-> form, todo |-> todo, pq |-> pq, trad |-> trad,
           blob |-> blob, ret |-> ret, fault |-> fault]
  OBVIOUS
<1>2. first =
          [op |-> op, form |-> form, todo |-> todo, pq |-> a,
           trad |-> trad, blob |-> blob, ret |-> ret, fault |-> fault]
  <2> HIDE DEF op, form, todo, pq, trad, blob, ret, fault
  <2> QED
    BY <1>1
<1>3. [first EXCEPT !.blob = b] =
          [op |-> op, form |-> form, todo |-> todo, pq |-> a,
           trad |-> trad, blob |-> b, ret |-> ret, fault |-> fault]
  <2> HIDE DEF first, op, form, todo, pq, trad, blob, ret, fault
  <2> QED
    BY <1>2
<1>4. [first EXCEPT !.blob = b] = [c EXCEPT !.pq = a, !.blob = b]
  OBVIOUS
<1> QED
  BY <1>3, <1>4

LEMMA AssignHalves ==
    ASSUME NEW c, NEW a, NEW b,
           c = [op |-> c.op, form |-> c.form, todo |-> c.todo, pq |-> c.pq,
                trad |-> c.trad, blob |-> c.blob, ret |-> c.ret, fault |-> c.fault],
           NEW new, new = [c EXCEPT !.pq = a, !.trad = b]
    PROVE  /\ new = [op |-> c.op, form |-> c.form, todo |-> c.todo, pq |-> new.pq,
                     trad |-> new.trad, blob |-> new.blob, ret |-> new.ret,
                     fault |-> c.fault]
           /\ new.pq = a /\ new.trad = b /\ new.blob = c.blob /\ new.ret = c.ret
<1> DEFINE op == c.op  form == c.form  todo == c.todo  pq == c.pq  trad == c.trad
           blob == c.blob  ret == c.ret  fault == c.fault
           first == [c EXCEPT !.pq = a]
<1>1. c = [op |-> op, form |-> form, todo |-> todo, pq |-> pq, trad |-> trad,
           blob |-> blob, ret |-> ret, fault |-> fault]
  OBVIOUS
<1>2. first =
          [op |-> op, form |-> form, todo |-> todo, pq |-> a,
           trad |-> trad, blob |-> blob, ret |-> ret, fault |-> fault]
  <2> HIDE DEF op, form, todo, pq, trad, blob, ret, fault
  <2> QED
    BY <1>1
<1>3. [first EXCEPT !.trad = b] =
          [op |-> op, form |-> form, todo |-> todo, pq |-> a,
           trad |-> b, blob |-> blob, ret |-> ret, fault |-> fault]
  <2> HIDE DEF first, op, form, todo, pq, trad, blob, ret, fault
  <2> QED
    BY <1>2
<1>4. [first EXCEPT !.trad = b] = [c EXCEPT !.pq = a, !.trad = b]
  OBVIOUS
<1> QED
  BY <1>3, <1>4

LEMMA AssignTrad ==
    ASSUME NEW c, NEW a,
           c = [op |-> c.op, form |-> c.form, todo |-> c.todo, pq |-> c.pq,
                trad |-> c.trad, blob |-> c.blob, ret |-> c.ret, fault |-> c.fault],
           NEW new, new = [c EXCEPT !.trad = a]
    PROVE  /\ new = [op |-> c.op, form |-> c.form, todo |-> c.todo, pq |-> new.pq,
                     trad |-> new.trad, blob |-> new.blob, ret |-> new.ret,
                     fault |-> c.fault]
           /\ new.pq = c.pq /\ new.trad = a /\ new.blob = c.blob /\ new.ret = c.ret
<1> DEFINE op == c.op  form == c.form  todo == c.todo  pq == c.pq  trad == c.trad
           blob == c.blob  ret == c.ret  fault == c.fault
<1>1. c = [op |-> op, form |-> form, todo |-> todo, pq |-> pq, trad |-> trad,
           blob |-> blob, ret |-> ret, fault |-> fault]
  OBVIOUS
<1>2. [c EXCEPT !.trad = a] =
          [op |-> op, form |-> form, todo |-> todo, pq |-> pq,
           trad |-> a, blob |-> blob, ret |-> ret, fault |-> fault]
  <2> HIDE DEF op, form, todo, pq, trad, blob, ret, fault
  <2> QED
    BY <1>1
<1> QED
  BY <1>2

LEMMA AssignBlob ==
    ASSUME NEW c, NEW a,
           c = [op |-> c.op, form |-> c.form, todo |-> c.todo, pq |-> c.pq,
                trad |-> c.trad, blob |-> c.blob, ret |-> c.ret, fault |-> c.fault],
           NEW new, new = [c EXCEPT !.blob = a]
    PROVE  /\ new = [op |-> c.op, form |-> c.form, todo |-> c.todo, pq |-> new.pq,
                     trad |-> new.trad, blob |-> new.blob, ret |-> new.ret,
                     fault |-> c.fault]
           /\ new.pq = c.pq /\ new.trad = c.trad /\ new.blob = a /\ new.ret = c.ret
<1> DEFINE op == c.op  form == c.form  todo == c.todo  pq == c.pq  trad == c.trad
           blob == c.blob  ret == c.ret  fault == c.fault
<1>1. c = [op |-> op, form |-> form, todo |-> todo, pq |-> pq, trad |-> trad,
           blob |-> blob, ret |-> ret, fault |-> fault]
  OBVIOUS
<1>2. [c EXCEPT !.blob = a] =
          [op |-> op, form |-> form, todo |-> todo, pq |-> pq,
           trad |-> trad, blob |-> a, ret |-> ret, fault |-> fault]
  <2> HIDE DEF op, form, todo, pq, trad, blob, ret, fault
  <2> QED
    BY <1>1
<1> QED
  BY <1>2

LEMMA AssignRet ==
    ASSUME NEW c, NEW a,
           c = [op |-> c.op, form |-> c.form, todo |-> c.todo, pq |-> c.pq,
                trad |-> c.trad, blob |-> c.blob, ret |-> c.ret, fault |-> c.fault],
           NEW new, new = [c EXCEPT !.ret = a]
    PROVE  /\ new = [op |-> c.op, form |-> c.form, todo |-> c.todo, pq |-> new.pq,
                     trad |-> new.trad, blob |-> new.blob, ret |-> new.ret,
                     fault |-> c.fault]
           /\ new.pq = c.pq /\ new.trad = c.trad /\ new.blob = c.blob /\ new.ret = a
<1> DEFINE op == c.op  form == c.form  todo == c.todo  pq == c.pq  trad == c.trad
           blob == c.blob  ret == c.ret  fault == c.fault
<1>1. c = [op |-> op, form |-> form, todo |-> todo, pq |-> pq, trad |-> trad,
           blob |-> blob, ret |-> ret, fault |-> fault]
  OBVIOUS
<1>2. [c EXCEPT !.ret = a] =
          [op |-> op, form |-> form, todo |-> todo, pq |-> pq,
           trad |-> trad, blob |-> blob, ret |-> a, fault |-> fault]
  <2> HIDE DEF op, form, todo, pq, trad, blob, ret, fault
  <2> QED
    BY <1>1
<1> QED
  BY <1>2

LEMMA AlgObjKeeps ==
    ASSUME IInv, NEW t \in Threads, AlgObj(t)
    PROVE  IInv'
<1>1. /\ Pending(call[t].todo) = "oid" /\ call[t].op \in {"pki", "spki"}
      /\ Shape(key, call[t]) /\ Encoding(key, call[t], file[t], back[t], switch)
  BY AtStep DEF AlgObj, Fits, Content
<1>2. Alone(t) /\ back'[t] = back[t] /\ file'[t] = file[t] /\ file[t] = Blank
  BY <1>1 DEF AlgObj, Alone, IInv, Encoding
<1>3. CASE Refuse(t, {}, TRUE)
  BY <1>1, <1>2, <1>3, EncoderRefuses DEF Holding
<1>4. CASE Step(t, {"aobj"}, {}, call[t])
  BY <1>1, <1>2, <1>4, EncoderSteps DEF Holding, After, Shape, Encoding, LastHalfFirst
<1> QED
  BY <1>3, <1>4 DEF AlgObj

LEMMA PqHalfKeeps ==
    ASSUME IInv, NEW t \in Threads, PqHalf(t)
    PROVE  IInv'
<1> DEFINE op == call[t].op
           last == Kem /\ op = "spki"
           held == {"aobj"} \union (IF last THEN {"trad", "blob"} ELSE {})
           new == [call[t] EXCEPT !.pq = PqOut(op),
                       !.blob = IF last THEN Join(PqOut(op), call[t].trad) ELSE <<>>]
<1>1. /\ Pending(call[t].todo) = "pq" /\ op \in {"pki", "spki"}
      /\ Shape(key, call[t]) /\ Encoding(key, call[t], file[t], back[t], switch)
      /\ Kem = IsKem(key)
  BY AtStep DEF PqHalf, Fits, Content
<1>2. Alone(t) /\ back'[t] = back[t] /\ file'[t] = file[t] /\ file[t] = Blank
  BY <1>1 DEF PqHalf, Alone, IInv, Encoding
<1>3. held = Holding(IsKem(key), IsEc(key), op, call[t].form, "pq")
  BY <1>1 DEF Holding
<1>4. Material(op) = Has(key, op)
  BY <1>1 DEF Material, Has
<1>5. CASE ~ Material(op) /\ Refuse(t, held, FALSE)
  <2> HIDE DEF op, held
  <2> QED
    BY <1>1, <1>2, <1>3, <1>4, <1>5, EncoderRefuses DEF op
<1>6. CASE Refuse(t, held, TRUE)
  <2> HIDE DEF op, held
  <2> QED
    BY <1>1, <1>2, <1>3, <1>6, EncoderRefuses DEF op
<1>7. CASE /\ Material(op)
           /\ Step(t, IF Kem THEN {} ELSE {"pq"}, IF last THEN {"trad"} ELSE {}, new)
  <2>1. /\ new = [op |-> op, form |-> call[t].form, todo |-> call[t].todo, pq |-> new.pq,
                  trad |-> new.trad, blob |-> new.blob, ret |-> new.ret,
                  fault |-> call[t].fault]
        /\ new.pq = PqOut(op) /\ new.trad = call[t].trad /\ new.ret = call[t].ret
        /\ new.blob = IF last THEN Join(PqOut(op), call[t].trad) ELSE <<>>
    <3> DEFINE pqOut == PqOut(op)
               whole == IF last THEN Join(PqOut(op), call[t].trad) ELSE <<>>
    <3>1. call[t] = [op |-> call[t].op, form |-> call[t].form, todo |-> call[t].todo,
                     pq |-> call[t].pq, trad |-> call[t].trad, blob |-> call[t].blob,
                     ret |-> call[t].ret, fault |-> call[t].fault]
      BY <1>1 DEF Shape
    <3>2. new = [call[t] EXCEPT !.pq = pqOut, !.blob = whole]
      OBVIOUS
    <3> HIDE DEF new, pqOut, whole
    <3> QED
      BY <3>1, <3>2, AssignPq DEF pqOut, whole
  <2>2. PqOut(op) = PqOf(key, op) /\ (last <=> LastHalfFirst(key, op))
    BY <1>1 DEF PqOut, PqOf, LastHalfFirst
  <2> HIDE DEF new
  <2> DEFINE y == After(IsKem(key), IsEc(key), op, call[t].form, "pq")
             made == IF Kem THEN {} ELSE {"pq"}
             freed == IF last THEN {"trad"} ELSE {}
  <2>3. /\ y = IF last THEN "wrap" ELSE y
        /\ ~ last => y \in {"trad", "switch", "copy"}
        /\ y = "trad" /\ IsKem(key) /\ IsEc(key) /\ op = "pki" => FALSE
    BY <1>1 DEF After
  <2>4. /\ made \intersect held = {} /\ freed \subseteq held
        /\ (held \union made) \ freed
               = Holding(IsKem(key), IsEc(key), op, call[t].form, y)
    BY <1>1 DEF Holding, After
  <2>5. new.trad = IF y \in {"oid", "copy", "switch", "trad"}
                            \/ (y = "pq" /\ ~ LastHalfFirst(key, op))
                      THEN <<>> ELSE TradOf(key, op)
    BY <1>1, <2>1, <2>2, <2>3 DEF Encoding
  <2>6. y \in {"wrap", "der", "bio", "write"} =>
              new.blob = Join(PqOf(key, op), TradOf(key, op))
    BY <1>1, <2>1, <2>2, <2>3, <2>5
  <2> HIDE DEF y, made, freed, held, last
  <2>7. Step(t, made, freed, new)
    BY <1>7 DEF made, freed, last
  <2>8. y \in {"copy", "switch", "wrap", "der", "bio", "write"}
              \/ (y \in {"trad", "blob"} /\ ~ LastHalfFirst(key, op)) =>
            new.pq = PqOf(key, op) /\ Has(key, op)
    BY <1>4, <1>7, <2>1, <2>2
  <2> HIDE DEF op
  <2>9. new = [op |-> op, form |-> call[t].form, todo |-> call[t].todo, pq |-> new.pq,
               trad |-> new.trad, blob |-> new.blob, ret |-> call[t].ret,
               fault |-> call[t].fault]
    BY <2>1
  <2>10. y = "trad" /\ IsKem(key) /\ IsEc(key) /\ op = "pki" => Off(switch')
    BY <2>3
  <2> QED
    BY <1>1, <1>2, <1>3, <2>4, <2>5, <2>6, <2>7, <2>8, <2>9, <2>10, EncoderSteps DEF y, op
<1> QED
  BY <1>5, <1>6, <1>7 DEF PqHalf

LEMMA CopyKeyKeeps ==
    ASSUME IInv, NEW t \in Threads, CopyKey(t)
    PROVE  IInv'
<1>1. /\ Pending(call[t].todo) = "copy" /\ call[t].op = "pki" /\ ~ IsKem(key)
      /\ Shape(key, call[t]) /\ Encoding(key, call[t], file[t], back[t], switch)
  BY AtStep DEF CopyKey, Fits, Content
<1>2. Alone(t) /\ back'[t] = back[t] /\ file'[t] = file[t] /\ file[t] = Blank
  BY <1>1 DEF CopyKey, Alone, IInv, Encoding
<1>3. CASE Refuse(t, {"pq", "aobj"}, TRUE)
  BY <1>1, <1>2, <1>3, EncoderRefuses DEF Holding
<1>4. CASE Step(t, {"copy"}, {}, call[t])
  <2>1. After(IsKem(key), IsEc(key), call[t].op, call[t].form, "copy") = "trad"
    BY DEF After
  <2>2. {"aobj", "pq", "copy"} = Holding(IsKem(key), IsEc(key), call[t].op, call[t].form, "trad")
    BY <1>1, AtStep DEF Holding, Fits, CopyKey
  <2>3. {"aobj", "pq"} = Holding(IsKem(key), IsEc(key), call[t].op, call[t].form, "copy")
    BY DEF Holding
  <2> QED
    BY <1>1, <1>2, <1>4, <2>1, <2>2, <2>3, EncoderSteps DEF Shape, Encoding
<1> QED
  BY <1>3, <1>4 DEF CopyKey

LEMMA SwitchKeyKeeps ==
    ASSUME IInv, NEW t \in Threads, SwitchKey(t)
    PROVE  IInv'
<1>1. /\ Pending(call[t].todo) = "switch" /\ call[t].op = "pki" /\ IsKem(key)
      /\ Shape(key, call[t]) /\ Encoding(key, call[t], file[t], back[t], switch)
  BY AtStep DEF SwitchKey, Fits, Content
<1>2. Alone(t) /\ back'[t] = back[t] /\ file'[t] = file[t] /\ file[t] = Blank
  <2>1. switch' \in BOOLEAN /\ (switch' = switch \/ switch' = FALSE)
    BY DEF SwitchKey, IInv
  <2>2. key' = key /\ file' = file /\ back' = back
    BY DEF SwitchKey
  <2>3. file = [s \in Threads |-> file[s]] /\ back = [s \in Threads |-> back[s]]
    BY DEF IInv
  <2> QED
    BY <1>1, <2>1, <2>2, <2>3 DEF Alone, Encoding
<1>3. CASE Refuse(t, {"aobj"}, TRUE)
  BY <1>1, <1>2, <1>3, EncoderRefuses DEF Holding
<1>4. CASE Step(t, {}, {}, call[t]) /\ switch' = FALSE
  <2>1. After(IsKem(key), IsEc(key), call[t].op, call[t].form, "switch") = "trad"
    BY DEF After
  <2>2. /\ {"aobj"} = Holding(IsKem(key), IsEc(key), call[t].op, call[t].form, "trad")
        /\ {"aobj"} = Holding(IsKem(key), IsEc(key), call[t].op, call[t].form, "switch")
    BY <1>1 DEF Holding
  <2>3. Off(switch')
    BY <1>4 DEF Off
  <2>4. Step(t, {}, {}, call[t])
    BY <1>4
  <2> DEFINE none == {}
             held == Holding(IsKem(key), IsEc(key), call[t].op, call[t].form, "switch")
  <2>5. /\ none \intersect held = {} /\ none \subseteq held
        /\ (held \union none) \ none
               = Holding(IsKem(key), IsEc(key), call[t].op, call[t].form, "trad")
    BY <2>2
  <2>6. Step(t, none, none, call[t])
    BY <2>4
  <2>7. call[t].trad = <<>> /\ call[t].pq = PqOf(key, call[t].op) /\ Has(key, call[t].op)
    BY <1>1 DEF Encoding
  <2>8. call[t] = [op |-> call[t].op, form |-> call[t].form, todo |-> call[t].todo,
                   pq |-> call[t].pq, trad |-> call[t].trad, blob |-> call[t].blob,
                   ret |-> call[t].ret, fault |-> call[t].fault]
    BY <1>1 DEF Shape
  <2>9. Pending(call[t].todo) = "switch" /\ call[t].op \in {"pki", "spki"}
    BY <1>1
  <2> HIDE DEF none
  <2> QED
    BY <1>2, <2>1, <2>3, <2>5, <2>6, <2>7, <2>8, <2>9, EncoderSteps
<1> QED
  BY <1>3, <1>4 DEF SwitchKey

\* The octets are taken between the switch and anybody who would put it back:
\* nobody does.
LEMMA TradHalfKeeps ==
    ASSUME IInv, NEW t \in Threads, TradHalf(t)
    PROVE  IInv'
<1> DEFINE op == call[t].op
           held == TradHeld(op)
           copy == held \intersect {"copy"}
           trad == TradOut(op)
           new == [call[t] EXCEPT !.trad = trad]
<1>1. /\ Pending(call[t].todo) = "trad" /\ op \in {"pki", "spki"}
      /\ Shape(key, call[t]) /\ Encoding(key, call[t], file[t], back[t], switch)
      /\ Kem = IsKem(key) /\ EcPrivate(op) = (IsEc(key) /\ op = "pki")
  BY AtStep DEF TradHalf, Fits, Content, EcPrivate, IsEc
<1>2. Alone(t) /\ back'[t] = back[t] /\ file'[t] = file[t] /\ file[t] = Blank
  BY <1>1 DEF TradHalf, Alone, IInv, Encoding, SwitchAfter
<1>3. held = Holding(IsKem(key), IsEc(key), op, call[t].form, "trad")
  BY <1>1 DEF Holding, TradHeld
<1>4. trad = TradOf(key, op)
  <2>1. ~ (Kem /\ EcPrivate(op) /\ switch)
    BY <1>1 DEF Encoding, Off
  <2> QED
    BY <2>1 DEF TradOut, TradOf
<1>5. CASE Refuse(t, held, TRUE)
  <2> HIDE DEF op, held
  <2> QED
    BY <1>1, <1>2, <1>3, <1>5, EncoderRefuses DEF op
<1>6. CASE Step(t, {"trad"}, copy, new)
  <2>1. /\ new = [op |-> op, form |-> call[t].form, todo |-> call[t].todo, pq |-> new.pq,
                  trad |-> new.trad, blob |-> new.blob, ret |-> new.ret,
                  fault |-> call[t].fault]
        /\ new.pq = call[t].pq /\ new.trad = trad /\ new.ret = call[t].ret
    <3>1. call[t] = [op |-> call[t].op, form |-> call[t].form, todo |-> call[t].todo,
                     pq |-> call[t].pq, trad |-> call[t].trad, blob |-> call[t].blob,
                     ret |-> call[t].ret, fault |-> call[t].fault]
      BY <1>1 DEF Shape
    <3>2. new = [call[t] EXCEPT !.trad = trad]
      OBVIOUS
    <3> HIDE DEF new, trad
    <3> QED
      BY <3>1, <3>2, AssignTrad
  <2>2. new = [op |-> op, form |-> call[t].form, todo |-> call[t].todo, pq |-> new.pq,
               trad |-> new.trad, blob |-> new.blob, ret |-> call[t].ret,
               fault |-> call[t].fault]
    BY <2>1
  <2>3. After(IsKem(key), IsEc(key), op, call[t].form, "trad") = "blob"
    BY DEF After
  <2>4. /\ {"trad"} \intersect held = {} /\ copy \subseteq held
        /\ (held \union {"trad"}) \ copy
               = Holding(IsKem(key), IsEc(key), op, call[t].form, "blob")
    BY <1>1 DEF Holding, TradHeld
  <2>5. ~ LastHalfFirst(key, op) => new.pq = PqOf(key, op) /\ Has(key, op)
    BY <1>1, <2>1 DEF Encoding
  <2> HIDE DEF new, copy, held, trad, op
  <2> QED
    BY <1>1, <1>2, <1>3, <1>4, <1>6, <2>1, <2>2, <2>3, <2>4, <2>5, EncoderSteps DEF op
<1> QED
  BY <1>5, <1>6 DEF TradHalf

LEMMA BlobKeeps ==
    ASSUME IInv, NEW t \in Threads, Blob(t)
    PROVE  IInv'
<1> DEFINE op == call[t].op
           held == {"aobj"} \union HalvesHeld
           freed == IF Kem /\ call[t].op = "spki" THEN {} ELSE HalvesHeld
           blob == Join(call[t].pq, call[t].trad)
           new == [call[t] EXCEPT !.blob = blob]
           y == After(IsKem(key), IsEc(key), op, call[t].form, "blob")
<1>1. /\ Pending(call[t].todo) = "blob" /\ op \in {"pki", "spki"}
      /\ Shape(key, call[t]) /\ Encoding(key, call[t], file[t], back[t], switch)
      /\ Kem = IsKem(key)
  BY AtStep DEF Blob, Fits, Content
<1>2. Alone(t) /\ back'[t] = back[t] /\ file'[t] = file[t] /\ file[t] = Blank
  BY <1>1 DEF Blob, Alone, IInv, Encoding
<1>3. held = Holding(IsKem(key), IsEc(key), op, call[t].form, "blob")
  BY <1>1 DEF Holding, HalvesHeld
<1>4. CASE Refuse(t, held, TRUE)
  <2> HIDE DEF op, held
  <2> QED
    BY <1>1, <1>2, <1>3, <1>4, EncoderRefuses DEF op
<1>5. CASE Step(t, {"blob"}, freed, new)
  <2>1. /\ new = [op |-> op, form |-> call[t].form, todo |-> call[t].todo, pq |-> new.pq,
                  trad |-> new.trad, blob |-> new.blob, ret |-> new.ret,
                  fault |-> call[t].fault]
        /\ new.pq = call[t].pq /\ new.trad = call[t].trad /\ new.blob = blob
        /\ new.ret = call[t].ret
    <3>1. call[t] = [op |-> call[t].op, form |-> call[t].form, todo |-> call[t].todo,
                     pq |-> call[t].pq, trad |-> call[t].trad, blob |-> call[t].blob,
                     ret |-> call[t].ret, fault |-> call[t].fault]
      BY <1>1 DEF Shape
    <3>2. new = [call[t] EXCEPT !.blob = blob]
      OBVIOUS
    <3> HIDE DEF new, blob
    <3> QED
      BY <3>1, <3>2, AssignBlob
  <2>2. new = [op |-> op, form |-> call[t].form, todo |-> call[t].todo, pq |-> new.pq,
               trad |-> new.trad, blob |-> new.blob, ret |-> call[t].ret,
               fault |-> call[t].fault]
    BY <2>1
  <2>3. y = IF LastHalfFirst(key, op) THEN "pq" ELSE "wrap"
    BY DEF After, LastHalfFirst
  <2>4. /\ {"blob"} \intersect held = {} /\ freed \subseteq held
        /\ (held \union {"blob"}) \ freed
               = Holding(IsKem(key), IsEc(key), op, call[t].form, y)
    BY <1>1, <2>3 DEF Holding, HalvesHeld, LastHalfFirst
  <2>5. new.trad = TradOf(key, op)
    BY <1>1, <2>1 DEF Encoding
  <2>6. ~ LastHalfFirst(key, op) =>
            /\ new.pq = PqOf(key, op) /\ Has(key, op)
            /\ new.blob = Join(PqOf(key, op), TradOf(key, op))
    BY <1>1, <2>1, <2>5 DEF Encoding
  <2> HIDE DEF new, freed, held, blob, op, y
  <2> QED
    BY <1>1, <1>2, <1>3, <1>5, <2>2, <2>3, <2>4, <2>5, <2>6, EncoderSteps DEF op, y
<1> QED
  BY <1>4, <1>5 DEF Blob

LEMMA WrapKeeps ==
    ASSUME IInv, NEW t \in Threads, Wrap(t)
    PROVE  IInv'
<1>1. /\ Pending(call[t].todo) = "wrap" /\ call[t].op \in {"pki", "spki"}
      /\ Shape(key, call[t]) /\ Encoding(key, call[t], file[t], back[t], switch)
  BY AtStep DEF Wrap, Fits, Content
<1>2. Alone(t) /\ back'[t] = back[t] /\ file'[t] = file[t] /\ file[t] = Blank
  BY <1>1 DEF Wrap, Alone, IInv, Encoding
<1>3. CASE Refuse(t, {"aobj", "blob"}, TRUE)
  BY <1>1, <1>2, <1>3, EncoderRefuses DEF Holding
<1>4. CASE Step(t, {"info"}, {"aobj", "blob"}, call[t])
  <2> DEFINE y == After(IsKem(key), IsEc(key), call[t].op, call[t].form, "wrap")
  <2>1. y = IF ~ IsKem(key) /\ call[t].op = "spki" /\ call[t].form = "DER" THEN "der" ELSE "bio"
    BY DEF After
  <2>2. /\ {"info"} = Holding(IsKem(key), IsEc(key), call[t].op, call[t].form, y)
        /\ {"aobj", "blob"} = Holding(IsKem(key), IsEc(key), call[t].op, call[t].form, "wrap")
    BY <2>1 DEF Holding
  <2> QED
    BY <1>1, <1>2, <1>4, <2>1, <2>2, EncoderSteps DEF Shape, Encoding
<1> QED
  BY <1>3, <1>4 DEF Wrap

LEMMA DerEncodeKeeps ==
    ASSUME IInv, NEW t \in Threads, DerEncode(t)
    PROVE  IInv'
<1> DEFINE held == IF Kem THEN {"bio", "info"} ELSE {"info"}
           freed == IF Kem THEN {} ELSE {"info"}
<1>1. /\ Pending(call[t].todo) = "der" /\ call[t].op = "spki" /\ call[t].form = "DER"
      /\ Shape(key, call[t]) /\ Encoding(key, call[t], file[t], back[t], switch)
      /\ Kem = IsKem(key)
  BY AtStep DEF DerEncode, Fits, Content
<1>2. Alone(t) /\ back'[t] = back[t] /\ file'[t] = file[t] /\ file[t] = Blank
  BY <1>1 DEF DerEncode, Alone, IInv, Encoding
<1>3. held = Holding(IsKem(key), IsEc(key), call[t].op, call[t].form, "der")
  BY <1>1 DEF Holding
<1>4. CASE Refuse(t, held, TRUE)
  BY <1>1, <1>2, <1>3, <1>4, EncoderRefuses
<1>5. CASE Step(t, {"der"}, freed, call[t])
  <2> DEFINE y == After(IsKem(key), IsEc(key), call[t].op, call[t].form, "der")
  <2>1. y = IF Kem THEN "write" ELSE "bio"
    BY <1>1 DEF After
  <2>2. /\ {"der"} \intersect held = {} /\ freed \subseteq held
        /\ (held \union {"der"}) \ freed
               = Holding(IsKem(key), IsEc(key), call[t].op, call[t].form, y)
    BY <1>1, <2>1 DEF Holding
  <2> HIDE DEF held, freed
  <2> QED
    BY <1>1, <1>2, <1>3, <1>5, <2>1, <2>2, EncoderSteps DEF Shape, Encoding
<1> QED
  BY <1>4, <1>5 DEF DerEncode

LEMMA OpenBioKeeps ==
    ASSUME IInv, NEW t \in Threads, OpenBio(t)
    PROVE  IInv'
<1> DEFINE held == Written(t) \ (IF Kem THEN {"der"} ELSE {})
<1>1. /\ Pending(call[t].todo) = "bio" /\ call[t].op \in {"pki", "spki"}
      /\ Shape(key, call[t]) /\ Encoding(key, call[t], file[t], back[t], switch)
      /\ Kem = IsKem(key)
  BY AtStep DEF OpenBio, Fits, Content
<1>2. Alone(t) /\ back'[t] = back[t] /\ file'[t] = file[t] /\ file[t] = Blank
  BY <1>1 DEF OpenBio, Alone, IInv, Encoding
<1>3. held = Holding(IsKem(key), IsEc(key), call[t].op, call[t].form, "bio")
  BY <1>1 DEF Holding, Written
<1>4. CASE Refuse(t, held, TRUE)
  BY <1>1, <1>2, <1>3, <1>4, EncoderRefuses
<1>5. CASE Step(t, {"bio"}, {}, call[t])
  <2> DEFINE y == After(IsKem(key), IsEc(key), call[t].op, call[t].form, "bio")
  <2>1. y = IF Kem /\ call[t].op = "spki" /\ call[t].form = "DER" THEN "der" ELSE "write"
    BY <1>1 DEF After
  <2>2. /\ {"bio"} \intersect held = {}
        /\ held \union {"bio"} = Holding(IsKem(key), IsEc(key), call[t].op, call[t].form, y)
    BY <1>1, <2>1 DEF Holding, Written
  <2> HIDE DEF held
  <2> QED
    BY <1>1, <1>2, <1>3, <1>5, <2>1, <2>2, EncoderSteps DEF Shape, Encoding
<1> QED
  BY <1>4, <1>5 DEF OpenBio

-----------------------------------------------------------------------------
(* What the tables say.                                                    *)

LEMMA SigNamesAre ==
    SigNames = {
        "MLDSA44_RSA2048_PSS", "MLDSA44_RSA2048_PKCS15", "MLDSA44_ED25519",
        "MLDSA44_P256", "MLDSA65_RSA3072_PSS", "MLDSA65_RSA3072_PKCS15",
        "MLDSA65_RSA4096_PSS", "MLDSA65_RSA4096_PKCS15", "MLDSA65_P256",
        "MLDSA65_P384", "MLDSA65_BRAINPOOLP256", "MLDSA65_ED25519",
        "MLDSA87_P384", "MLDSA87_BRAINPOOLP384", "MLDSA87_ED448",
        "MLDSA87_RSA3072_PSS", "MLDSA87_RSA4096_PSS", "MLDSA87_P521"}
  BY DEF SigNames, SigOrder, ToSet

LEMMA KemNamesAre ==
    KemNames = {
        "MLKEM768_RSA2048", "MLKEM768_RSA3072", "MLKEM768_RSA4096",
        "MLKEM768_X25519", "MLKEM768_P256", "MLKEM768_P384",
        "MLKEM768_BRAINPOOLP256", "MLKEM1024_RSA3072", "MLKEM1024_P384",
        "MLKEM1024_BRAINPOOLP384", "MLKEM1024_X448", "MLKEM1024_P521"}
  BY DEF KemNames, KemOrder, ToSet

\* A row of the table for signatures is what generation makes under its name.
LEMMA SigRows ==
    /\ \A n \in SigNames : \E row \in composite_alg_table : row.name = n
    /\ \A row \in composite_alg_table :
          /\ row.name \in SigNames
          /\ row.pq = composite_algorithm_get_mldsa_name(row.name)
          /\ row.trad = classic_key_generate(composite_algorithm_get_trad_name(row.name),
                                             composite_algorithm_get_trad_param(row.name))
          /\ row.trad.type \in {"RSA", "EC", "ED25519", "ED448"}
<1>1. \A n \in SigNames : \E row \in composite_alg_table : row.name = n
  BY SigNamesAre DEF composite_alg_table, Row
<1>2. \A row \in composite_alg_table : row.name \in SigNames
  BY SigNamesAre DEF composite_alg_table, Row
<1>3. \A row \in composite_alg_table :
          row.pq = composite_algorithm_get_mldsa_name(row.name)
  BY DEF composite_alg_table, Row, composite_algorithm_get_mldsa_name
<1>4. \A row \in composite_alg_table :
          row.trad = classic_key_generate(composite_algorithm_get_trad_name(row.name),
                                          composite_algorithm_get_trad_param(row.name))
  BY AlgorithmsAssumption
     DEF composite_alg_table, Row, Trad, Ed, classic_key_generate,
         composite_algorithm_get_trad_name, composite_algorithm_get_trad_param,
         classic_id_from_algorithm, NID_X9_62_prime256v1, NID_secp384r1, NID_secp521r1,
         NID_brainpoolP256r1, NID_brainpoolP384r1
<1>5. \A row \in composite_alg_table : row.trad.type \in {"RSA", "EC", "ED25519", "ED448"}
  BY DEF composite_alg_table, Row, Trad, Ed
<1> QED
  BY <1>1, <1>2, <1>3, <1>4, <1>5

LEMMA KemRows ==
    /\ \A n \in KemNames : \E row \in kem_algorithms : row.name = n
    /\ \A row \in kem_algorithms : row.name \in KemNames
<1>1. \A n \in KemNames : \E row \in kem_algorithms : row.name = n
  BY KemNamesAre DEF kem_algorithms, Row
<1>2. \A row \in kem_algorithms : row.name \in KemNames
  BY KemNamesAre DEF kem_algorithms, Row
<1> QED
  BY <1>1, <1>2

LEMMA NoSharedName == SigNames \intersect KemNames = {}
  BY SigNamesAre, KemNamesAre

LEMMA TableAgrees ==
    ASSUME NEW n \in Names
    PROVE  LET row == alg_info_find(n)
           IN  /\ row \in composite_alg_table \union kem_algorithms
               /\ Generated(n).pq = row.pq /\ Generated(n).trad = row.trad
               /\ n \in SigNames => row.trad.type \in {"RSA", "EC", "ED25519", "ED448"}
<1> DEFINE row == alg_info_find(n)
<1>1. \E r \in composite_alg_table \union kem_algorithms : r.name = n
  BY SigRows, KemRows DEF Names
<1>2. row \in composite_alg_table \union kem_algorithms /\ row.name = n
  BY <1>1 DEF alg_info_find
<1> HIDE DEF row
<1>3. CASE n \in KemNames
  BY <1>2, <1>3, NoSharedName DEF Generated, row
<1>4. CASE n \in SigNames
  <2>1. row \in composite_alg_table /\ n \notin KemNames
    BY <1>2, <1>4, KemRows, NoSharedName
  <2>2. /\ row.pq = composite_algorithm_get_mldsa_name(n)
        /\ row.trad = classic_key_generate(composite_algorithm_get_trad_name(n),
                                           composite_algorithm_get_trad_param(n))
        /\ row.trad.type \in {"RSA", "EC", "ED25519", "ED448"}
    BY <1>2, <2>1, SigRows
  <2> QED
    BY <1>2, <2>1, <2>2 DEF Generated, row
<1> QED
  BY <1>3, <1>4 DEF Names, row

LEMMA OidNames ==
    ASSUME NEW n \in Names, NEW m \in Names, Oid(n) = Oid(m)
    PROVE  n = m
<1> DEFINE order == SigOrder \o KemOrder
           at(x) == CHOOSE i \in 1..Len(order) : order[i] = x
<1>1. ASSUME NEW x \in Names
      PROVE  \E i \in 1..Len(order) : order[i] = x
  <2>1. CASE x \in SigNames
    <3>1. SigNames = {SigOrder[i] : i \in DOMAIN SigOrder}
      BY DEF SigNames, ToSet
    <3>2. PICK i \in 1..18 : SigOrder[i] = x
      BY <2>1, <3>1 DEF SigOrder
    <3>3. Len(order) = 30 /\ order[i] = SigOrder[i] /\ i \in 1..30
      BY <3>2 DEF SigOrder, KemOrder
    <3> HIDE DEF order
    <3> QED
      BY <3>2, <3>3
  <2>2. CASE x \in KemNames
    <3>1. KemNames = {KemOrder[i] : i \in DOMAIN KemOrder}
      BY DEF KemNames, ToSet
    <3>2. PICK i \in 1..12 : KemOrder[i] = x
      BY <2>2, <3>1 DEF KemOrder
    <3>3. Len(order) = 30 /\ order[i + 18] = KemOrder[i] /\ i + 18 \in 1..30
      BY <3>2 DEF SigOrder, KemOrder
    <3> HIDE DEF order
    <3> QED
      BY <3>2, <3>3
  <2> QED
    BY <2>1, <2>2 DEF Names
<1> HIDE DEF order
<1>2. PICK i \in 1..Len(order) : i = at(n) /\ order[i] = n
  BY <1>1
<1>3. PICK j \in 1..Len(order) : j = at(m) /\ order[j] = m
  BY <1>1
<1>4. 36 + i = 36 + j
  BY <1>2, <1>3 DEF Oid, order
<1>5. i = j
  BY <1>4
<1> QED
  BY <1>2, <1>3, <1>5

-----------------------------------------------------------------------------
(* The document and what is read from it.                                  *)

LEMMA KeyInTable ==
    ASSUME KeyInv
    PROVE  /\ key.pq = alg_info_find(key.name).pq /\ key.trad = alg_info_find(key.name).trad
           /\ alg_info_find(key.name) \in composite_alg_table \union kem_algorithms
           /\ key.name \in SigNames => key.trad.type \in {"RSA", "EC", "ED25519", "ED448"}
           /\ key.pq \in PqAlgs
           /\ key.trad \in {row.trad : row \in composite_alg_table \union kem_algorithms}
<1> DEFINE row == alg_info_find(key.name)
<1>1. /\ row \in composite_alg_table \union kem_algorithms
      /\ Generated(key.name).pq = row.pq /\ Generated(key.name).trad = row.trad
      /\ key.name \in SigNames => row.trad.type \in {"RSA", "EC", "ED25519", "ED448"}
  BY TableAgrees DEF KeyInv
<1> HIDE DEF row
<1>2. key.pq = row.pq /\ key.trad = row.trad
  BY <1>1 DEF KeyInv
<1> QED
  BY <1>1, <1>2 DEF PqAlgs, row

LEMMA SplitsBack ==
    ASSUME KeyInv, NEW op \in {"pki", "spki"}
    PROVE  LET whole == Join(PqOf(key, op), TradOf(key, op))
           IN  /\ Splittable(key.pq, Half(op), whole)
               /\ Split(key.pq, Half(op), whole) = [pq |-> PqOf(key, op), trad |-> TradOf(key, op)]
               /\ Len(PqOf(key, op)) = Size[key.pq][Half(op)]
<1> DEFINE what == Half(op)
           n == Size[key.pq][what]
           pq == PqOf(key, op)
           trad == TradOf(key, op)
           Octet == {pq[i] : i \in 1..n} \union {trad[1], trad[2]}
<1>1. key.pq \in PqSets /\ what \in What
  BY KeyInTable, KeyFileAssumption DEF What, Half
<1>2. n \in Nat /\ n > 0
  BY <1>1, SizeType
<1>3. pq \in Seq(Octet) /\ Len(pq) = n
  <2>1. pq = [i \in 1..n |-> pq[i]]
    BY DEF PqOf, PqOctets, Unwritten, Half
  <2> HIDE DEF pq, n
  <2> QED
    BY <1>2, <2>1
<1>4. trad \in Seq(Octet) /\ Len(trad) = 2
  <2> DEFINE first == [trad |-> key.trad, what |-> what]
             second == [publicKey |-> FALSE]
  <2>1. trad = <<first, second>>
    BY DEF TradOf, TradOctets
  <2> HIDE DEF trad, first, second
  <2>2. trad[1] = first /\ trad[2] = second /\ Len(trad) = 2
    BY <2>1
  <2>3. first \in Octet /\ second \in Octet
    BY <2>2
  <2> HIDE DEF Octet
  <2> QED
    BY <2>1, <2>2, <2>3
<1>5. Joinable(key.pq, what, pq, trad)
  BY <1>3, <1>4 DEF Joinable
<1> HIDE DEF Octet, n, pq, trad, what
<1> QED
  BY <1>1, <1>3, <1>4, <1>5, SplitUndoesJoin DEF n, pq, trad, what

LEMMA DocumentNamed ==
    ASSUME KeyInv, NEW t \in Threads, Saved(key, file[t])
    PROVE  Named(t) = key.name /\ Due(t).pq = key.pq
<1>1. file[t].oid = Oid(key.name) /\ key.name \in Names
  BY DEF Saved, KeyInv
<1>2. Named(t) \in Names /\ Oid(Named(t)) = Oid(key.name)
  BY <1>1 DEF Named
<1>3. Named(t) = key.name
  BY <1>1, <1>2, OidNames
<1> QED
  BY <1>3, KeyInTable DEF Due

LEMMA TradReadBack ==
    ASSUME KeyInv, NEW op \in {"pki", "spki"}
    PROVE  TradRead(key.name, Half(op), TradOf(key, op)) = {key.trad}
<1> DEFINE what == Half(op)
           octets == TradOf(key, op)
           trads == {row.trad : row \in composite_alg_table \union kem_algorithms}
           fits(trad, public) == IF EndIgnored(key.name, what)
                                 THEN IsPrefix(TradOctets(trad, what, public), octets)
                                 ELSE octets = TradOctets(trad, what, public)
<1>1. TradRead(key.name, what, octets) =
          {trad \in trads : Accepts(key.name, what, trad)
                              /\ \E public \in BOOLEAN : fits(trad, public)}
  BY DEF TradRead
<1>2. octets = TradOctets(key.trad, what, FALSE)
  BY DEF TradOf
<1>3. ASSUME NEW trad, NEW public
      PROVE  IsPrefix(TradOctets(trad, what, public), octets) <=>
                 octets = TradOctets(trad, what, public)
  <2>1. /\ octets = <<octets[1], octets[2]>>
        /\ TradOctets(trad, what, public)
              = <<TradOctets(trad, what, public)[1], TradOctets(trad, what, public)[2]>>
    BY <1>2 DEF TradOctets
  <2> QED
    BY <2>1 DEF IsPrefix
<1>4. key.trad \in trads /\ Accepts(key.name, what, key.trad)
  BY KeyInTable DEF Accepts, Half
<1>5. fits(key.trad, FALSE)
  BY <1>2, <1>3
<1>6. ASSUME NEW trad, NEW public, fits(trad, public)
      PROVE  trad = key.trad
  <2>1. TradOctets(trad, what, public) = TradOctets(key.trad, what, FALSE)
    BY <1>2, <1>3, <1>6
  <2>2. [trad |-> trad, what |-> what] = [trad |-> key.trad, what |-> what]
    BY <2>1 DEF TradOctets
  <2> QED
    BY <2>2
<1> HIDE DEF trads, fits, octets, what
<1> QED
  BY <1>1, <1>4, <1>5, <1>6 DEF octets, what

LEMMA WriteKeeps ==
    ASSUME IInv, NEW t \in Threads, Write(t)
    PROVE  IInv'
<1> DEFINE op == call[t].op
           held == {"bio"} \union Written(t)
           new == [call[t] EXCEPT !.ret = 1]
           doc(written) == Document(t, written)
<1>1. /\ Pending(call[t].todo) = "write" /\ op \in {"pki", "spki"}
      /\ Shape(key, call[t]) /\ Encoding(key, call[t], file[t], back[t], switch)
      /\ Kem = IsKem(key)
  BY AtStep DEF Write, Fits, Content
<1>2. file[t] = Blank /\ back'[t] = back[t] /\ back[t] = None
  BY <1>1 DEF Write, Encoding
<1>3. held = Holding(IsKem(key), IsEc(key), op, call[t].form, "write")
  BY <1>1 DEF Holding, Written
<1>4. ASSUME NEW written \in {"part", "whole"}
      PROVE  /\ Saved(key, doc(written)) /\ doc(written).op = op
             /\ doc(written).written = written
  BY <1>1 DEF Document, Saved, Encoding
<1>5. ASSUME file' = file \/ \E w \in {"part", "whole"} : file' = [file EXCEPT ![t] = doc(w)]
      PROVE  Alone(t)
  <2>1. key' = key /\ switch' = switch /\ back' = back
    BY DEF Write
  <2>2. /\ file = [s \in Threads |-> file[s]] /\ back = [s \in Threads |-> back[s]]
        /\ switch \in BOOLEAN
    BY DEF IInv
  <2> HIDE DEF doc
  <2>3. file' = [s \in Threads |-> file'[s]] /\ \A s \in Threads \ {t} : file'[s] = file[s]
    BY <1>5, <2>2
  <2> QED
    BY <2>1, <2>2, <2>3 DEF Alone
<1>6. CASE /\ Step(t, {}, held, new)
           /\ file' = [file EXCEPT ![t] = doc("whole")]
  <2> DEFINE y == After(IsKem(key), IsEc(key), op, call[t].form, "write")
             none == {}
  <2>1. /\ new = [op |-> op, form |-> call[t].form, todo |-> call[t].todo, pq |-> new.pq,
                  trad |-> new.trad, blob |-> new.blob, ret |-> new.ret,
                  fault |-> call[t].fault]
        /\ new.trad = call[t].trad /\ new.ret = 1
    <3>1. call[t] = [op |-> call[t].op, form |-> call[t].form, todo |-> call[t].todo,
                     pq |-> call[t].pq, trad |-> call[t].trad, blob |-> call[t].blob,
                     ret |-> call[t].ret, fault |-> call[t].fault]
      BY <1>1 DEF Shape
    <3> DEFINE one == 1
    <3>2. new = [call[t] EXCEPT !.ret = one]
      OBVIOUS
    <3> HIDE DEF new, one
    <3> QED
      BY <3>1, <3>2, AssignRet DEF one
  <2>2. y = "none"
    BY DEF After
  <2>3. /\ none \intersect held = {} /\ held \subseteq held
        /\ (held \union none) \ held
               = Holding(IsKem(key), IsEc(key), op, call[t].form, y)
    BY <2>2 DEF Holding
  <2>4. file'[t] = doc("whole")
    BY <1>6 DEF IInv
  <2>5. ASSUME NEW d, d = [op |-> op, form |-> call[t].form, todo |-> Tail(call[t].todo),
                           pq |-> new.pq, trad |-> new.trad, blob |-> new.blob,
                           ret |-> new.ret, fault |-> call[t].fault],
               Pending(d.todo) = y
        PROVE  Content(key, d, file'[t], back'[t], switch')
    <3>1. d.op = op /\ d.trad = call[t].trad /\ d.ret = 1
      BY <2>1, <2>5
    <3>2. d.op # None /\ d.op # "read"
      BY <1>1, <3>1, KeyFileAssumption
    <3>3. Saved(key, file'[t]) /\ file'[t].op = d.op /\ file'[t].written = "whole"
      BY <1>4, <2>4, <3>1
    <3>4. d.trad \in {<<>>, TradOf(key, d.op)}
      BY <1>1, <3>1 DEF Encoding
    <3>5. Encoding(key, d, file'[t], back'[t], switch')
      BY <1>2, <2>2, <2>5, <3>1, <3>3, <3>4 DEF Encoding
    <3> QED
      BY <2>2, <2>5, <3>2, <3>5 DEF Content
  <2>6. Alone(t)
    BY <1>5, <1>6
  <2>7. Step(t, none, held, new)
    BY <1>6
  <2> HIDE DEF none, held, new, op, y
  <2> QED
    BY <1>1, <1>3, <2>1, <2>3, <2>5, <2>6, <2>7, StepKeeps DEF op, y
<1>7. CASE /\ Refuse(t, held, TRUE)
           /\ file' = [file EXCEPT ![t] = doc("part")] \/ UNCHANGED file
  <2>1. \/ file'[t] = Blank
        \/ Saved(key, file'[t]) /\ file'[t].op = op /\ file'[t].written = "part"
    BY <1>2, <1>4, <1>7 DEF IInv
  <2>2. Alone(t)
    BY <1>5, <1>7
  <2> HIDE DEF held, op
  <2> QED
    BY <1>1, <1>2, <1>3, <1>7, <2>1, <2>2, EncoderRefuses DEF op
<1> QED
  BY <1>6, <1>7 DEF Write

(* Calls begin from Idle.                                                  *)
LEMMA Begun ==
    ASSUME NEW op, NEW form, NEW todo
    PROVE  /\ [Idle EXCEPT !.op = op, !.form = form, !.todo = todo] =
                  [op |-> op, form |-> form, todo |-> todo, pq |-> <<>>, trad |-> <<>>,
                   blob |-> <<>>, ret |-> None, fault |-> FALSE]
           /\ [Idle EXCEPT !.op = op, !.todo = todo] =
                  [op |-> op, form |-> None, todo |-> todo, pq |-> <<>>, trad |-> <<>>,
                   blob |-> <<>>, ret |-> None, fault |-> FALSE]
<1> DEFINE empty == <<>>
           no == FALSE
           first == [Idle EXCEPT !.op = op]
           second == [first EXCEPT !.form = form]
<1>0. Idle =
          [op |-> None, form |-> None, todo |-> empty, pq |-> empty, trad |-> empty,
           blob |-> empty, ret |-> None, fault |-> no]
  BY DEF Idle
<1>1. first =
          [op |-> op, form |-> None, todo |-> empty, pq |-> empty, trad |-> empty,
           blob |-> empty, ret |-> None, fault |-> no]
  <2> HIDE DEF empty, no
  <2> QED
    BY <1>0
<1>2. second =
          [op |-> op, form |-> form, todo |-> empty, pq |-> empty, trad |-> empty,
           blob |-> empty, ret |-> None, fault |-> no]
  <2> HIDE DEF first, empty, no
  <2> QED
    BY <1>1
<1>3. [second EXCEPT !.todo = todo] =
          [op |-> op, form |-> form, todo |-> todo, pq |-> empty, trad |-> empty,
           blob |-> empty, ret |-> None, fault |-> no]
  <2> HIDE DEF first, second, empty, no
  <2> QED
    BY <1>2
<1>4. [first EXCEPT !.todo = todo] =
          [op |-> op, form |-> None, todo |-> todo, pq |-> empty, trad |-> empty,
           blob |-> empty, ret |-> None, fault |-> no]
  <2> HIDE DEF first, empty, no
  <2> QED
    BY <1>1
<1>5. /\ [second EXCEPT !.todo = todo] = [Idle EXCEPT !.op = op, !.form = form, !.todo = todo]
      /\ [first EXCEPT !.todo = todo] = [Idle EXCEPT !.op = op, !.todo = todo]
  OBVIOUS
<1> QED
  BY <1>3, <1>4, <1>5

LEMMA EncodeBeginKeeps ==
    ASSUME IInv, NEW t \in Threads, Encode_begin(t)
    PROVE  IInv'
<1>1. PICK op \in {"pki", "spki"} : \E form \in Forms(op) :
          call' = [call EXCEPT ![t] = [Idle EXCEPT !.op = op, !.form = form,
                                                   !.todo = Steps(op, form)]]
  BY DEF Encode_begin
<1>2. PICK form \in Forms(op) :
          call' = [call EXCEPT ![t] = [Idle EXCEPT !.op = op, !.form = form,
                                                   !.todo = Steps(op, form)]]
  BY <1>1
<1> DEFINE todo == Steps(op, form)
           d == [Idle EXCEPT !.op = op, !.form = form, !.todo = Steps(op, form)]
           e == [op |-> op, form |-> form, todo |-> todo, pq |-> <<>>, trad |-> <<>>,
                 blob |-> <<>>, ret |-> None, fault |-> FALSE]
<1>3. d = e
  BY Begun
<1>4. form \in {"PEM", "DER"} /\ (~ IsKem(key) /\ op = "pki" => form = "PEM")
  BY DEF Forms, Kem, IsKem
<1>5. todo = Rest(IsKem(key), IsEc(key), op, form, "oid")
  BY Beginning DEF Kem, IsKem, IsEc
<1>6. Fits(IsKem(key), IsEc(key), op, form, "oid")
  BY DEF Fits
<1>7. Pending(todo) = "oid"
  <2>1. /\ Rest(IsKem(key), IsEc(key), op, form, "oid") # <<>>
        /\ Head(Rest(IsKem(key), IsEc(key), op, form, "oid")) = "oid"
    BY <1>6, Onward
  <2> QED
    BY <1>5, <2>1 DEF Pending
<1> HIDE DEF todo
<1>8. call[t] = Idle /\ Idle.op = None /\ Idle.todo = <<>>
  BY DEF Encode_begin, Idle
<1>9. file[t] = Blank /\ back[t] = None /\ heap[t] = Exactly({})
  BY <1>8 DEF IInv, Sound, Content, Balanced, Holding, Pending
<1>10. Sound(key, e, heap[t], file[t], back[t], switch)
  <2>1. Shape(key, e)
    BY <1>4, <1>5, <1>6, <1>7 DEF Shape, Ends
  <2>2. Balanced(key, e, heap[t])
    BY <1>7, <1>9 DEF Balanced, Holding
  <2>3. e.op # None /\ e.op # "read"
    BY KeyFileAssumption
  <2>4. Encoding(key, e, file[t], back[t], switch)
    BY <1>7, <1>9 DEF Encoding
  <2> QED
    BY <2>1, <2>2, <2>3, <2>4 DEF Sound, Content
<1>11. /\ key' = key /\ switch' = switch /\ heap' = heap /\ file' = file /\ back' = back
  BY DEF Encode_begin
<1>12. Alone(t)
  BY <1>11 DEF Alone, IInv
<1>13. /\ call' = [s \in Threads |-> call'[s]] /\ call'[t] = e
       /\ \A s \in Threads \ {t} : call'[s] = call[s]
  <2> HIDE DEF d, e
  <2>1. call' = [call EXCEPT ![t] = d]
    BY <1>2 DEF d
  <2> QED
    BY <1>3, <2>1 DEF IInv
<1>14. heap' = [s \in Threads |-> heap'[s]]
  BY <1>11 DEF IInv
<1> HIDE DEF e
<1> QED
  BY <1>10, <1>11, <1>12, <1>13, <1>14, OthersStay

LEMMA ReadBeginKeeps ==
    ASSUME IInv, NEW t \in Threads, Read_begin(t)
    PROVE  IInv'
<1> DEFINE todo == <<"split", "read_pq", "read_trad">>
           d == [Idle EXCEPT !.op = "read", !.todo = todo]
           e == [op |-> "read", form |-> None, todo |-> todo, pq |-> <<>>, trad |-> <<>>,
                 blob |-> <<>>, ret |-> None, fault |-> FALSE]
<1>1. d = e
  BY Begun
<1>2. todo = Rest(IsKem(key), IsEc(key), "read", None, "split") /\ Pending(todo) = "split"
  BY DEF Rest, Pending
<1>3. Fits(IsKem(key), IsEc(key), "read", None, "split")
  BY DEF Fits
<1> HIDE DEF todo
<1>4. call[t].todo = <<>> /\ call[t].op \in {"pki", "spki"} /\ call[t].ret = 1
  BY DEF Read_begin, Done
<1>5. heap[t] = Exactly({})
  BY <1>4 DEF IInv, Sound, Balanced, Holding, Pending
<1>6. Encoding(key, call[t], file[t], back[t], switch) /\ Pending(call[t].todo) = "none"
  BY <1>4 DEF IInv, Sound, Content, Pending
<1>7. back[t] = None /\ file[t].written = "whole" /\ Saved(key, file[t])
  BY <1>4, <1>6 DEF Encoding, Blank
<1>8. Sound(key, e, heap[t], file[t], back[t], switch)
  <2>1. Shape(key, e)
    BY <1>2, <1>3 DEF Shape, Ends
  <2>2. Balanced(key, e, heap[t])
    BY <1>2, <1>5 DEF Balanced, Holding
  <2>3. e.op # None
    BY KeyFileAssumption
  <2>4. Reading(key, e, file[t], back[t])
    BY <1>2, <1>7 DEF Reading
  <2> QED
    BY <2>1, <2>2, <2>3, <2>4 DEF Sound, Content
<1>9. /\ key' = key /\ switch' = switch /\ heap' = heap /\ file' = file /\ back' = back
  BY DEF Read_begin
<1>10. Alone(t)
  BY <1>9 DEF Alone, IInv
<1>11. /\ call' = [s \in Threads |-> call'[s]] /\ call'[t] = e
       /\ \A s \in Threads \ {t} : call'[s] = call[s]
  <2>1. call' = [call EXCEPT ![t] = d]
    BY DEF Read_begin, todo
  <2> HIDE DEF d, e
  <2> QED
    BY <1>1, <2>1 DEF IInv
<1>12. heap' = [s \in Threads |-> heap'[s]]
  BY <1>9 DEF IInv
<1> HIDE DEF e
<1> QED
  BY <1>8, <1>9, <1>10, <1>11, <1>12, OthersStay

LEMMA ReaderFacts ==
    ASSUME IInv, NEW t \in Threads, NEW x \in {"split", "read_pq", "read_trad"}, At(t, x)
    PROVE  /\ Pending(call[t].todo) = x /\ call[t].op = "read"
           /\ Shape(key, call[t]) /\ Reading(key, call[t], file[t], back[t])
           /\ call[t].ret = None
           /\ Kem = IsKem(key) /\ file[t].op \in {"pki", "spki"}
           /\ Named(t) = key.name /\ Due(t).pq = key.pq
<1>1. /\ Pending(call[t].todo) = x /\ call[t].op = "read"
      /\ Shape(key, call[t]) /\ Reading(key, call[t], file[t], back[t])
      /\ call[t].ret = None /\ Kem = IsKem(key)
  BY AtStep DEF Fits, Content
<1>2. Saved(key, file[t]) /\ file[t].op \in {"pki", "spki"}
  BY <1>1 DEF Reading, Saved
<1>3. Named(t) = key.name /\ Due(t).pq = key.pq
  BY <1>2, DocumentNamed DEF IInv
<1> QED
  BY <1>1, <1>2, <1>3

(* A reader gives up for libcrypto's reasons only.                         *)
LEMMA ReaderRefuses ==
    ASSUME IInv, NEW t \in Threads, Alone(t), back'[t] = back[t], file'[t] = file[t],
           NEW freed, Refuse(t, freed, TRUE),
           Pending(call[t].todo) # "none", call[t].op = "read",
           freed = Holding(IsKem(key), IsEc(key), call[t].op, call[t].form,
                           Pending(call[t].todo))
    PROVE  IInv'
<1>1. Reading(key, call[t], file[t], back[t])
  BY DEF IInv, Sound, Content
<1>2. ASSUME NEW d, d = [op |-> call[t].op, form |-> call[t].form, todo |-> <<>>,
                         pq |-> call[t].pq, trad |-> call[t].trad, blob |-> call[t].blob,
                         ret |-> 0, fault |-> (call[t].fault \/ TRUE)]
      PROVE  Content(key, d, file'[t], back'[t], switch')
  <2>1. /\ d.op = "read" /\ Pending(d.todo) = "none" /\ d.ret = 0
        /\ d.trad = call[t].trad /\ d.fault
    BY <1>2 DEF Pending
  <2>2. d.op # None
    BY <2>1, KeyFileAssumption
  <2>3. Reading(key, d, file'[t], back'[t])
    BY <1>1, <2>1 DEF Reading
  <2> QED
    BY <2>1, <2>2, <2>3 DEF Content
<1> QED
  BY <1>2, RefuseKeeps

LEMMA SplitDocumentKeeps ==
    ASSUME IInv, NEW t \in Threads, SplitDocument(t)
    PROVE  IInv'
<1> DEFINE what == Half(file[t].op)
           in == file[t].octets
           split == Split(Due(t).pq, what, in)
           new == [call[t] EXCEPT !.pq = split.pq, !.trad = split.trad]
<1>1. /\ Pending(call[t].todo) = "split" /\ call[t].op = "read"
      /\ Shape(key, call[t]) /\ Reading(key, call[t], file[t], back[t])
      /\ call[t].ret = None
      /\ Kem = IsKem(key) /\ file[t].op \in {"pki", "spki"}
      /\ Named(t) = key.name /\ Due(t).pq = key.pq
  BY ReaderFacts DEF SplitDocument
<1>2. Alone(t) /\ back'[t] = back[t] /\ file'[t] = file[t]
  BY DEF SplitDocument, Alone, IInv
<1>3. /\ in = Join(PqOf(key, file[t].op), TradOf(key, file[t].op))
      /\ file[t].written = "whole"
  BY <1>1 DEF Reading, Saved
<1>4. /\ Splittable(Due(t).pq, what, in)
      /\ split = [pq |-> PqOf(key, file[t].op), trad |-> TradOf(key, file[t].op)]
  BY <1>1, <1>3, SplitsBack DEF IInv
<1>5. CASE Refuse(t, {}, TRUE)
  <2>1. {} = Holding(IsKem(key), IsEc(key), call[t].op, call[t].form, "split")
    BY DEF Holding
  <2> QED
    BY <1>1, <1>2, <1>5, <2>1, ReaderRefuses
<1>6. CASE Step(t, Copies, {}, new)
  <2>1. /\ new = [op |-> call[t].op, form |-> call[t].form, todo |-> call[t].todo,
                  pq |-> new.pq, trad |-> new.trad, blob |-> new.blob, ret |-> new.ret,
                  fault |-> call[t].fault]
        /\ new.pq = split.pq /\ new.trad = split.trad /\ new.ret = call[t].ret
    <3> DEFINE pqOut == split.pq
               tradOut == split.trad
    <3>1. call[t] = [op |-> call[t].op, form |-> call[t].form, todo |-> call[t].todo,
                     pq |-> call[t].pq, trad |-> call[t].trad, blob |-> call[t].blob,
                     ret |-> call[t].ret, fault |-> call[t].fault]
      BY <1>1 DEF Shape
    <3>2. new = [call[t] EXCEPT !.pq = pqOut, !.trad = tradOut]
      OBVIOUS
    <3> HIDE DEF new, pqOut, tradOut
    <3> QED
      BY <3>1, <3>2, AssignHalves DEF pqOut, tradOut
  <2>2. After(IsKem(key), IsEc(key), call[t].op, call[t].form, "split") = "read_pq"
    BY DEF After
  <2> DEFINE none == {}
             copies == Copies
  <2>3. /\ Holding(IsKem(key), IsEc(key), call[t].op, call[t].form, "split") = none
        /\ Holding(IsKem(key), IsEc(key), call[t].op, call[t].form, "read_pq") = copies
        /\ copies \intersect none = {} /\ none \subseteq none
        /\ (none \union copies) \ none = copies
    BY <1>1 DEF Holding, Copies
  <2>4. new.pq = PqOf(key, file[t].op) /\ new.trad = TradOf(key, file[t].op)
    BY <1>4, <2>1
  <2>5. ASSUME NEW d, d = [op |-> call[t].op, form |-> call[t].form,
                           todo |-> Tail(call[t].todo), pq |-> new.pq, trad |-> new.trad,
                           blob |-> new.blob, ret |-> new.ret, fault |-> call[t].fault],
               Pending(d.todo) = "read_pq"
        PROVE  Content(key, d, file'[t], back'[t], switch')
    <3>1. /\ d.op = "read" /\ d.pq = PqOf(key, file[t].op)
          /\ d.trad = TradOf(key, file[t].op) /\ d.ret = None
      BY <1>1, <2>1, <2>4, <2>5
    <3>2. d.op # None
      BY <3>1, KeyFileAssumption
    <3>3. Reading(key, d, file'[t], back'[t])
      BY <1>1, <1>2, <2>5, <3>1 DEF Reading
    <3> QED
      BY <3>1, <3>2, <3>3 DEF Content
  <2>6. Step(t, copies, none, new)
    BY <1>6
  <2> HIDE DEF none, copies, new
  <2> QED
    BY <1>1, <1>2, <2>1, <2>2, <2>3, <2>5, <2>6, StepKeeps
<1>7. Refuse(t, {}, TRUE) \/ Step(t, Copies, {}, new)
  BY <1>3, <1>4 DEF SplitDocument
<1> QED
  BY <1>5, <1>6, <1>7

LEMMA ReadPqKeeps ==
    ASSUME IInv, NEW t \in Threads, ReadPq(t)
    PROVE  IInv'
<1>1. /\ Pending(call[t].todo) = "read_pq" /\ call[t].op = "read"
      /\ Shape(key, call[t]) /\ Reading(key, call[t], file[t], back[t])
      /\ call[t].ret = None
      /\ Kem = IsKem(key) /\ file[t].op \in {"pki", "spki"}
      /\ Named(t) = key.name /\ Due(t).pq = key.pq
  BY ReaderFacts DEF ReadPq
<1>2. Alone(t) /\ back'[t] = back[t] /\ file'[t] = file[t]
  BY DEF ReadPq, Alone, IInv
<1>3. Len(call[t].pq) = Size[Due(t).pq][Half(file[t].op)]
  BY <1>1, SplitsBack DEF Reading, IInv
<1> DEFINE held == Released
           none == {}
           opened == {"pq_key"}
<1>4. /\ held = Holding(IsKem(key), IsEc(key), call[t].op, call[t].form, "read_pq")
      /\ held \union opened
             = Holding(IsKem(key), IsEc(key), call[t].op, call[t].form, "read_trad")
      /\ opened \intersect held = {} /\ none \subseteq held
      /\ (held \union opened) \ none = held \union opened
  BY <1>1 DEF Holding, Released, Copies
<1>5. CASE Refuse(t, held, TRUE)
  <2> HIDE DEF held
  <2> QED
    BY <1>1, <1>2, <1>4, <1>5, ReaderRefuses
<1>6. CASE Step(t, opened, none, call[t])
  <2>1. call[t] = [op |-> call[t].op, form |-> call[t].form, todo |-> call[t].todo,
                   pq |-> call[t].pq, trad |-> call[t].trad, blob |-> call[t].blob,
                   ret |-> call[t].ret, fault |-> call[t].fault]
    BY <1>1 DEF Shape
  <2>2. After(IsKem(key), IsEc(key), call[t].op, call[t].form, "read_pq") = "read_trad"
    BY DEF After
  <2>3. ASSUME NEW d, d = [op |-> call[t].op, form |-> call[t].form,
                           todo |-> Tail(call[t].todo), pq |-> call[t].pq,
                           trad |-> call[t].trad, blob |-> call[t].blob,
                           ret |-> call[t].ret, fault |-> call[t].fault],
               Pending(d.todo) = "read_trad"
        PROVE  Content(key, d, file'[t], back'[t], switch')
    <3>1. /\ d.op = "read" /\ d.pq = call[t].pq /\ d.trad = call[t].trad /\ d.ret = None
      BY <1>1, <2>3
    <3>2. d.op # None
      BY <3>1, KeyFileAssumption
    <3>3. Reading(key, d, file'[t], back'[t])
      BY <1>1, <1>2, <2>3, <3>1 DEF Reading
    <3> QED
      BY <3>1, <3>2, <3>3 DEF Content
  <2> HIDE DEF none, opened, held
  <2> QED
    BY <1>1, <1>2, <1>4, <1>6, <2>1, <2>2, <2>3, StepKeeps
<1>7. Refuse(t, held, TRUE) \/ Step(t, opened, none, call[t])
  BY <1>3 DEF ReadPq
<1> QED
  BY <1>5, <1>6, <1>7

LEMMA ReadTradKeeps ==
    ASSUME IInv, NEW t \in Threads, ReadTrad(t)
    PROVE  IInv'
<1> DEFINE what == Half(file[t].op)
           held == {"pq_key"} \union Released
           new == [call[t] EXCEPT !.ret = 1]
           result == [name |-> key.name, private |-> what = "priv",
                      pq |-> PqRead(key.pq, what, call[t].pq), trad |-> key.trad]
<1>1. /\ Pending(call[t].todo) = "read_trad" /\ call[t].op = "read"
      /\ Shape(key, call[t]) /\ Reading(key, call[t], file[t], back[t])
      /\ call[t].ret = None
      /\ Kem = IsKem(key) /\ file[t].op \in {"pki", "spki"}
      /\ Named(t) = key.name /\ Due(t).pq = key.pq
  BY ReaderFacts DEF ReadTrad
<1>2. /\ call[t].pq = PqOf(key, file[t].op) /\ call[t].trad = TradOf(key, file[t].op)
      /\ back[t] = None
  BY <1>1 DEF Reading
<1>3. TradRead(Named(t), what, call[t].trad) = {key.trad}
  BY <1>1, <1>2, TradReadBack DEF IInv
<1>4. held = Holding(IsKem(key), IsEc(key), call[t].op, call[t].form, "read_trad")
  BY <1>1 DEF Holding, Released, Copies
<1>5. /\ key' = key /\ switch' = switch /\ file' = file
      /\ \/ Refuse(t, held, TRUE) /\ back' = back
         \/ Step(t, {}, held, new) /\ back' = [back EXCEPT ![t] = result]
  BY <1>1, <1>3 DEF ReadTrad
<1> HIDE DEF result
<1>6. Alone(t)
  BY <1>5 DEF Alone, IInv
<1>7. CASE Refuse(t, held, TRUE) /\ back' = back
  <2> HIDE DEF held
  <2> QED
    BY <1>1, <1>4, <1>5, <1>6, <1>7, ReaderRefuses
<1>8. CASE Step(t, {}, held, new) /\ back' = [back EXCEPT ![t] = result]
  <2> DEFINE y == After(IsKem(key), IsEc(key), call[t].op, call[t].form, "read_trad")
             none == {}
  <2>1. /\ new = [op |-> call[t].op, form |-> call[t].form, todo |-> call[t].todo,
                  pq |-> new.pq, trad |-> new.trad, blob |-> new.blob, ret |-> new.ret,
                  fault |-> call[t].fault]
        /\ new.trad = call[t].trad /\ new.ret = 1
    <3>1. call[t] = [op |-> call[t].op, form |-> call[t].form, todo |-> call[t].todo,
                     pq |-> call[t].pq, trad |-> call[t].trad, blob |-> call[t].blob,
                     ret |-> call[t].ret, fault |-> call[t].fault]
      BY <1>1 DEF Shape
    <3> DEFINE one == 1
    <3>2. new = [call[t] EXCEPT !.ret = one]
      OBVIOUS
    <3> HIDE DEF new, one
    <3> QED
      BY <3>1, <3>2, AssignRet DEF one
  <2>2. y = "none"
    BY DEF After
  <2>3. /\ none \intersect held = {} /\ held \subseteq held
        /\ (held \union none) \ held
               = Holding(IsKem(key), IsEc(key), call[t].op, call[t].form, y)
    BY <2>2 DEF Holding
  <2>4. back'[t] = [name |-> key.name, private |-> file[t].op = "pki",
                    pq |-> PqRead(key.pq, what, PqOf(key, file[t].op)), trad |-> key.trad]
    <3>1. back'[t] = result
      BY <1>8 DEF IInv
    <3>2. (what = "priv") = (file[t].op = "pki")
      BY <1>1 DEF Half
    <3> QED
      BY <1>2, <3>1, <3>2 DEF result
  <2>5. ASSUME NEW d, d = [op |-> call[t].op, form |-> call[t].form,
                           todo |-> Tail(call[t].todo), pq |-> new.pq, trad |-> new.trad,
                           blob |-> new.blob, ret |-> new.ret, fault |-> call[t].fault],
               Pending(d.todo) = y
        PROVE  Content(key, d, file'[t], back'[t], switch')
    <3>1. d.op = "read" /\ d.trad = call[t].trad /\ d.ret = 1
      BY <1>1, <2>1, <2>5
    <3>2. d.op # None
      BY <3>1, KeyFileAssumption
    <3>3. file'[t] = file[t]
      BY <1>5
    <3>4. Reading(key, d, file'[t], back'[t])
      BY <1>1, <2>2, <2>4, <2>5, <3>1, <3>3 DEF Reading
    <3> QED
      BY <2>2, <2>5, <3>1, <3>2, <3>4 DEF Content
  <2>6. Step(t, none, held, new)
    BY <1>8
  <2> HIDE DEF none, held, new, y
  <2> QED
    BY <1>1, <1>4, <1>6, <2>1, <2>3, <2>5, <2>6, StepKeeps DEF y
<1> QED
  BY <1>5, <1>7, <1>8

-----------------------------------------------------------------------------
(* The invariant, and what follows.                                        *)

LEMMA Start ==
    ASSUME Init
    PROVE  IInv
<1>1. KeyInv /\ switch \in BOOLEAN
  <2>1. PICK n \in Names, private \in BOOLEAN, seed \in BOOLEAN :
            /\ ~ seed => n \in Seedless
            /\ key = [name |-> n, private |-> private, seed |-> seed,
                      pq |-> Generated(n).pq, trad |-> Generated(n).trad]
    BY DEF Init
  <2> QED
    BY <2>1 DEF Init, KeyInv
<1>2. ASSUME NEW t \in Threads
      PROVE  Sound(key, Idle, Exactly({}), Blank, None, switch)
  <2>1. /\ Pending(Idle.todo) = "none" /\ Idle.op = None /\ Idle.todo = <<>>
        /\ Idle.trad = <<>> /\ Idle.ret = None
    BY DEF Idle, Pending
  <2>2. Shape(key, Idle)
    <3>1. Fits(IsKem(key), IsEc(key), None, None, "none")
      BY DEF Fits
    <3>2. Idle.todo = Rest(IsKem(key), IsEc(key), None, None, "none")
      BY <2>1 DEF Rest
    <3>3. Idle.fault = FALSE /\ Idle.form = None
      BY DEF Idle
    <3>4. Idle = [op |-> Idle.op, form |-> Idle.form, todo |-> Idle.todo, pq |-> Idle.pq,
                  trad |-> Idle.trad, blob |-> Idle.blob, ret |-> Idle.ret,
                  fault |-> Idle.fault]
      BY DEF Idle
    <3> QED
      BY <2>1, <3>1, <3>2, <3>3, <3>4, KeyFileAssumption DEF Shape, Ends
  <2>3. Balanced(key, Idle, Exactly({}))
    BY <2>1 DEF Balanced, Holding
  <2>4. Content(key, Idle, Blank, None, switch)
    BY <2>1, KeyFileAssumption DEF Content
  <2> QED
    BY <2>2, <2>3, <2>4 DEF Sound
<1>3. /\ call = [t \in Threads |-> Idle] /\ heap = [t \in Threads |-> Exactly({})]
      /\ file = [t \in Threads |-> Blank] /\ back = [t \in Threads |-> None]
  BY DEF Init, Exactly
<1> QED
  BY <1>1, <1>2, <1>3 DEF IInv

LEMMA Keeps ==
    ASSUME IInv, [Next]_vars
    PROVE  IInv'
<1>1. CASE UNCHANGED vars
  BY <1>1 DEF vars, IInv, KeyInv
<1>2. ASSUME NEW t \in Threads,
             \/ Encode_begin(t) \/ AlgObj(t) \/ PqHalf(t) \/ CopyKey(t) \/ SwitchKey(t)
             \/ TradHalf(t) \/ Blob(t) \/ Wrap(t) \/ DerEncode(t) \/ OpenBio(t) \/ Write(t)
             \/ Read_begin(t) \/ SplitDocument(t) \/ ReadPq(t) \/ ReadTrad(t)
      PROVE  IInv'
  BY <1>2, EncodeBeginKeeps, AlgObjKeeps, PqHalfKeeps, CopyKeyKeeps, SwitchKeyKeeps,
     TradHalfKeeps, BlobKeeps, WrapKeeps, DerEncodeKeeps, OpenBioKeeps, WriteKeeps,
     ReadBeginKeeps, SplitDocumentKeeps, ReadPqKeeps, ReadTradKeeps
<1> QED
  BY <1>1, <1>2 DEF Next

LEMMA Always == Spec => []IInv
<1>1. Init => IInv
  BY Start
<1>2. IInv /\ [Next]_vars => IInv'
  BY Keeps
<1> QED
  BY <1>1, <1>2, PTL DEF Spec

\* The variables keep their types, and no call has an answer before it is over
\* (the state of the encoders and importers of both families).
THEOREM KeyFileTyped == Spec => []TypeOK
<1>1. IInv => TypeOK
  <2> SUFFICES ASSUME IInv
               PROVE  TypeOK
    OBVIOUS
  <2>1. switch \in BOOLEAN /\ key.name \in Names /\ key.private \in BOOLEAN
    BY DEF IInv, KeyInv
  <2>2. ASSUME NEW t \in Threads
        PROVE  /\ call[t].op \in {None, "pki", "spki", "read"}
               /\ call[t].ret \in {None, 0, 1} /\ (call[t].ret # None => Done(t))
               /\ file[t] = Blank \/ file[t].oid = Oid(key.name)
    <3>1. Shape(key, call[t]) /\ Content(key, call[t], file[t], back[t], switch)
      BY DEF IInv, Sound
    <3>2. Pending(call[t].todo) = "none" => Done(t)
      BY <3>1 DEF Shape, Ends, Rest, Done
    <3>3. CASE call[t].op = None
      BY <3>1, <3>2, <3>3 DEF Content, Done
    <3>4. CASE call[t].op \in {"pki", "spki"}
      <4>1. Encoding(key, call[t], file[t], back[t], switch)
        BY <3>1, <3>4 DEF Content
      <4> QED
        BY <3>1, <3>2, <3>4, <4>1 DEF Content, Encoding, Saved
    <3>5. CASE call[t].op = "read"
      <4>1. Reading(key, call[t], file[t], back[t])
        BY <3>1, <3>5 DEF Content
      <4> QED
        BY <3>1, <3>2, <3>5, <4>1 DEF Content, Reading, Saved
    <3> QED
      BY <3>1, <3>3, <3>4, <3>5 DEF Shape
  <2>3. ASSUME NEW t \in Threads
        PROVE  heap[t] \in [Blocks -> Int]
    BY DEF IInv, Sound, Balanced, Exactly
  <2>4. ASSUME NEW t \in Threads, back[t] # None
        PROVE  [pq |-> back[t].pq, trad |-> back[t].trad] \in Halves
    <3>1. Shape(key, call[t]) /\ Content(key, call[t], file[t], back[t], switch)
      BY DEF IInv, Sound
    <3>2. Reading(key, call[t], file[t], back[t])
      BY <2>4, <3>1 DEF Content, Encoding, Shape
    <3>3. back[t] = [name |-> key.name, private |-> file[t].op = "pki",
                     pq |-> PqRead(key.pq, Half(file[t].op), PqOf(key, file[t].op)),
                     trad |-> key.trad]
      BY <2>4, <3>2 DEF Reading
    <3>4. back[t].pq \in {key.pq, "another"} /\ back[t].trad = key.trad
      BY <3>3 DEF PqRead
    <3>5. /\ key.pq \in PqAlgs
          /\ key.trad \in {row.trad : row \in composite_alg_table \union kem_algorithms}
      BY KeyInTable DEF IInv
    <3> QED
      BY <3>4, <3>5 DEF Halves
  <2> QED
    BY <2>1, <2>2, <2>3, <2>4 DEF TypeOK
<1> QED
  BY <1>1, Always, PTL

\* An encoder or an importer that is over has released what it allocated,
\* whichever of its steps failed (the error paths of composite_encoder.c,
\* composite_kem_encoder.c and of the two import functions).
THEOREM KeyFileHeapClean == Spec => []HeapClean
<1>1. IInv => HeapClean
  <2> SUFFICES ASSUME IInv, NEW t \in Threads, NEW b \in Blocks
               PROVE  heap[t][b] >= 0 /\ (Done(t) => heap[t][b] = 0)
    BY DEF HeapClean
  <2> DEFINE held == Holding(IsKem(key), IsEc(key), call[t].op, call[t].form,
                             Pending(call[t].todo))
  <2>1. heap[t] = Exactly(held)
    BY DEF IInv, Sound, Balanced
  <2>2. Done(t) => held = {}
    BY DEF Done, Pending, Holding
  <2> HIDE DEF held
  <2> QED
    BY <2>1, <2>2 DEF Exactly
<1> QED
  BY <1>1, Always, PTL

\* However many threads encode an EC key, and switch its public key off for
\* it, no document has the optional field (composite_kem_key.c:700).
THEOREM KeyFileNoPublicField == Spec => []NoPublicField
<1>1. IInv => NoPublicField
  <2> SUFFICES ASSUME IInv, NEW t \in Threads
               PROVE  /\ [publicKey |-> TRUE] \notin ToSet(call[t].trad)
                      /\ [publicKey |-> TRUE] \notin ToSet(file[t].octets)
    BY DEF NoPublicField
  <2> DEFINE bad == [publicKey |-> TRUE]
  <2>1. ToSet(<<>>) = {}
    BY DEF ToSet
  <2>2. ASSUME NEW op
        PROVE  bad \notin ToSet(TradOf(key, op))
    <3>1. bad.publicKey = TRUE /\ DOMAIN bad = {"publicKey"}
      OBVIOUS
    <3>2. DOMAIN [trad |-> key.trad, what |-> Half(op)] = {"trad", "what"}
      OBVIOUS
    <3>3. [publicKey |-> FALSE].publicKey = FALSE
      OBVIOUS
    <3>4. bad # [trad |-> key.trad, what |-> Half(op)] /\ bad # [publicKey |-> FALSE]
      BY <3>1, <3>2, <3>3
    <3>5. ToSet(TradOf(key, op)) = {[trad |-> key.trad, what |-> Half(op)], [publicKey |-> FALSE]}
      <4> DEFINE first == [trad |-> key.trad, what |-> Half(op)]
                 second == [publicKey |-> FALSE]
      <4>1. TradOf(key, op) = <<first, second>>
        BY DEF TradOf, TradOctets
      <4> HIDE DEF first, second
      <4>2. ToSet(<<first, second>>) = {first, second}
        BY DEF ToSet
      <4> QED
        BY <4>1, <4>2 DEF first, second
    <3> QED
      BY <3>4, <3>5
  <2>3. /\ Shape(key, call[t]) /\ Content(key, call[t], file[t], back[t], switch)
    BY DEF IInv, Sound
  <2>4. \/ call[t].trad = <<>> \/ \E op : call[t].trad = TradOf(key, op)
    BY <2>3 DEF Shape, Content, Encoding, Reading
  <2>5. file[t] = Blank \/ Saved(key, file[t])
    BY <2>3 DEF Shape, Content, Encoding, Reading
  <2>6. ASSUME Saved(key, file[t])
        PROVE  bad \notin ToSet(file[t].octets)
    <3> DEFINE op == file[t].op
               pq == PqOf(key, op)
               trad == TradOf(key, op)
    <3>1. file[t].octets = pq \o trad /\ op \in {"pki", "spki"}
      BY <2>6 DEF Saved, Join
    <3>2. key.pq \in PqSets /\ Half(op) \in What
      BY KeyInTable, KeyFileAssumption DEF IInv, What, Half
    <3> DEFINE n == Size[key.pq][Half(op)]
    <3>3. n \in Nat
      BY <3>2, SizeType
    <3>4. /\ pq = [i \in 1..n |-> pq[i]]
          /\ \A i \in 1..n : DOMAIN pq[i] = {"pq", "what", "at"}
      BY <3>1 DEF PqOf, PqOctets, Unwritten, Half
    <3>5. DOMAIN bad = {"publicKey"}
      OBVIOUS
    <3>6. \A i \in 1..n : pq[i] # bad
      BY <3>4, <3>5
    <3>7. Len(trad) = 2 /\ trad = [i \in 1..2 |-> trad[i]] /\ \A i \in 1..2 : trad[i] # bad
      BY <2>2 DEF TradOf, TradOctets, ToSet
    <3> HIDE DEF pq, trad, n, bad
    <3>8. Len(pq) = n
      BY <3>3, <3>4
    <3>9. pq \o trad = [i \in 1..n + 2 |-> IF i <= n THEN pq[i] ELSE trad[i - n]]
      BY <3>3, <3>7, <3>8
    <3>10. ASSUME NEW i \in 1..n + 2
           PROVE  (pq \o trad)[i] # bad
      BY <3>3, <3>6, <3>7, <3>9
    <3> QED
      BY <3>1, <3>9, <3>10 DEF ToSet
  <2>7. bad \notin ToSet(Blank.octets)
    BY <2>1 DEF Blank
  <2> QED
    BY <2>1, <2>2, <2>4, <2>5, <2>6, <2>7
<1> QED
  BY <1>1, Always, PTL

\* An encoder returns 1 exactly when the whole document was written, and 0 only
\* when libcrypto failed or there was nothing private to write (the returns of
\* composite_encoder.c and composite_kem_encoder.c).
THEOREM KeyFileAnswered == Spec => []Answered
<1>1. IInv => Answered
  <2> SUFFICES ASSUME IInv, NEW t \in Threads, call[t].op \in {"pki", "spki"}, Done(t)
               PROVE  /\ call[t].ret = 1 <=> file[t].written = "whole"
                      /\ call[t].ret = 0 =>
                            \/ call[t].fault
                            \/ call[t].op = "pki" /\ (~ key.private \/ (Kem /\ ~ key.seed))
                      /\ file[t].op = "pki" => key.private
    BY DEF Answered
  <2>1. Encoding(key, call[t], file[t], back[t], switch) /\ Pending(call[t].todo) = "none"
    BY DEF IInv, Sound, Content, Done, Pending
  <2>2. \/ call[t].ret = 1 /\ file[t].written = "whole"
        \/ /\ call[t].ret = 0 /\ file[t].written # "whole"
           /\ call[t].fault \/ ~ Has(key, call[t].op)
    BY <2>1 DEF Encoding
  <2>3. ~ Has(key, call[t].op) =>
            call[t].op = "pki" /\ (~ key.private \/ (Kem /\ ~ key.seed))
    BY DEF Has, Kem, IsKem
  <2>4. file[t].op = "pki" => key.private
    BY <2>1, KeyFileAssumption DEF Encoding, Saved, Has, Blank
  <2> QED
    BY <2>2, <2>3, <2>4
<1> QED
  BY <1>1, Always, PTL

\* Generation and the table agree on the components of every algorithm
\* (composite_sig_key.c:181-362, comparisons of names, and the table at :585).
THEOREM KeyFileGeneratedAsNamed == Spec => []GeneratedAsNamed
<1>1. IInv => GeneratedAsNamed
  BY KeyInTable DEF IInv, GeneratedAsNamed
<1> QED
  BY <1>1, Always, PTL

\* What is read back is what was written, for every algorithm, every length of
\* its first half and any number of threads, if signature keys keep their
\* seed: without that the run MCKeyFileSeedless refutes it.
THEOREM KeyFileRoundTrip ==
    ASSUME Seedless \intersect SigNames = {}
    PROVE  Spec => []RoundTrip
<1>1. IInv => RoundTrip
  <2> SUFFICES ASSUME IInv, NEW t \in Threads, call[t].op = "read", Done(t)
               PROVE  \/ /\ call[t].ret = 1
                         /\ back[t] = [name |-> key.name, private |-> file[t].op = "pki",
                                       pq |-> key.pq, trad |-> key.trad]
                      \/ call[t].ret = 0 /\ call[t].fault
    BY DEF RoundTrip
  <2>1. Reading(key, call[t], file[t], back[t]) /\ Pending(call[t].todo) = "none"
    BY DEF IInv, Sound, Content, Done, Pending
  <2>2. Has(key, file[t].op) /\ file[t].op \in {"pki", "spki"}
    BY <2>1 DEF Reading, Saved
  <2>3. file[t].op = "pki" => key.seed
    BY <2>2 DEF IInv, KeyInv, Has, IsKem, Names
  <2>4. PqRead(key.pq, Half(file[t].op), PqOf(key, file[t].op)) = key.pq
    BY <2>3 DEF PqRead, PqOf
  <2> QED
    BY <2>1, <2>4 DEF Reading
<1> QED
  BY <1>1, Always, PTL

=============================================================================
