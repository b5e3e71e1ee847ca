------------------------- MODULE DecoderChainProofs -------------------------
(***************************************************************************)
(* Proofs about DecoderChain: any number of algorithms of both families,   *)
(* any inputs, and the decoders in any order.                              *)
(***************************************************************************)
EXTENDS DecoderChain, TLAPS

(* Where a decode function is, and what it then has: a key from NewKey on,  *)
(* an input that it parses, and at the hand-over one of its shape.          *)
Where ==
    /\ pc \in {"read", "parse", "import", "handover"} =>
          cur \in Decoders /\ outcome = "searching"
    /\ pc = "chain" => outcome = "searching"
    /\ pc \in {"import", "handover"} => Parses
    /\ pc = "handover" => doc.shape = Shape[cur.alg]
    /\ outcome = "decoded" <=> found # NULL

(* Who has the key, and how often it was freed.                            *)
Owner ==
    /\ key = "decoder" <=> pc \in {"import", "handover"}
    /\ key = "framework" <=> outcome = "decoded"
    /\ key \in {"none", "decoder", "framework", "gone"}
    /\ key # "gone" => frees = 0
    /\ key = "gone" => frees = 1 \/ (frees = 2 /\ outcome = "aborted")
    /\ pc \in {"read", "parse"} => key = "none"

(* The decoder that an input is meant for.                                 *)
Meant(d) == d.alg = doc.alg /\ d.structure = doc.structure

(* Once the decoder that can read a file has been tried and nothing has    *)
(* failed, it is at work or has decoded the file; and as long as it has    *)
(* not been tried, the search goes on.                                     *)
Progress ==
    Readable /\ ~ faults =>
        /\ \A d \in tried : Meant(d) =>
              outcome = "decoded" \/ (pc \notin {"chain", "done"} /\ cur = d)
        /\ outcome \notin {"aborted", "exhausted"}

(* Nobody ends the search for an input that is not empty.                  *)
Patience == ~ faults /\ outcome = "aborted" => doc.structure = "empty"

(* Types, without what Owner says of the key.                              *)
Types ==
    /\ doc \in Documents /\ sel \in Selections
    /\ tried \subseteq Decoders /\ cur \in Decoders \union {NULL}
    /\ pc \in {"chain", "read", "parse", "import", "handover", "done"}
    /\ faults \in BOOLEAN
    /\ outcome \in {"searching", "decoded", "aborted", "exhausted"}
    /\ found \in Algs \union {NULL}

Search == Types /\ Where /\ Progress /\ DecodedAsNamed

IInv == Search /\ Patience /\ Owner

-----------------------------------------------------------------------------
LEMMA InitIInv == Init => IInv
<1>1. SUFFICES ASSUME Init PROVE IInv
    OBVIOUS
<1>2. DecoderAssumption
    BY DecoderAssumption
<1>3. Types /\ Where /\ DecodedAsNamed
    BY <1>1, <1>2 DEF Init, Types, Where, DecodedAsNamed, DecoderAssumption
<1>4. Progress /\ Patience /\ Owner
    BY <1>1 DEF Init, Progress, Patience, Owner
<1> QED
    BY <1>3, <1>4 DEF IInv, Search

(* A file that is readable and meant for the decoder at work is parsed.    *)
LEMMA MeantParses ==
    ASSUME Readable, cur \in Decoders, Meant(cur)
    PROVE  Parses
  BY DEF Readable, Meant, Parses, check_algor, Is, Structures

LEMMA StepSearch ==
    ASSUME Search, Step
    PROVE  Search'
<1> USE DEF Structures
<1>0. /\ Types /\ Where /\ Progress /\ DecodedAsNamed
      /\ NULL \notin Algs
      /\ \A d \in Decoders : d.alg \in Algs /\ d.structure \in Structures
  BY DecoderAssumption DEF Search, DecoderAssumption, Decoders
<1>1. ASSUME NEW d \in Decoders, Offer(d) PROVE Search'
  <2>1. Types' /\ Where' /\ DecodedAsNamed'
    BY <1>0, <1>1 DEF Offer, Types, Where, DecodedAsNamed
  <2>2. Progress'
    BY <1>0, <1>1 DEF Offer, Where, Progress, Readable, Meant, DoesSelection
  <2> QED
    BY <2>1, <2>2 DEF Search
<1>2. CASE Exhausted
  <2>1. Types' /\ Where' /\ DecodedAsNamed'
    BY <1>0, <1>2 DEF Exhausted, Types, Where, DecodedAsNamed
  <2>2. Progress'
    BY <1>0, <1>2 DEF Exhausted, Progress, Readable, Meant, DoesSelection, Where
  <2> QED
    BY <2>1, <2>2 DEF Search
<1>3. CASE ReadFails
  BY <1>0, <1>3 DEF ReadFails, Returns, Search, Types, Where, Progress, DecodedAsNamed, Readable, Meant, DoesSelection
<1>4. CASE ReadNothing
  <2>1. Types' /\ Where' /\ DecodedAsNamed'
    BY <1>0, <1>4 DEF ReadNothing, Returns, Types, Where, DecodedAsNamed
  <2>2. Progress'
    BY <1>0, <1>4 DEF ReadNothing, Returns, Where, Progress, Readable, Meant, DoesSelection
  <2> QED
    BY <2>1, <2>2 DEF Search
<1>5. CASE Read
  BY <1>0, <1>5 DEF Read, Search, Types, Where, Progress, DecodedAsNamed, Readable, Meant, DoesSelection
<1>6. CASE NotMine
  <2>1. Types' /\ Where' /\ DecodedAsNamed'
    BY <1>0, <1>6 DEF NotMine, Returns, Types, Where, DecodedAsNamed
  <2>2. Progress'
    BY <1>0, <1>6, MeantParses DEF NotMine, Returns, Progress, Where, Readable, Meant, DoesSelection
  <2> QED
    BY <2>1, <2>2 DEF Search
<1>7. CASE NoMemory
  BY <1>0, <1>7 DEF NoMemory, Returns, Search, Types, Where, Progress, DecodedAsNamed, Readable, Meant, DoesSelection
<1>8. CASE NewKey
  BY <1>0, <1>8 DEF NewKey, Search, Types, Where, Progress, DecodedAsNamed, Readable, Meant, DoesSelection,
                    Parses, check_algor, Is
<1>9. CASE ImportFails
  <2>1. Types' /\ Where' /\ DecodedAsNamed'
    BY <1>0, <1>9 DEF ImportFails, Returns, Types, Where, DecodedAsNamed
  <2>2. Readable' /\ ~ faults' => ~ Meant(cur)
    BY <1>0, <1>9 DEF ImportFails, Returns, Readable, Meant, Where
  <2>3. /\ Readable' => Readable
        /\ ~ faults' => ~ faults
    BY <1>9 DEF ImportFails, Returns, Readable, DoesSelection
  <2>4. /\ outcome' = outcome /\ outcome = "searching"
        /\ tried' = tried /\ doc' = doc
    BY <1>0, <1>9 DEF ImportFails, Returns, Where
  <2>5. Readable' /\ ~ faults' => \A d \in tried' : ~ Meant(d)'
    BY <1>0, <2>2, <2>3, <2>4 DEF Progress, Meant
  <2>6. Progress'
    BY <2>4, <2>5 DEF Progress
  <2> QED
    BY <2>1, <2>6 DEF Search
<1>10. CASE Import
  <2>1. Types' /\ Where' /\ DecodedAsNamed'
    BY <1>0, <1>10 DEF Import, Types, Where, DecodedAsNamed,
                          Parses, check_algor, Is
  <2>2. Progress'
    BY <1>0, <1>10 DEF Import, Where, Progress, Readable, Meant, DoesSelection
  <2> QED
    BY <2>1, <2>2 DEF Search
<1>11. ASSUME NEW how \in Handovers, Handover(how) PROVE Search'
  <2>1. CASE how = "taken"
    <3>1. /\ cur \in Decoders /\ cur.alg \in Algs
          /\ Family[cur.alg] \in {"sig", "kem"} /\ cur.structure \in Structures
      BY <1>0, <1>11, DecoderAssumption DEF Handover, Where, DecoderAssumption
    <3>2. /\ outcome' = "decoded" /\ found' = cur.alg /\ pc' = "done"
          /\ cur' = NULL /\ key' = "framework"
          /\ UNCHANGED <<doc, sel, faults, tried>>
      BY <1>11, <2>1 DEF Handover
    <3>3. /\ doc.shape = Shape[cur.alg]
          /\ cur.structure = "PrivateKeyInfo" \/ Family[cur.alg] = "kem"
                => doc.alg = cur.alg
          /\ doc.structure = cur.structure
      BY <1>0, <1>11, <3>1 DEF Handover, Where, Parses, check_algor, Is
    <3>4. Types' /\ Where'
      BY <1>0, <3>1, <3>2 DEF Types, Where
    <3>5. DecodedAsNamed'
      BY <3>2, <3>3 DEF DecodedAsNamed
    <3>6. Progress'
      BY <1>0, <3>2 DEF Progress
    <3> QED
      BY <3>4, <3>5, <3>6 DEF Search
  <2>2. CASE how # "taken"
    <3>1. /\ faults' = TRUE /\ outcome' = "aborted" /\ pc' = "done"
          /\ cur' = NULL /\ key' = "gone"
          /\ UNCHANGED <<doc, sel, found, tried>>
      BY <1>11, <2>2 DEF Handover, Returns
    <3>2. outcome = "searching"
      BY <1>0, <1>11 DEF Handover, Where
    <3> QED
      BY <1>0, <3>1, <3>2 DEF Search, Types, Where, Progress, DecodedAsNamed
  <2> QED
    BY <2>1, <2>2
<1> QED
  BY <1>1, <1>2, <1>3, <1>4, <1>5, <1>6, <1>7, <1>8, <1>9, <1>10, <1>11 DEF Step

LEMMA StepPatience ==
    ASSUME Search, Patience, Step
    PROVE  Patience'
<1>0. pc # "done" => outcome = "searching"
  BY DEF Search, Where, Types
<1>1. ASSUME NEW d \in Decoders, Offer(d) PROVE Patience'
  BY <1>0, <1>1 DEF Offer, Patience
<1>2. CASE Exhausted
  BY <1>2 DEF Exhausted, Patience
<1>3. CASE ReadFails
  BY <1>3 DEF ReadFails, Patience
<1>4. CASE ReadNothing
  BY <1>0, <1>4 DEF ReadNothing, Returns, Patience
<1>5. CASE Read
  BY <1>0, <1>5 DEF Read, Patience
<1>6. CASE NotMine
  BY <1>0, <1>6 DEF NotMine, Returns, Patience
<1>7. CASE NoMemory
  BY <1>7 DEF NoMemory, Patience
<1>8. CASE NewKey
  BY <1>0, <1>8 DEF NewKey, Patience
<1>9. CASE ImportFails
  BY <1>0, <1>9 DEF ImportFails, Returns, Patience
<1>10. CASE Import
  BY <1>0, <1>10 DEF Import, Patience
<1>11. ASSUME NEW how \in Handovers, Handover(how) PROVE Patience'
  BY <1>11 DEF Handover, Returns, Patience
<1> QED
  BY <1>1, <1>2, <1>3, <1>4, <1>5, <1>6, <1>7, <1>8, <1>9, <1>10, <1>11 DEF Step

LEMMA StepOwner ==
    ASSUME Search, Owner, Step
    PROVE  Owner'
<1>0. Types /\ Where
  BY DEF Search
<1>1. ASSUME NEW d \in Decoders, Offer(d) PROVE Owner'
  BY <1>0, <1>1 DEF Offer, Owner, Where
<1>2. CASE Exhausted
  BY <1>0, <1>2 DEF Exhausted, Owner, Where
<1>3. CASE ReadFails
  BY <1>0, <1>3 DEF ReadFails, Returns, Owner, Where
<1>4. CASE ReadNothing
  BY <1>0, <1>4 DEF ReadNothing, Returns, Owner, Where
<1>5. CASE Read
  BY <1>0, <1>5 DEF Read, Owner, Where
<1>6. CASE NotMine
  BY <1>0, <1>6 DEF NotMine, Returns, Owner, Where
<1>7. CASE NoMemory
  BY <1>0, <1>7 DEF NoMemory, Returns, Owner, Where
<1>8. CASE NewKey
  BY <1>0, <1>8 DEF NewKey, Owner, Where
<1>9. CASE ImportFails
  BY <1>0, <1>9 DEF ImportFails, Returns, Owner, Where
<1>10. CASE Import
  BY <1>0, <1>10 DEF Import, Owner, Where
<1>11. ASSUME NEW how \in Handovers, Handover(how) PROVE Owner'
  <2>1. frees = 0 /\ outcome = "searching"
    BY <1>0, <1>11 DEF Handover, Owner, Where
  <2>2. CASE how = "taken"
    BY <1>11, <2>1, <2>2 DEF Handover, StillOurs, Owner
  <2>3. CASE how = "refused"
    BY <1>11, <2>1, <2>3 DEF Handover, StillOurs, Returns, Owner
  <2>4. CASE how = "taken_and_freed"
    BY <1>11, <2>1, <2>4 DEF Handover, StillOurs, Returns, Owner
  <2> QED
    BY <2>2, <2>3, <2>4 DEF Handovers
<1> QED
  BY <1>1, <1>2, <1>3, <1>4, <1>5, <1>6, <1>7, <1>8, <1>9, <1>10, <1>11 DEF Step

LEMMA StutterIInv ==
    ASSUME IInv, UNCHANGED vars
    PROVE  IInv'
<1>1. Search'
  BY DEF vars, IInv, Search, Types, Where, Progress, DecodedAsNamed, Parses, check_algor, Is,
         Readable, Meant, DoesSelection
<1>2. Patience' /\ Owner'
  BY DEF vars, IInv, Patience, Owner
<1> QED
  BY <1>1, <1>2 DEF IInv

(* IInv holds in every reachable state.                                    *)
THEOREM Invariance == Spec => []IInv
<1>1. Init => IInv
  BY InitIInv
<1>2. IInv /\ [Next]_vars => IInv'
  BY StepSearch, StepPatience, StepOwner, StutterIInv DEF Next, Ended, IInv
<1> QED
  BY <1>1, <1>2, PTL DEF Spec

(* What comes out of a search is of the file's shape, and of the algorithm *)
(* that its OID names wherever the decode functions compare OIDs: for      *)
(* private keys of either family and public keys of the KEMs.  A public    *)
(* signature key is only known to have the shape.                          *)
THEOREM DecodedAsNamedHolds == Spec => []DecodedAsNamed
<1>1. IInv => DecodedAsNamed
  BY DEF IInv, Search
<1> QED
  BY <1>1, Invariance, PTL

(* A proper file of any registered algorithm is decoded, whatever decoders *)
(* of whatever other algorithms are tried before its own, and no decoder   *)
(* ends the search for an input that has a byte in it.                     *)
THEOREM NobodySpoilsHolds == Spec => []NobodySpoils
<1>1. IInv => NobodySpoils
  BY DEF IInv, Search, Patience, Progress, NobodySpoils
<1> QED
  BY <1>1, Invariance, PTL

-----------------------------------------------------------------------------
(* Who has a key.                                                          *)

(* No key leaks, and none is freed that the decoder or the framework has;  *)
(* the only key that is freed twice is one whose hand-over failed after    *)
(* load had given it away.                                                 *)
THEOREM ReleasedHolds == Spec => []Released
<1>1. IInv => Released
  BY DEF IInv, Search, Types, Where, Owner, Released
<1> QED
  BY <1>1, Invariance, PTL

(* Every variable has its type; in particular nothing is freed three times.*)
THEOREM TypeCorrect == Spec => []TypeOK
<1>1. IInv => TypeOK
  BY DEF IInv, Search, Types, Owner, TypeOK
<1> QED
  BY <1>1, Invariance, PTL

=============================================================================
