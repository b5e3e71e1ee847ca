------------------------- MODULE ProviderLoadProofs -------------------------
(***************************************************************************)
(* Proofs about ProviderLoad, for any number of threads and algorithms,    *)
(* any codec lists and any capacity.                                       *)
(***************************************************************************)
EXTENDS ProviderLoad, SequenceTheorems, TLAPS

(* What a thread still has to do: it is at most as far as the OID database *)
(* and what it declares has just been created; what it creates after it    *)
(* looked is a KEM.                                                        *)
Progress(t) ==
    /\ pc[t] \in {"sigid", "create"} => todo[t] # <<>>
    /\ pc[t] \in {"loaded", "merge"} => todo[t] = <<>>
    /\ pc[t] = "sigid" => Head(todo[t]) \in Sig \intersect oids
    /\ pc[t] = "create" => Head(todo[t]) \in Kem

(* Every OID that is missing is still on the list of every thread that has *)
(* begun, unless an allocation failed: a thread takes an algorithm off its *)
(* list only when its OID is in the database, where it stays.              *)
Remaining ==
    ~ faults =>
        \A t \in Threads :
            pc[t] # "idle" => (Sig \union Kem) \ oids \subseteq Elements(todo[t])

(* An OID that goes by another name than the provider's was there before.  *)
Named == oids \ Foreign \subseteq names

IInv == /\ TypeOK
        /\ \A t \in Threads : Progress(t)
        /\ Remaining
        /\ Named
        /\ Terminated

-----------------------------------------------------------------------------
(* Sequences.                                                              *)

LEMMA HeadTail ==
    ASSUME NEW S, NEW s \in Seq(S), s # <<>>
    PROVE  /\ Head(s) \in S
           /\ Tail(s) \in Seq(S)
           /\ Elements(s) = {Head(s)} \union Elements(Tail(s))
<1>1. Len(s) \in Nat /\ Len(s) > 0 /\ DOMAIN s = 1 .. Len(s)
    OBVIOUS
<1>2. Head(s) = s[1] /\ Head(s) \in S
    BY <1>1
<1>3. /\ Tail(s) \in Seq(S)
      /\ DOMAIN Tail(s) = 1 .. (Len(s) - 1)
      /\ \A i \in 1 .. (Len(s) - 1) : Tail(s)[i] = s[i + 1]
    BY <1>1
<1>4. \A x \in Elements(s) : x = Head(s) \/ x \in Elements(Tail(s))
    <2>1. SUFFICES ASSUME NEW i \in 1 .. Len(s), i # 1
                   PROVE  s[i] \in Elements(Tail(s))
        BY <1>1, <1>2 DEF Elements
    <2>2. i - 1 \in 1 .. (Len(s) - 1) /\ (i - 1) + 1 = i
        BY <1>1, <2>1
    <2>3. i - 1 \in DOMAIN Tail(s) /\ Tail(s)[i - 1] = s[i]
        BY <1>3, <2>2
    <2> QED
        BY <2>3 DEF Elements
<1>5. \A x \in Elements(Tail(s)) : x \in Elements(s)
    BY <1>1, <1>3 DEF Elements
<1>6. Head(s) \in Elements(s)
    BY <1>1, <1>2 DEF Elements
<1> QED
    BY <1>2, <1>3, <1>4, <1>5, <1>6

LEMMA Concatenation ==
    ASSUME NEW S, NEW r \in Seq(S), NEW s \in Seq(S)
    PROVE  /\ r \o s \in Seq(S)
           /\ Elements(r \o s) = Elements(r) \union Elements(s)
<1>1. /\ r \o s \in Seq(S)
      /\ DOMAIN (r \o s) = 1 .. (Len(r) + Len(s))
      /\ Len(r) \in Nat /\ Len(s) \in Nat
      /\ DOMAIN r = 1 .. Len(r) /\ DOMAIN s = 1 .. Len(s)
    OBVIOUS
<1>2. \A i \in 1 .. Len(r) : (r \o s)[i] = r[i]
    BY <1>1
<1>3. \A i \in 1 .. Len(s) : (r \o s)[Len(r) + i] = s[i]
    BY <1>1
<1>4. Elements(r) \subseteq Elements(r \o s)
    BY <1>1, <1>2 DEF Elements
<1>5. Elements(s) \subseteq Elements(r \o s)
    <2>1. SUFFICES ASSUME NEW i \in 1 .. Len(s)
                   PROVE  s[i] \in Elements(r \o s)
        BY <1>1 DEF Elements
    <2>2. Len(r) + i \in DOMAIN (r \o s)
        BY <1>1
    <2> QED
        BY <1>3, <2>2 DEF Elements
<1>6. ASSUME NEW i \in 1 .. (Len(r) + Len(s))
      PROVE  (r \o s)[i] \in Elements(r) \union Elements(s)
    <2>1. CASE i <= Len(r)
        BY <1>1, <1>2, <2>1 DEF Elements
    <2>2. CASE i > Len(r)
        <3>1. i - Len(r) \in 1 .. Len(s) /\ (r \o s)[i] = s[i - Len(r)]
            BY <1>1, <2>2
        <3> QED
            BY <1>1, <3>1 DEF Elements
    <2> QED
        BY <1>1, <2>1, <2>2
<1> QED
    BY <1>1, <1>4, <1>5, <1>6 DEF Elements

LEMMA Registrations ==
    /\ SigAlgs \o KemAlgs \in Seq(Sig \union Kem)
    /\ Elements(SigAlgs \o KemAlgs) = Sig \union Kem
<1>1. SigAlgs \in Seq(Sig \union Kem) /\ KemAlgs \in Seq(Sig \union Kem)
    BY ProviderAssumption
<1> QED
    BY <1>1, Concatenation DEF Sig, Kem

LEMMA FunctionIsSequence ==
    ASSUME NEW S, NEW n \in Nat, NEW f \in [1 .. n -> S]
    PROVE  f \in Seq(S)
    OBVIOUS

LEMMA CopiesType ==
    ASSUME NEW l \in Kinds, NEW s \in Seq(Entries)
    PROVE  Copies(l, s) \in Seq([list : Kinds, entry : Entries])
<1>1. Len(s) \in Nat /\ DOMAIN s = 1 .. Len(s) /\ \A i \in 1 .. Len(s) : s[i] \in Entries
    OBVIOUS
<1>2. Copies(l, s) \in [1 .. Len(s) -> [list : Kinds, entry : Entries]]
    BY <1>1 DEF Copies
<1> QED
    BY <1>1, <1>2, FunctionIsSequence

LEMMA AllCopiesType == AllCopies \in Seq([list : Kinds, entry : Entries])
<1>1. "decoders" \in Kinds /\ "encoders" \in Kinds
    BY DEF Kinds
<1>2. \A l \in Kinds : /\ Copies(l, Codecs[l].sig) \in Seq([list : Kinds, entry : Entries])
                       /\ Copies(l, Codecs[l].kem) \in Seq([list : Kinds, entry : Entries])
    BY ProviderAssumption, CopiesType
<1>3. ASSUME NEW S, NEW p \in Seq(S), NEW q \in Seq(S), NEW r \in Seq(S), NEW s \in Seq(S)
      PROVE  p \o q \o r \o s \in Seq(S)
    BY Concatenation
<1> QED
    BY <1>1, <1>2, <1>3 DEF AllCopies

-----------------------------------------------------------------------------
(* The invariant.                                                          *)

LEMMA InitIInv == Init => IInv
<1> SUFFICES ASSUME Init PROVE IInv
    OBVIOUS
<1>1. TypeOK
    <2>1. source \in Seq([list : Kinds, entry : Entries])
        BY AllCopiesType DEF Init
    <2>2. /\ oids \subseteq Sig \union Kem /\ sigids \subseteq Sig
          /\ sigids \subseteq oids /\ names \subseteq oids
        BY ProviderAssumption DEF Init
    <2>3. /\ todo \in [Threads -> Seq(Sig \union Kem)]
          /\ merged \in [Kinds -> Seq(Entries)]
        BY DEF Init
    <2>4. \A t \in Threads : pc[t] = "idle"
        BY DEF Init
    <2> QED
        BY <2>1, <2>2, <2>3, <2>4 DEF Init, TypeOK
<1>2. (\A t \in Threads : Progress(t)) /\ Remaining
    BY DEF Init, Progress, Remaining
<1>3. Terminated /\ Named
    BY ProviderAssumption DEF Init, Terminated, Named
<1> QED
    BY <1>1, <1>2, <1>3 DEF IInv

(* What a step of the registration keeps: it moves one thread, which is    *)
(* neither merging nor about to, and adds to the database.                 *)
LEMMA RegistrationStep ==
    ASSUME IInv, NEW t \in Threads,
           NEW label \in {"idle", "register", "sigid", "create", "loaded"},
           NEW rest \in Seq(Sig \union Kem),
           pc[t] # "merge",
           pc' = [pc EXCEPT ![t] = label],
           todo' = [todo EXCEPT ![t] = rest],
           oids \subseteq oids', oids' \subseteq Sig \union Kem,
           names' \subseteq oids', oids' \ Foreign \subseteq names',
           sigids' \subseteq Sig \intersect oids',
           faults' \in BOOLEAN, faults => faults',
           handed' \in [Threads -> SUBSET Kinds],
           UNCHANGED <<once, merged, source>>,
           label \in {"sigid", "create"} => rest # <<>>,
           label = "loaded" => rest = <<>>,
           label = "sigid" => Head(rest) \in Sig \intersect oids',
           label = "create" => Head(rest) \in Kem,
           ~ faults' /\ label # "idle" =>
               (Sig \union Kem) \ oids' \subseteq Elements(rest)
    PROVE  IInv'
<1>1. TypeOK'
    BY DEF IInv, TypeOK
<1>2. ASSUME NEW s \in Threads
      PROVE  Progress(s)'
    <2>1. CASE s = t
        BY <2>1 DEF IInv, TypeOK, Progress
    <2>2. CASE s # t
        <3>1. pc'[s] = pc[s] /\ todo'[s] = todo[s]
            BY <2>2 DEF IInv, TypeOK
        <3>2. Progress(s)
            BY DEF IInv
        <3> QED
            BY <3>1, <3>2 DEF Progress
    <2> QED
        BY <2>1, <2>2
<1>3. Remaining'
    <2>1. SUFFICES ASSUME ~ faults', NEW s \in Threads, pc'[s] # "idle"
                   PROVE  (Sig \union Kem) \ oids' \subseteq Elements(todo'[s])
        BY DEF Remaining, Elements
    <2>2. CASE s = t
        <3>1. pc'[t] = label /\ todo'[t] = rest
            BY DEF IInv, TypeOK
        <3> QED
            BY <2>1, <2>2, <3>1
    <2>3. CASE s # t
        <3>1. pc'[s] = pc[s] /\ todo'[s] = todo[s]
            BY <2>3 DEF IInv, TypeOK
        <3>2. (Sig \union Kem) \ oids \subseteq Elements(todo[s])
            BY <2>1, <3>1 DEF IInv, Remaining
        <3> QED
            BY <3>1, <3>2
    <2> QED
        BY <2>2, <2>3
<1>4. Terminated' /\ Named'
    BY DEF IInv, Terminated, Named
<1> QED
    BY <1>1, <1>2, <1>3, <1>4 DEF IInv

LEMMA NextIInv == IInv /\ [Next]_vars => IInv'
<1> SUFFICES ASSUME IInv, [Next]_vars PROVE IInv'
    OBVIOUS
<1> USE DEF IInv
<1>1. ASSUME NEW t \in Threads, Load(t)
      PROVE  IInv'
    <2>1. SigAlgs \o KemAlgs \in Seq(Sig \union Kem)
        BY Registrations
    <2>2. (Sig \union Kem) \ oids' \subseteq Elements(SigAlgs \o KemAlgs)
        BY Registrations
    <2> QED
        BY <1>1, <2>1, <2>2, RegistrationStep
        DEF Load, Goto, registry, lists, TypeOK, Named
<1>2. ASSUME NEW t \in Threads, RegisterSig(t)
      PROVE  IInv'
    <2> DEFINE a == Head(todo[t])
    <2>1. /\ todo[t] \in Seq(Sig \union Kem) /\ todo[t] # <<>>
          /\ pc[t] = "register" /\ a \in Sig
        BY <1>2 DEF RegisterSig, TypeOK
    <2>2. /\ Tail(todo[t]) \in Seq(Sig \union Kem)
          /\ Elements(todo[t]) = {a} \union Elements(Tail(todo[t]))
        BY <2>1, HeadTail
    <2>3. ~ faults => (Sig \union Kem) \ oids \subseteq Elements(todo[t])
        BY <2>1 DEF Remaining
    <2>4. PICK fails \in BOOLEAN :
             /\ fails => a \notin oids
             /\ Create(a, fails)
             /\ IF a \in oids \/ fails THEN NextAlg(t)
                                      ELSE Goto(t, "sigid") /\ UNCHANGED todo
        BY <1>2 DEF RegisterSig
    <2>5. /\ oids \subseteq oids' /\ oids' \subseteq Sig \union Kem
          /\ sigids' \subseteq Sig \intersect oids'
          /\ names' \subseteq oids' /\ oids' \ Foreign \subseteq names'
          /\ faults' \in BOOLEAN /\ (faults => faults')
          /\ fails => faults'
          /\ ~ fails => a \in oids'
          /\ UNCHANGED <<once, merged, source, handed>>
          /\ handed' \in [Threads -> SUBSET Kinds]
        BY <1>2, <2>1, <2>4 DEF RegisterSig, Create, lists, TypeOK, Named
    <2>6. CASE a \in oids \/ fails
        <3>1. /\ pc' = [pc EXCEPT ![t] = "register"]
              /\ todo' = [todo EXCEPT ![t] = Tail(todo[t])]
            BY <2>4, <2>6 DEF NextAlg, Goto
        <3>2. ~ faults' => (Sig \union Kem) \ oids' \subseteq Elements(Tail(todo[t]))
            BY <2>2, <2>3, <2>5
        <3> QED
            BY <2>1, <2>2, <2>5, <3>1, <3>2, RegistrationStep
    <2>7. CASE ~ (a \in oids \/ fails)
        <3>1. /\ pc' = [pc EXCEPT ![t] = "sigid"]
              /\ todo' = [todo EXCEPT ![t] = todo[t]]
            BY <2>4, <2>7 DEF Goto, TypeOK
        <3>2. ~ faults' => (Sig \union Kem) \ oids' \subseteq Elements(todo[t])
            BY <2>3, <2>5
        <3>3. Head(todo[t]) \in Sig \intersect oids'
            BY <2>1, <2>5, <2>7
        <3> QED
            BY <2>1, <2>5, <3>1, <3>2, <3>3, RegistrationStep
    <2> QED
        BY <2>6, <2>7
<1>3. ASSUME NEW t \in Threads, AddSigid(t)
      PROVE  IInv'
    <2>1. /\ todo[t] \in Seq(Sig \union Kem) /\ todo[t] # <<>>
          /\ pc[t] = "sigid" /\ Head(todo[t]) \in Sig \intersect oids
        BY <1>3 DEF AddSigid, TypeOK, Progress
    <2>2. /\ Tail(todo[t]) \in Seq(Sig \union Kem)
          /\ Elements(todo[t]) = {Head(todo[t])} \union Elements(Tail(todo[t]))
        BY <2>1, HeadTail
    <2>3. ~ faults => (Sig \union Kem) \ oids \subseteq Elements(todo[t])
        BY <2>1 DEF Remaining
    <2>4. /\ sigids' \subseteq Sig \intersect oids' /\ faults' \in BOOLEAN
          /\ (faults => faults') /\ oids' = oids /\ oids \subseteq Sig \union Kem
          /\ names' \subseteq oids' /\ oids' \ Foreign \subseteq names'
          /\ UNCHANGED <<once, merged, source, handed>>
          /\ handed' \in [Threads -> SUBSET Kinds]
        BY <1>3, <2>1 DEF AddSigid, lists, TypeOK, Named
    <2>5. /\ pc' = [pc EXCEPT ![t] = "register"]
          /\ todo' = [todo EXCEPT ![t] = Tail(todo[t])]
        BY <1>3 DEF AddSigid, NextAlg, Goto
    <2>6. ~ faults' => (Sig \union Kem) \ oids' \subseteq Elements(Tail(todo[t]))
        BY <2>1, <2>2, <2>3, <2>4
    <2> QED
        BY <2>1, <2>2, <2>4, <2>5, <2>6, RegistrationStep
<1>4. ASSUME NEW t \in Threads, LookUpKem(t)
      PROVE  IInv'
    <2> DEFINE a == Head(todo[t])
    <2>1. /\ todo[t] \in Seq(Sig \union Kem) /\ todo[t] # <<>> /\ pc[t] = "register"
          /\ a \in Kem
        BY <1>4 DEF LookUpKem, TypeOK
    <2>2. /\ Tail(todo[t]) \in Seq(Sig \union Kem)
          /\ Elements(todo[t]) = {a} \union Elements(Tail(todo[t]))
        BY <2>1, HeadTail
    <2>3. ~ faults => (Sig \union Kem) \ oids \subseteq Elements(todo[t])
        BY <2>1 DEF Remaining
    <2>4. /\ UNCHANGED <<oids, names, sigids, faults, once, merged, source, handed>>
          /\ oids \subseteq Sig \union Kem /\ sigids \subseteq Sig \intersect oids
          /\ names \subseteq oids /\ oids \ Foreign \subseteq names
          /\ faults \in BOOLEAN /\ handed \in [Threads -> SUBSET Kinds]
        BY <1>4 DEF LookUpKem, registry, lists, TypeOK, Named
    <2>5. CASE a \in oids
        <3>1. /\ pc' = [pc EXCEPT ![t] = "register"]
              /\ todo' = [todo EXCEPT ![t] = Tail(todo[t])]
            BY <1>4, <2>5 DEF LookUpKem, NextAlg, Goto
        <3>2. ~ faults' => (Sig \union Kem) \ oids' \subseteq Elements(Tail(todo[t]))
            BY <2>2, <2>3, <2>4, <2>5
        <3> QED
            BY <2>1, <2>2, <2>4, <3>1, <3>2, RegistrationStep
    <2>6. CASE a \notin oids
        <3>1. /\ pc' = [pc EXCEPT ![t] = "create"]
              /\ todo' = [todo EXCEPT ![t] = todo[t]]
            BY <1>4, <2>6 DEF LookUpKem, Goto, TypeOK
        <3> QED
            BY <2>1, <2>3, <2>4, <3>1, RegistrationStep
    <2> QED
        BY <2>5, <2>6
<1>5. ASSUME NEW t \in Threads, CreateKem(t)
      PROVE  IInv'
    <2> DEFINE a == Head(todo[t])
    <2>1. /\ todo[t] \in Seq(Sig \union Kem) /\ todo[t] # <<>> /\ pc[t] = "create"
        BY <1>5 DEF CreateKem, TypeOK, Progress
    <2>2. /\ Tail(todo[t]) \in Seq(Sig \union Kem) /\ a \in Sig \union Kem
          /\ Elements(todo[t]) = {a} \union Elements(Tail(todo[t]))
        BY <2>1, HeadTail
    <2>3. ~ faults => (Sig \union Kem) \ oids \subseteq Elements(todo[t])
        BY <2>1 DEF Remaining
    <2>4. PICK fails \in BOOLEAN : Create(a, fails)
        BY <1>5 DEF CreateKem
    <2>5. /\ oids \subseteq oids' /\ oids' \subseteq Sig \union Kem
          /\ sigids' \subseteq Sig \intersect oids'
          /\ names' \subseteq oids' /\ oids' \ Foreign \subseteq names'
          /\ faults' \in BOOLEAN /\ (faults => faults')
          /\ ~ faults' => a \in oids'
          /\ UNCHANGED <<once, merged, source, handed>>
          /\ handed' \in [Threads -> SUBSET Kinds]
        BY <1>5, <2>2, <2>4 DEF CreateKem, Create, lists, TypeOK, Named
    <2>6. /\ pc' = [pc EXCEPT ![t] = "register"]
          /\ todo' = [todo EXCEPT ![t] = Tail(todo[t])]
        BY <1>5 DEF CreateKem, NextAlg, Goto
    <2>7. ~ faults' => (Sig \union Kem) \ oids' \subseteq Elements(Tail(todo[t]))
        BY <2>2, <2>3, <2>5
    <2> QED
        BY <2>1, <2>2, <2>5, <2>6, <2>7, RegistrationStep
<1>6. ASSUME NEW t \in Threads, MakeContext(t)
      PROVE  IInv'
    <2>1. PICK ok \in BOOLEAN : /\ Goto(t, IF ok THEN "loaded" ELSE "idle")
                                /\ faults' = (faults \/ ~ ok)
        BY <1>6 DEF MakeContext
    <2>2. /\ pc[t] = "register" /\ todo[t] = <<>>
          /\ todo' = [todo EXCEPT ![t] = <<>>]
          /\ UNCHANGED <<oids, names, sigids, once, merged, source, handed>>
          /\ oids \subseteq Sig \union Kem /\ sigids \subseteq Sig \intersect oids
          /\ names \subseteq oids /\ oids \ Foreign \subseteq names
          /\ handed \in [Threads -> SUBSET Kinds]
        BY <1>6 DEF MakeContext, registry, lists, TypeOK, Named
    <2>3. ~ faults => (Sig \union Kem) \ oids \subseteq Elements(<<>>)
        BY <2>2 DEF Remaining
    <2>4. faults' \in BOOLEAN /\ (faults => faults') /\ <<>> \in Seq(Sig \union Kem)
        BY <2>1 DEF TypeOK
    <2>5. CASE ok
        BY <2>1, <2>2, <2>3, <2>4, <2>5, RegistrationStep DEF Goto
    <2>6. CASE ~ ok
        BY <2>1, <2>2, <2>3, <2>4, <2>6, RegistrationStep DEF Goto
    <2> QED
        BY <2>5, <2>6
<1>7. ASSUME NEW t \in Threads, Teardown(t)
      PROVE  IInv'
    <2>1. todo[t] = <<>> /\ pc[t] = "loaded"
        BY <1>7 DEF Teardown, Progress
    <2>2. /\ pc' = [pc EXCEPT ![t] = "idle"]
          /\ todo' = [todo EXCEPT ![t] = <<>>]
          /\ UNCHANGED <<oids, names, sigids, faults, once, merged, source>>
          /\ oids \subseteq Sig \union Kem /\ sigids \subseteq Sig \intersect oids
          /\ names \subseteq oids /\ oids \ Foreign \subseteq names
          /\ faults \in BOOLEAN /\ handed' \in [Threads -> SUBSET Kinds]
          /\ <<>> \in Seq(Sig \union Kem)
        BY <1>7, <2>1 DEF Teardown, Goto, registry, TypeOK, Named
    <2> QED
        BY <2>1, <2>2, RegistrationStep
<1>8. ASSUME NEW t \in Threads, NEW l \in Kinds, Query(t, l)
      PROVE  IInv'
    <2>1. /\ UNCHANGED <<oids, names, sigids, todo, merged, source, faults>>
          /\ handed' \in [Threads -> SUBSET Kinds]
        <3>1. UNCHANGED <<oids, names, sigids, todo, merged, source, faults>>
            BY <1>8 DEF Query, registry
        <3>2. handed' = [handed EXCEPT ![t] = handed[t] \union {l}] \/ handed' = handed
            BY <1>8 DEF Query
        <3>3. handed \in [Threads -> SUBSET Kinds] /\ handed[t] \union {l} \in SUBSET Kinds
            BY <1>8 DEF TypeOK
        <3>4. [handed EXCEPT ![t] = handed[t] \union {l}] \in [Threads -> SUBSET Kinds]
            BY <3>3
        <3> QED
            BY <3>1, <3>2, <3>3, <3>4
    <2>2. CASE UNCHANGED <<pc, once>>
        BY <2>1, <2>2 DEF TypeOK, Progress, Remaining, Terminated, Named
    <2>3. CASE once = "new" /\ once' = "running" /\ Goto(t, "merge")
        <3>1. /\ pc' = [pc EXCEPT ![t] = "merge"] /\ once' = "running"
              /\ pc[t] = "loaded" /\ \A s \in Threads : pc[s] # "merge"
            BY <1>8, <2>3 DEF Query, Goto, TypeOK
        <3>2. TypeOK'
            BY <2>1, <3>1 DEF TypeOK
        <3>3. ASSUME NEW s \in Threads
              PROVE  Progress(s)'
            BY <2>1, <3>1 DEF TypeOK, Progress
        <3>4. Remaining'
            BY <2>1, <3>1 DEF TypeOK, Remaining
        <3> QED
            BY <2>1, <3>2, <3>3, <3>4 DEF Terminated, Named
    <2> QED
        BY <1>8, <2>2, <2>3 DEF Query
<1>9. ASSUME NEW t \in Threads, Merge(t)
      PROVE  IInv'
    <2> DEFINE c == Head(source)
    <2>1. /\ UNCHANGED <<oids, names, sigids, todo, pc, once, handed, faults>>
          /\ source \in Seq([list : Kinds, entry : Entries]) /\ source # <<>>
          /\ source' = Tail(source)
        BY <1>9 DEF Merge, registry, TypeOK
    <2>2. /\ c \in [list : Kinds, entry : Entries]
          /\ source' \in Seq([list : Kinds, entry : Entries])
        BY <2>1, HeadTail
    <2>3. /\ c.list \in Kinds /\ c.entry \in Entries
          /\ merged \in [Kinds -> Seq(Entries)]
          /\ Len(merged[c.list]) \in Nat
        BY <2>2 DEF TypeOK
    <2>4. CASE ~ HasRoom(Len(merged[c.list]))
        <3>1. merged' = merged
            BY <1>9, <2>4 DEF Merge
        <3> QED
            BY <2>1, <2>2, <3>1 DEF TypeOK, Progress, Remaining, Terminated, Named
    <2>5. CASE HasRoom(Len(merged[c.list]))
        <3>1. merged' = [merged EXCEPT ![c.list] = Append(merged[c.list], c.entry)]
            BY <1>9, <2>5 DEF Merge
        <3>2. /\ Append(merged[c.list], c.entry) \in Seq(Entries)
              /\ Len(Append(merged[c.list], c.entry)) = Len(merged[c.list]) + 1
            BY <2>3
        <3>3. merged' \in [Kinds -> Seq(Entries)]
            BY <2>3, <3>1, <3>2
        <3>4. Terminated'
            BY <2>3, <2>5, <3>1, <3>2 DEF Terminated, HasRoom
        <3> QED
            BY <2>1, <2>2, <3>3, <3>4 DEF TypeOK, Progress, Remaining, Named
    <2> QED
        BY <2>4, <2>5
<1>10. ASSUME NEW t \in Threads, MergeDone(t)
       PROVE  IInv'
    <2>1. /\ UNCHANGED <<oids, names, sigids, todo, merged, source, handed, faults>>
          /\ pc[t] = "merge" /\ once' = "done" /\ pc' = [pc EXCEPT ![t] = "loaded"]
        BY <1>10 DEF MergeDone, Goto, registry
    <2>2. \A s \in Threads : pc'[s] # "merge"
        BY <2>1 DEF TypeOK
    <2>3. TypeOK'
        BY <2>1, <2>2 DEF TypeOK
    <2>4. ASSUME NEW s \in Threads
          PROVE  Progress(s)'
        BY <2>1 DEF TypeOK, Progress
    <2>5. Remaining'
        BY <2>1 DEF TypeOK, Remaining
    <2> QED
        BY <2>1, <2>3, <2>4, <2>5 DEF Terminated, Named
<1>11. CASE UNCHANGED vars
    BY <1>11 DEF vars, TypeOK, Progress, Remaining, Terminated, Named
<1> QED
    BY <1>1, <1>2, <1>3, <1>4, <1>5, <1>6, <1>7, <1>8, <1>9, <1>10, <1>11 DEF Next

-----------------------------------------------------------------------------
(* Theorems.                                                               *)

(* IInv holds in every reachable state: the three facts of the lemmas,     *)
(* about OSSL_provider_init and codec_merge_do.                            *)
THEOREM Invariance == Spec => []IInv
    BY InitIInv, NextIInv, PTL DEF Spec

(* Every state of the load and of the merge has its type; in particular    *)
(* one thread at most runs codec_merge_do.                                 *)
THEOREM TypeCorrect == Spec => []TypeOK
<1>1. IInv => TypeOK
    BY DEF IInv
<1> QED
    BY <1>1, Invariance, PTL

(* However many threads run OSSL_provider_init at once, and whatever was   *)
(* registered before, a loaded instance finds every composite OID, and by  *)
(* its name unless another one had been given to it.                       *)
THEOREM Registered == Spec => []RegisteredWhenLoaded
<1>1. IInv => RegisteredWhenLoaded
    <2>1. SUFFICES ASSUME IInv, NEW t \in Threads, pc[t] \in {"loaded", "merge"}, ~ faults
                   PROVE  /\ Sig \union Kem \subseteq oids
                          /\ (Sig \union Kem) \ Foreign \subseteq names
        BY DEF RegisteredWhenLoaded
    <2>2. todo[t] = <<>>
        BY <2>1 DEF IInv, Progress
    <2>3. (Sig \union Kem) \ oids \subseteq Elements(<<>>)
        BY <2>1, <2>2 DEF IInv, Remaining
    <2>4. Elements(<<>>) = {}
        BY DEF Elements
    <2> QED
        BY <2>1, <2>3, <2>4 DEF IInv, Named
<1> QED
    BY <1>1, Invariance, PTL

(* The thread that creates an OID holds it at the head of its list until   *)
(* it has declared it; nobody else takes that step from it.                *)
LEMMA StepDeclared == IInv /\ DeclaredByCreator /\ [Next]_vars => DeclaredByCreator'
<1> DEFINE Declaring(a) == \E t \in Threads : pc[t] = "sigid" /\ Head(todo[t]) = a
<1> SUFFICES ASSUME IInv, DeclaredByCreator, [Next]_vars,
                    ~ faults', NEW a \in Sig \ Known, a \in names'
             PROVE  a \in sigids' \/ Declaring(a)'
    BY DEF DeclaredByCreator
<1>1. a \in names /\ ~ faults => a \in sigids \/ Declaring(a)
    BY DEF DeclaredByCreator
\* A thread that is not declaring anything moves on its own.
<1>2. ASSUME NEW t \in Threads, pc[t] # "sigid", UNCHANGED registry, ~ faults,
             \A s \in Threads \ {t} : pc'[s] = pc[s] /\ todo'[s] = todo[s]
      PROVE  a \in sigids' \/ Declaring(a)'
    BY <1>1, <1>2 DEF registry
<1>3. ASSUME NEW t \in Threads, Load(t) PROVE a \in sigids' \/ Declaring(a)'
    BY <1>2, <1>3 DEF Load, Goto, IInv, TypeOK
<1>4. ASSUME NEW t \in Threads, RegisterSig(t) PROVE a \in sigids' \/ Declaring(a)'
    <2>1. \A s \in Threads \ {t} : pc'[s] = pc[s] /\ todo'[s] = todo[s]
        BY <1>4 DEF RegisterSig, NextAlg, Goto, IInv, TypeOK
    <2>2. pc[t] # "sigid" /\ ~ faults /\ sigids' = sigids
        BY <1>4 DEF RegisterSig, Create
    <2>3. CASE a \in names
        BY <1>1, <2>1, <2>2, <2>3
    <2>4. CASE a \notin names
        <3>1. a = Head(todo[t]) /\ pc' = [pc EXCEPT ![t] = "sigid"] /\ todo' = todo
            BY <1>4, <2>4 DEF RegisterSig, Create, Goto
        <3> QED
            BY <3>1 DEF IInv, TypeOK
    <2> QED
        BY <2>3, <2>4
<1>5. ASSUME NEW t \in Threads, AddSigid(t) PROVE a \in sigids' \/ Declaring(a)'
    <2>1. \A s \in Threads \ {t} : pc'[s] = pc[s] /\ todo'[s] = todo[s]
        BY <1>5 DEF AddSigid, NextAlg, Goto, IInv, TypeOK
    <2>2. ~ faults /\ sigids' = sigids \union {Head(todo[t])} /\ names' = names
        BY <1>5 DEF AddSigid
    <2> QED
        BY <1>1, <2>1, <2>2
<1>6. ASSUME NEW t \in Threads, LookUpKem(t) PROVE a \in sigids' \/ Declaring(a)'
    <2>1. /\ pc[t] # "sigid" /\ UNCHANGED registry /\ faults' = faults
          /\ \A s \in Threads \ {t} : pc'[s] = pc[s] /\ todo'[s] = todo[s]
        BY <1>6 DEF LookUpKem, NextAlg, Goto, IInv, TypeOK
    <2> QED
        BY <1>2, <2>1
<1>7. ASSUME NEW t \in Threads, CreateKem(t) PROVE a \in sigids' \/ Declaring(a)'
    <2>1. \A s \in Threads \ {t} : pc'[s] = pc[s] /\ todo'[s] = todo[s]
        BY <1>7 DEF CreateKem, NextAlg, Goto, IInv, TypeOK
    <2>2. pc[t] # "sigid" /\ ~ faults /\ sigids' = sigids
        BY <1>7 DEF CreateKem, Create
    <2>3. a \in names
        <3>1. names' \subseteq names \union {Head(todo[t])}
            BY <1>7 DEF CreateKem, Create
        <3>2. Head(todo[t]) \notin Sig
            BY <1>7, ProviderAssumption DEF CreateKem, IInv, Progress
        <3> QED
            BY <3>1, <3>2
    <2> QED
        BY <1>1, <2>1, <2>2, <2>3
<1>8. ASSUME NEW t \in Threads,
             MakeContext(t) \/ Teardown(t) \/ Merge(t) \/ MergeDone(t)
                \/ \E l \in Kinds : Query(t, l)
      PROVE  a \in sigids' \/ Declaring(a)'
    <2>1. /\ pc[t] # "sigid" /\ UNCHANGED registry /\ ~ faults
          /\ \A s \in Threads \ {t} : pc'[s] = pc[s] /\ todo'[s] = todo[s]
        <3>1. CASE MakeContext(t)
            BY <3>1 DEF MakeContext, Goto, IInv, TypeOK
        <3>2. CASE Teardown(t)
            BY <3>2 DEF Teardown, Goto, IInv, TypeOK
        <3>3. CASE Merge(t)
            BY <3>3 DEF Merge
        <3>4. CASE MergeDone(t)
            BY <3>4 DEF MergeDone, Goto, IInv, TypeOK
        <3>5. ASSUME NEW l \in Kinds, Query(t, l)
              PROVE  /\ pc[t] # "sigid" /\ UNCHANGED registry /\ ~ faults
                     /\ \A s \in Threads \ {t} : pc'[s] = pc[s] /\ todo'[s] = todo[s]
            BY <3>5 DEF Query, Goto, IInv, TypeOK
        <3> QED
            BY <1>8, <3>1, <3>2, <3>3, <3>4, <3>5
    <2> QED
        BY <1>2, <2>1
<1>9. CASE UNCHANGED vars
    BY <1>1, <1>9 DEF vars
<1> QED
    BY <1>3, <1>4, <1>5, <1>6, <1>7, <1>8, <1>9 DEF Next

(* However threads that load at once overtake each other, an OID that one  *)
(* of them created is declared, or that thread is the one to declare it.   *)
THEOREM DeclaredByCreatorHolds == Spec => []DeclaredByCreator
<1>1. Init => DeclaredByCreator
    BY DEF Init, DeclaredByCreator
<1> QED
    BY <1>1, StepDeclared, Invariance, PTL DEF Spec

(* So where a loaded instance can miss a declaration                       *)
(* (tests/test_oid_registration.c:100 says it cannot), that is over as     *)
(* soon as no thread is between OBJ_create and OBJ_add_sigid, unless the   *)
(* OID was there before the provider or an allocation failed.              *)
DeclaredWhenQuiet ==
    (/\ ~ faults
     /\ \E t \in Threads : pc[t] \in {"loaded", "merge"}
     /\ \A t \in Threads : pc[t] # "sigid")
        => Sig \ (Known \union Foreign) \subseteq sigids

THEOREM DeclaredInTheEnd == Spec => []DeclaredWhenQuiet
<1>1. RegisteredWhenLoaded /\ DeclaredByCreator => DeclaredWhenQuiet
    BY DEF RegisteredWhenLoaded, DeclaredByCreator, DeclaredWhenQuiet
<1> QED
    BY <1>1, Registered, DeclaredByCreatorHolds, PTL

(* merge_algorithm_lists never fills the last place, whatever the capacity *)
(* and however long the lists.                                             *)
THEOREM AlwaysTerminated == Spec => []Terminated
<1>1. IInv => Terminated
    BY DEF IInv
<1> QED
    BY <1>1, Invariance, PTL

-----------------------------------------------------------------------------
(* The merge: a list that a query has returned is complete, or cut where   *)
(* the array ends, for codec lists of any length.                          *)

Whole(l) == Codecs[l].sig \o Codecs[l].kem
Kept(n) == IF n < Capacity THEN n ELSE Capacity - 1

(* Of the first n copies, those that go to list l: the decoders come first. *)
Boundary == Len(Whole("decoders"))
Taken(l, n) ==
    IF l = "decoders" THEN IF n <= Boundary THEN n ELSE Boundary
                      ELSE IF n <= Boundary THEN 0 ELSE n - Boundary

(* The merge is at copy n: the rest is what source holds, and each list    *)
(* is its share of the first n copies, as far as there is room for it.     *)
CopiedUpTo(n) ==
    /\ Len(source) + n = Len(AllCopies)
    /\ \A i \in 1 .. Len(source) : source[i] = AllCopies[n + i]
    /\ \A l \in Kinds :
          /\ Len(merged[l]) = Kept(Taken(l, n))
          /\ \A i \in 1 .. Kept(Taken(l, n)) : merged[l][i] = Whole(l)[i]

(* Nobody is handed a list before everything is copied.                    *)
Copying ==
    /\ \E n \in Nat : CopiedUpTo(n)
    /\ once = "done" => source = <<>>
    /\ \A t \in Threads : handed[t] # {} => once = "done"

-----------------------------------------------------------------------------
(* The copies.                                                             *)

LEMMA KindsAre == Kinds = {"decoders", "encoders"} /\ "decoders" # "encoders"
    BY DEF Kinds

LEMMA WholeType ==
    ASSUME NEW l \in Kinds
    PROVE  /\ Whole(l) \in Seq(Entries)
           /\ Len(Whole(l)) = Len(Codecs[l].sig) + Len(Codecs[l].kem)
           /\ Len(Whole(l)) \in Nat
<1>1. Codecs[l].sig \in Seq(Entries) /\ Codecs[l].kem \in Seq(Entries)
    BY ProviderAssumption
<1> QED
    BY <1>1, ConcatProperties, LenProperties DEF Whole

LEMMA CopiesItems ==
    ASSUME NEW l \in Kinds, NEW s \in Seq(Entries)
    PROVE  /\ Copies(l, s) \in Seq([list : Kinds, entry : Entries])
           /\ Len(Copies(l, s)) = Len(s)
           /\ \A i \in 1 .. Len(s) : Copies(l, s)[i] = [list |-> l, entry |-> s[i]]
<1>1. Copies(l, s) \in Seq([list : Kinds, entry : Entries])
    BY CopiesType
<1>2. DOMAIN Copies(l, s) = 1 .. Len(s) /\ Len(s) \in Nat
    BY LenProperties DEF Copies
<1>3. Len(Copies(l, s)) = Len(s)
    BY <1>1, <1>2, LenProperties
<1>4. \A i \in 1 .. Len(s) : Copies(l, s)[i] = [list |-> l, entry |-> s[i]]
    BY <1>2 DEF Copies
<1> QED
    BY <1>1, <1>3, <1>4

(* One list: the signature codecs and then the KEM codecs.                 *)
LEMMA ListItems ==
    ASSUME NEW l \in Kinds
    PROVE  LET both == Copies(l, Codecs[l].sig) \o Copies(l, Codecs[l].kem)
           IN  /\ both \in Seq([list : Kinds, entry : Entries])
               /\ Len(both) = Len(Whole(l))
               /\ \A i \in 1 .. Len(Whole(l)) :
                     both[i] = [list |-> l, entry |-> Whole(l)[i]]
<1> DEFINE p == Codecs[l].sig
           q == Codecs[l].kem
           both == Copies(l, p) \o Copies(l, q)
<1>1. p \in Seq(Entries) /\ q \in Seq(Entries)
    BY ProviderAssumption
<1>2. /\ Len(p) \in Nat /\ Len(q) \in Nat
      /\ Len(Whole(l)) = Len(p) + Len(q)
      /\ \A i \in 1 .. Len(p) + Len(q) :
            Whole(l)[i] = IF i <= Len(p) THEN p[i] ELSE q[i - Len(p)]
    BY <1>1, ConcatProperties, LenProperties DEF Whole
<1>3. /\ Copies(l, p) \in Seq([list : Kinds, entry : Entries])
      /\ Len(Copies(l, p)) = Len(p)
      /\ \A i \in 1 .. Len(p) : Copies(l, p)[i] = [list |-> l, entry |-> p[i]]
    BY <1>1, CopiesItems
<1>4. /\ Copies(l, q) \in Seq([list : Kinds, entry : Entries])
      /\ Len(Copies(l, q)) = Len(q)
      /\ \A i \in 1 .. Len(q) : Copies(l, q)[i] = [list |-> l, entry |-> q[i]]
    BY <1>1, CopiesItems
<1> HIDE DEF p, q
<1>5. /\ both \in Seq([list : Kinds, entry : Entries])
      /\ Len(both) = Len(p) + Len(q)
      /\ \A i \in 1 .. Len(p) + Len(q) :
            both[i] = IF i <= Len(p) THEN Copies(l, p)[i] ELSE Copies(l, q)[i - Len(p)]
    <2> DEFINE x == Copies(l, p)
               y == Copies(l, q)
    <2>1. x \in Seq([list : Kinds, entry : Entries]) /\ y \in Seq([list : Kinds, entry : Entries])
        BY <1>3, <1>4
    <2>2. Len(x) = Len(p) /\ Len(y) = Len(q)
        BY <1>3, <1>4
    <2> HIDE DEF x, y
    <2>3. /\ x \o y \in Seq([list : Kinds, entry : Entries])
          /\ Len(x \o y) = Len(x) + Len(y)
          /\ \A i \in 1 .. Len(x) + Len(y) :
                (x \o y)[i] = IF i <= Len(x) THEN x[i] ELSE y[i - Len(x)]
        BY <2>1, ConcatProperties
    <2> QED
        BY <2>2, <2>3 DEF x, y
<1>6. ASSUME NEW i \in 1 .. Len(p) + Len(q)
      PROVE  both[i] = [list |-> l, entry |-> Whole(l)[i]]
    <2>1. CASE i <= Len(p)
        <3>1. i \in 1 .. Len(p)
            BY <1>2, <2>1
        <3> QED
            BY <1>2, <1>3, <1>5, <2>1, <3>1
    <2>2. CASE ~ i <= Len(p)
        <3>1. i - Len(p) \in 1 .. Len(q)
            BY <1>2, <2>2
        <3> QED
            BY <1>2, <1>4, <1>5, <2>2, <3>1
    <2> QED
        BY <2>1, <2>2
<1> QED
    BY <1>2, <1>5, <1>6 DEF p, q

(* All copies: those of the decoders and then those of the encoders.       *)
LEMMA AllCopiesItems ==
    /\ Boundary \in Nat /\ Len(Whole("encoders")) \in Nat
    /\ Len(AllCopies) = Boundary + Len(Whole("encoders"))
    /\ \A i \in 1 .. Boundary :
          AllCopies[i] = [list |-> "decoders", entry |-> Whole("decoders")[i]]
    /\ \A i \in 1 .. Len(Whole("encoders")) :
          AllCopies[Boundary + i] = [list |-> "encoders", entry |-> Whole("encoders")[i]]
<1> DEFINE S == [list : Kinds, entry : Entries]
           D == Copies("decoders", Codecs["decoders"].sig)
                \o Copies("decoders", Codecs["decoders"].kem)
           p == Copies("encoders", Codecs["encoders"].sig)
           q == Copies("encoders", Codecs["encoders"].kem)
<1>1. /\ D \in Seq(S) /\ Len(D) = Boundary /\ Boundary \in Nat
      /\ \A i \in 1 .. Boundary :
            D[i] = [list |-> "decoders", entry |-> Whole("decoders")[i]]
    BY KindsAre, ListItems, WholeType DEF Boundary
<1>2. /\ p \o q \in Seq(S) /\ Len(p \o q) = Len(Whole("encoders"))
      /\ Len(Whole("encoders")) \in Nat
      /\ \A i \in 1 .. Len(Whole("encoders")) :
            (p \o q)[i] = [list |-> "encoders", entry |-> Whole("encoders")[i]]
    BY KindsAre, ListItems, WholeType
<1>3. p \in Seq(S) /\ q \in Seq(S)
    BY KindsAre, ProviderAssumption, CopiesItems
<1>4. AllCopies = (D \o p) \o q
    BY DEF AllCopies
<1> HIDE DEF S, D, p, q
<1>5. (D \o p) \o q = D \o (p \o q)
    BY <1>1, <1>3, ConcatAssociative
<1>6. /\ Len(AllCopies) = Boundary + Len(Whole("encoders"))
      /\ \A i \in 1 .. Boundary + Len(Whole("encoders")) :
            AllCopies[i] = IF i <= Boundary THEN D[i] ELSE (p \o q)[i - Boundary]
    <2> DEFINE y == p \o q
    <2>1. y \in Seq(S) /\ Len(y) = Len(Whole("encoders")) /\ AllCopies = D \o y
        BY <1>2, <1>4, <1>5
    <2> HIDE DEF y
    <2>2. /\ Len(D \o y) = Len(D) + Len(y)
          /\ \A i \in 1 .. Len(D) + Len(y) :
                (D \o y)[i] = IF i <= Len(D) THEN D[i] ELSE y[i - Len(D)]
        BY <1>1, <2>1, ConcatProperties
    <2> QED
        BY <1>1, <2>1, <2>2 DEF y
<1>7. \A i \in 1 .. Boundary :
         AllCopies[i] = [list |-> "decoders", entry |-> Whole("decoders")[i]]
    BY <1>1, <1>2, <1>6
<1>8. ASSUME NEW i \in 1 .. Len(Whole("encoders"))
      PROVE  AllCopies[Boundary + i] = [list |-> "encoders", entry |-> Whole("encoders")[i]]
    <2>1. /\ Boundary + i \in 1 .. Boundary + Len(Whole("encoders"))
          /\ ~ Boundary + i <= Boundary /\ (Boundary + i) - Boundary = i
        BY <1>1, <1>2
    <2> QED
        BY <1>2, <1>6, <2>1
<1> QED
    BY <1>1, <1>2, <1>6, <1>7, <1>8

-----------------------------------------------------------------------------
(* The invariant.                                                          *)

LEMMA InitCopying == Init => Copying
<1> SUFFICES ASSUME Init PROVE Copying
    OBVIOUS
<1>1. source = AllCopies /\ (\A l \in Kinds : merged[l] = <<>>)
      /\ once = "new" /\ \A t \in Threads : handed[t] = {}
    BY DEF Init
<1>2. Len(AllCopies) \in Nat
    BY AllCopiesItems
<1>3. \A l \in Kinds : Taken(l, 0) = 0 /\ Kept(Taken(l, 0)) = 0
    BY AllCopiesItems, ProviderAssumption DEF Taken, Kept
<1>4. CopiedUpTo(0)
    <2>1. Len(source) + 0 = Len(AllCopies) /\ \A i \in 1 .. Len(source) : source[i] = AllCopies[0 + i]
        BY <1>1, <1>2
    <2> QED
        BY <1>1, <1>3, <2>1 DEF CopiedUpTo
<1> QED
    BY <1>1, <1>4 DEF Copying

(* An iteration of merge_algorithm_lists moves the merge on by one copy.   *)
LEMMA MergeCopies ==
    ASSUME IInv, NEW n \in Nat, CopiedUpTo(n), NEW t \in Threads, Merge(t)
    PROVE  CopiedUpTo(n + 1)'
<1> DEFINE c == Head(source)
           B == Boundary
           E == Len(Whole("encoders"))
<1>1. source \in Seq([list : Kinds, entry : Entries]) /\ source # <<>>
    BY DEF Merge, IInv, TypeOK
<1>2. /\ Len(source) \in Nat /\ Len(source) > 0 /\ c = source[1]
      /\ c.list \in Kinds /\ c.entry \in Entries
      /\ Len(source') = Len(source) - 1
      /\ \A i \in 1 .. Len(source') : source'[i] = source[i + 1]
    <2>1. Len(source) \in Nat /\ Len(source) > 0 /\ c = source[1]
        BY <1>1, EmptySeq, LenProperties
    <2>2. c \in [list : Kinds, entry : Entries]
        BY <1>1, HeadTailProperties
    <2>3. /\ Len(Tail(source)) = Len(source) - 1
          /\ \A i \in 1 .. Len(Tail(source)) : Tail(source)[i] = source[i + 1]
        BY <1>1, HeadTailProperties
    <2>4. source' = Tail(source)
        BY DEF Merge
    <2> QED
        BY <2>1, <2>2, <2>3, <2>4
<1>3. /\ Len(source) + n = Len(AllCopies)
      /\ \A i \in 1 .. Len(source) : source[i] = AllCopies[n + i]
    BY DEF CopiedUpTo
<1>4. /\ B \in Nat /\ E \in Nat /\ Len(AllCopies) = B + E
      /\ \A i \in 1 .. B : AllCopies[i] = [list |-> "decoders", entry |-> Whole("decoders")[i]]
      /\ \A i \in 1 .. E : AllCopies[B + i] = [list |-> "encoders", entry |-> Whole("encoders")[i]]
    BY AllCopiesItems
<1> HIDE DEF c, B, E
<1>5. /\ Len(source') + (n + 1) = Len(AllCopies)
      /\ \A i \in 1 .. Len(source') : source'[i] = AllCopies[(n + 1) + i]
    <2>1. Len(source') + (n + 1) = Len(AllCopies)
        BY <1>2, <1>3, <1>4
    <2>2. ASSUME NEW i \in 1 .. Len(source')
          PROVE  source'[i] = AllCopies[(n + 1) + i]
        <3>1. i + 1 \in 1 .. Len(source) /\ n + (i + 1) = (n + 1) + i
            BY <1>2
        <3> QED
            BY <1>2, <1>3, <3>1
    <2> QED
        BY <2>1, <2>2
<1>6. c = AllCopies[n + 1] /\ n < B + E
    BY <1>2, <1>3, <1>4
<1>7. /\ c.entry = Whole(c.list)[Taken(c.list, n) + 1]
      /\ Taken(c.list, n) + 1 <= Len(Whole(c.list))
      /\ \A l \in Kinds : Taken(l, n + 1) = IF l = c.list THEN Taken(l, n) + 1 ELSE Taken(l, n)
      /\ \A l \in Kinds : Taken(l, n) \in Nat
    <2>1. CASE n < B
        <3>1. n + 1 \in 1 .. B
            BY <1>4, <2>1
        <3>2. c.list = "decoders" /\ c.entry = Whole("decoders")[n + 1]
            <4>1. AllCopies[n + 1] = [list |-> "decoders", entry |-> Whole("decoders")[n + 1]]
                BY <1>4, <3>1
            <4> QED
                BY <1>6, <4>1
        <3>3. Taken("decoders", n) = n /\ Taken("decoders", n + 1) = n + 1
            BY <1>4, <2>1, <3>1 DEF Taken, B
        <3>4. Taken("encoders", n) = 0 /\ Taken("encoders", n + 1) = 0
            BY <1>4, <2>1, <3>1 DEF Taken, B
        <3> QED
            BY <3>1, <3>2, <3>3, <3>4, KindsAre DEF Boundary, B
    <2>2. CASE ~ n < B
        <3>1. (n + 1) - B \in 1 .. E /\ n + 1 = B + ((n + 1) - B)
            BY <1>4, <1>6, <2>2
        <3>2. c.list = "encoders" /\ c.entry = Whole("encoders")[(n + 1) - B]
            <4>1. AllCopies[n + 1] = [list |-> "encoders", entry |-> Whole("encoders")[(n + 1) - B]]
                <5>1. AllCopies[B + ((n + 1) - B)]
                        = [list |-> "encoders", entry |-> Whole("encoders")[(n + 1) - B]]
                    BY <1>4, <3>1
                <5>2. n + 1 = B + ((n + 1) - B)
                    BY <3>1
                <5> QED
                    BY <5>1, <5>2
            <4> QED
                BY <1>6, <4>1
        <3>3. Taken("encoders", n) = n - B /\ Taken("encoders", n + 1) = (n + 1) - B
            BY <1>4, <2>2 DEF Taken, B
        <3>4. Taken("decoders", n) = B /\ Taken("decoders", n + 1) = B
            BY <1>4, <2>2 DEF Taken, B
        <3> QED
            BY <1>4, <2>2, <3>1, <3>2, <3>3, <3>4, KindsAre DEF E
    <2> QED
        BY <2>1, <2>2
<1>8. /\ merged[c.list] \in Seq(Entries)
      /\ Len(merged[c.list]) = Kept(Taken(c.list, n))
      /\ \A i \in 1 .. Kept(Taken(c.list, n)) : merged[c.list][i] = Whole(c.list)[i]
    BY <1>2 DEF CopiedUpTo, IInv, TypeOK
<1>9. /\ HasRoom(Len(merged[c.list])) => /\ Kept(Taken(c.list, n)) = Taken(c.list, n)
                                         /\ Kept(Taken(c.list, n) + 1) = Taken(c.list, n) + 1
      /\ ~ HasRoom(Len(merged[c.list])) =>
            Kept(Taken(c.list, n) + 1) = Kept(Taken(c.list, n))
    <2>1. Capacity \in Nat \ {0} /\ Taken(c.list, n) \in Nat
        BY <1>2, <1>7, ProviderAssumption
    <2> QED
        BY <1>8, <2>1 DEF HasRoom, Kept
<1>10. /\ HasRoom(Len(merged[c.list])) =>
             merged'[c.list] = Append(merged[c.list], c.entry)
       /\ ~ HasRoom(Len(merged[c.list])) => merged'[c.list] = merged[c.list]
       /\ \A l \in Kinds : l # c.list => merged'[l] = merged[l]
    BY <1>2 DEF Merge, c, IInv, TypeOK
<1>11. /\ Len(merged'[c.list]) = Kept(Taken(c.list, n) + 1)
       /\ \A i \in 1 .. Kept(Taken(c.list, n) + 1) : merged'[c.list][i] = Whole(c.list)[i]
    <2>1. CASE HasRoom(Len(merged[c.list]))
        <3>1. /\ Len(Append(merged[c.list], c.entry)) = Taken(c.list, n) + 1
              /\ \A i \in 1 .. Taken(c.list, n) :
                    Append(merged[c.list], c.entry)[i] = merged[c.list][i]
              /\ Append(merged[c.list], c.entry)[Taken(c.list, n) + 1] = c.entry
            BY <1>2, <1>8, <1>9, <2>1, AppendProperties
        <3>2. \A i \in 1 .. Taken(c.list, n) : merged[c.list][i] = Whole(c.list)[i]
            BY <1>8, <1>9, <2>1
        <3>3. PICK k \in Nat : k = Taken(c.list, n)
            BY <1>2, <1>7
        <3>4. \A i \in 1 .. k + 1 : Append(merged[c.list], c.entry)[i] = Whole(c.list)[i]
            BY <1>7, <3>1, <3>2, <3>3
        <3> QED
            BY <1>9, <1>10, <2>1, <3>1, <3>3, <3>4
    <2>2. CASE ~ HasRoom(Len(merged[c.list]))
        BY <1>8, <1>9, <1>10, <2>2
    <2> QED
        BY <2>1, <2>2
<1>12. ASSUME NEW l \in Kinds
       PROVE  /\ Len(merged'[l]) = Kept(Taken(l, n + 1))
              /\ \A i \in 1 .. Kept(Taken(l, n + 1)) : merged'[l][i] = Whole(l)[i]
    <2>1. CASE l = c.list
        BY <1>7, <1>11, <2>1
    <2>2. CASE l # c.list
        <3>1. merged'[l] = merged[l] /\ Taken(l, n + 1) = Taken(l, n)
            BY <1>7, <1>10, <2>2
        <3> QED
            BY <3>1 DEF CopiedUpTo
    <2> QED
        BY <2>1, <2>2
<1> QED
    BY <1>5, <1>12 DEF CopiedUpTo

LEMMA NextCopying == IInv /\ Copying /\ [Next]_vars => Copying'
<1> SUFFICES ASSUME IInv, Copying, [Next]_vars PROVE Copying'
    OBVIOUS
<1>1. PICK n \in Nat : CopiedUpTo(n)
    BY DEF Copying
<1>2. ASSUME UNCHANGED <<merged, source, once>>, \A t \in Threads : handed'[t] # {} => once = "done"
      PROVE  Copying'
    <2>1. CopiedUpTo(n)'
        BY <1>1, <1>2 DEF CopiedUpTo
    <2> QED
        BY <1>2, <2>1 DEF Copying
<1>3. ASSUME UNCHANGED lists
      PROVE  Copying'
    BY <1>2, <1>3 DEF lists, Copying
<1>4. ASSUME NEW t \in Threads, Teardown(t)
      PROVE  Copying'
    <2>1. UNCHANGED <<merged, source, once>> /\ handed' = [handed EXCEPT ![t] = {}]
        BY <1>4 DEF Teardown
    <2>2. \A s \in Threads : handed'[s] # {} => handed[s] # {}
        BY <2>1 DEF IInv, TypeOK
    <2> QED
        BY <1>2, <2>1, <2>2 DEF Copying
<1>5. ASSUME NEW t \in Threads, NEW l \in Kinds, Query(t, l)
      PROVE  Copying'
    <2>1. UNCHANGED <<merged, source>>
        BY <1>5 DEF Query
    <2>2. CASE once = "done" /\ once' = once
        BY <1>2, <2>1, <2>2
    <2>3. CASE once = "new" /\ once' = "running" /\ handed' = handed
        <3>1. CopiedUpTo(n)'
            BY <1>1, <2>1 DEF CopiedUpTo
        <3> QED
            BY <2>3, <3>1 DEF Copying
    <2>4. CASE UNCHANGED <<once, handed>>
        BY <1>2, <2>1, <2>4 DEF Copying
    <2> QED
        BY <1>5, <2>2, <2>3, <2>4 DEF Query
<1>6. ASSUME NEW t \in Threads, Merge(t)
      PROVE  Copying'
    <2>1. CopiedUpTo(n + 1)'
        BY <1>1, <1>6, MergeCopies
    <2>2. once = "running" /\ once' = once /\ handed' = handed
        BY <1>6 DEF Merge, IInv, TypeOK
    <2> QED
        BY <2>1, <2>2 DEF Copying
<1>7. ASSUME NEW t \in Threads, MergeDone(t)
      PROVE  Copying'
    <2>1. source = <<>> /\ once' = "done" /\ UNCHANGED <<merged, source>>
        BY <1>7 DEF MergeDone
    <2>2. CopiedUpTo(n)'
        BY <1>1, <2>1 DEF CopiedUpTo
    <2> QED
        BY <2>1, <2>2 DEF Copying
<1>8. CASE UNCHANGED vars
    BY <1>3, <1>8 DEF vars, lists
<1>9. ASSUME NEW t \in Threads,
             \/ Load(t) \/ RegisterSig(t) \/ AddSigid(t) \/ LookUpKem(t)
             \/ CreateKem(t) \/ MakeContext(t)
      PROVE  Copying'
    BY <1>3, <1>9 DEF Load, RegisterSig, AddSigid, LookUpKem, CreateKem, MakeContext
<1> QED
    BY <1>4, <1>5, <1>6, <1>7, <1>8, <1>9 DEF Next

LEMMA StepCopying == IInv /\ Copying /\ [Next]_vars => (IInv /\ Copying)'
    BY NextIInv, NextCopying

(* What the merges hold while they run, in every reachable state.          *)
THEOREM CopyingInvariance == Spec => [](IInv /\ Copying)
<1>1. Init => IInv /\ Copying
    BY InitIInv, InitCopying
<1> QED
    BY <1>1, StepCopying, PTL DEF Spec

(* A list that a query has returned holds every codec, in order, up to the *)
(* place that the terminator takes, however many threads ask for it while  *)
(* composite_all_decoders or composite_all_encoders runs for the first     *)
(* time.                                                                   *)
THEOREM HandedOutWhole == Spec => []HandedWhole
<1>1. IInv /\ Copying => HandedWhole
    <2> DEFINE length(l) == IF Len(Whole(l)) < Capacity THEN Len(Whole(l))
                                                        ELSE Capacity - 1
    <2>1. SUFFICES ASSUME IInv, Copying, NEW t \in Threads, NEW l \in Kinds,
                          l \in handed[t]
                   PROVE  merged[l] = SubSeq(Whole(l), 1, length(l))
        BY DEF HandedWhole, Whole, IInv, TypeOK
    <2>2. source = <<>>
        BY <2>1 DEF Copying
    <2>3. PICK n \in Nat : CopiedUpTo(n)
        BY <2>1 DEF Copying
    <2>4. n = Boundary + Len(Whole("encoders"))
        BY <2>2, <2>3, AllCopiesItems DEF CopiedUpTo
    <2>5. Taken(l, n) = Len(Whole(l))
        BY <2>4, AllCopiesItems, KindsAre DEF Taken, Boundary
    <2>6. /\ merged[l] \in Seq(Entries) /\ Whole(l) \in Seq(Entries)
          /\ Len(merged[l]) = length(l)
          /\ \A i \in 1 .. length(l) : merged[l][i] = Whole(l)[i]
        BY <2>1, <2>3, <2>5, WholeType DEF CopiedUpTo, Kept, IInv, TypeOK
    <2>7. length(l) \in Nat /\ length(l) <= Len(Whole(l)) /\ Len(Whole(l)) \in Nat
        BY <2>6, WholeType, ProviderAssumption
    <2> HIDE DEF length
    <2>8. /\ SubSeq(Whole(l), 1, length(l)) \in Seq(Entries)
          /\ Len(SubSeq(Whole(l), 1, length(l))) = length(l)
          /\ \A i \in 1 .. length(l) : SubSeq(Whole(l), 1, length(l))[i] = Whole(l)[i]
        BY <2>6, <2>7, SubSeqProperties
    <2> QED
        BY <2>6, <2>8, SeqEqual
<1> QED
    BY <1>1, CopyingInvariance, PTL

=============================================================================
