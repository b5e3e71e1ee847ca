---------------------------- MODULE ProviderLoad ----------------------------
(***************************************************************************)
(* Loading the provider: OSSL_provider_init, the OID registrations and the *)
(* merged codec lists (common/provider.c, composite_register_oids,         *)
(* composite_kem_register_oids).                                           *)
(*                                                                         *)
(* Every library context that loads the provider runs the entry point, on  *)
(* whatever thread that happens; the OBJ database, the merged lists and    *)
(* the once flag that guards them belong to the process.  libcrypto locks  *)
(* the database inside each of its calls, not between two of them.         *)
(***************************************************************************)
EXTENDS Naturals, Sequences

CONSTANTS
    Threads,    \* each loads an instance of its own
    SigAlgs,    \* composite signature algorithms, in the order of registration
    KemAlgs,    \* composite KEM algorithms, likewise
    Known,      \* OIDs that may be known before the provider is ever loaded
    Foreign,    \* OIDs that may be known by then under another name
    Codecs,     \* for "decoders" and "encoders", the signature and KEM list
    Capacity    \* COMPOSITE_MAX_CODEC_ALGS

Elements(s) == {s[i] : i \in DOMAIN s}

Sig == Elements(SigAlgs)
Kem == Elements(KemAlgs)
Kinds == {"decoders", "encoders"}
Entries == UNION {Elements(Codecs[l].sig) \union Elements(Codecs[l].kem) : l \in Kinds}

ASSUME ProviderAssumption ==
    /\ SigAlgs \in Seq(Sig) /\ KemAlgs \in Seq(Kem)
    /\ Sig \intersect Kem = {}
    /\ Known \union Foreign \subseteq Sig \union Kem
    /\ \A l \in Kinds : Codecs[l].sig \in Seq(Entries) /\ Codecs[l].kem \in Seq(Entries)
    /\ Capacity \in Nat \ {0}

VARIABLES
    oids,    \* composite OIDs in the OBJ database
    names,   \* those found by the name that the provider gives them
    sigids,  \* those declared as signature algorithms
    todo,    \* algorithms each thread still has to register
    pc,      \* where each thread is
    once,    \* codec_merge_once
    merged,  \* the merged lists, as far as they are filled
    source,  \* what codec_merge_do still has to copy
    handed,  \* lists that a query returned to each thread
    faults   \* whether an allocation failed

vars == <<oids, names, sigids, todo, pc, once, merged, source, handed, faults>>
registry == <<oids, names, sigids>>
lists == <<once, merged, source, handed>>

\* One copy per entry; the two calls for the decoders come first.
Copies(l, s) == [i \in DOMAIN s |-> [list |-> l, entry |-> s[i]]]
AllCopies ==
    Copies("decoders", Codecs["decoders"].sig) \o Copies("decoders", Codecs["decoders"].kem)
    \o Copies("encoders", Codecs["encoders"].sig) \o Copies("encoders", Codecs["encoders"].kem)

TypeOK ==
    /\ oids \subseteq Sig \union Kem /\ sigids \subseteq Sig
    /\ sigids \subseteq oids /\ names \subseteq oids
    /\ todo \in [Threads -> Seq(Sig \union Kem)]
    /\ pc \in [Threads -> {"idle", "register", "sigid", "create", "loaded", "merge"}]
    /\ once \in {"new", "running", "done"}
    /\ merged \in [Kinds -> Seq(Entries)]
    /\ source \in Seq([list : Kinds, entry : Entries])
    /\ handed \in [Threads -> SUBSET Kinds]
    /\ faults \in BOOLEAN
    \* codec_merge_do runs on the one thread that found the flag unset
    /\ once = "running" <=> \E t \in Threads : pc[t] = "merge"
    /\ \A s, t \in Threads : pc[s] = "merge" /\ pc[t] = "merge" => s = t

\* An oid_section in openssl.cnf or an application may have registered OIDs,
\* under names of its own.
Init ==
    /\ oids \in SUBSET (Known \union Foreign) /\ names = oids \ Foreign /\ sigids = {}
    /\ todo = [t \in Threads |-> <<>>]
    /\ pc = [t \in Threads |-> "idle"]
    /\ once = "new"
    /\ merged = [l \in Kinds |-> <<>>]
    /\ source = AllCopies
    /\ handed = [t \in Threads |-> {}]
    /\ faults = FALSE

-----------------------------------------------------------------------------
(* OSSL_provider_init.                                                     *)

Goto(t, label) == pc' = [pc EXCEPT ![t] = label]
NextAlg(t) == /\ todo' = [todo EXCEPT ![t] = Tail(@)]
              /\ Goto(t, "register")

\* Variant: nothing to do when the first OID is already known.
LoadUnlessKnown(t) ==
    /\ pc[t] = "idle"
    /\ todo' = [todo EXCEPT ![t] = IF SigAlgs[1] \in oids THEN <<>>
                                   ELSE SigAlgs \o KemAlgs]
    /\ Goto(t, "register")
    /\ UNCHANGED <<registry, lists, faults>>

Load(t) ==
    /\ pc[t] = "idle"
    /\ todo' = [todo EXCEPT ![t] = SigAlgs \o KemAlgs]
    /\ Goto(t, "register")
    /\ UNCHANGED <<registry, lists, faults>>

\* OBJ_create adds an OID that is not there yet under any name, with its name;
\* it may run out of memory.
Create(a, fails) ==
    /\ oids' = IF fails THEN oids ELSE oids \union {a}
    /\ names' = IF fails \/ a \in oids THEN names ELSE names \union {a}
    /\ faults' = (faults \/ fails)
    /\ UNCHANGED sigids

\* Variant: the OID is created and nobody declares it.
RegisterSigOnly(t) ==
    /\ pc[t] = "register" /\ todo[t] # <<>> /\ Head(todo[t]) \in Sig
    /\ \E fails \in BOOLEAN :
          /\ fails => Head(todo[t]) \notin oids
          /\ Create(Head(todo[t]), fails)
    /\ NextAlg(t)
    /\ UNCHANGED lists

\* composite_register_oids: whoever created the OID also declares it.
RegisterSig(t) ==
    LET a == Head(todo[t])
    IN
    /\ pc[t] = "register" /\ todo[t] # <<>> /\ a \in Sig
    /\ \E fails \in BOOLEAN :
          /\ fails => a \notin oids
          /\ Create(a, fails)
          /\ IF a \in oids \/ fails THEN NextAlg(t)
                                    ELSE Goto(t, "sigid") /\ UNCHANGED todo
    /\ UNCHANGED lists

\* OBJ_add_sigid
AddSigid(t) ==
    /\ pc[t] = "sigid"
    /\ \E fails \in BOOLEAN :
          /\ sigids' = IF fails THEN sigids ELSE sigids \union {Head(todo[t])}
          /\ faults' = (faults \/ fails)
    /\ NextAlg(t)
    /\ UNCHANGED <<oids, names, lists>>

\* composite_kem_register_oids looks first and creates then.
LookUpKem(t) ==
    /\ pc[t] = "register" /\ todo[t] # <<>> /\ Head(todo[t]) \in Kem
    /\ IF Head(todo[t]) \in oids THEN NextAlg(t)
                                 ELSE Goto(t, "create") /\ UNCHANGED todo
    /\ UNCHANGED <<registry, lists, faults>>

CreateKem(t) ==
    /\ pc[t] = "create"
    /\ \E fails \in BOOLEAN : Create(Head(todo[t]), fails)
    /\ NextAlg(t)
    /\ UNCHANGED lists

\* The provider context and its library context are allocated last.
MakeContext(t) ==
    /\ pc[t] = "register" /\ todo[t] = <<>>
    /\ \E ok \in BOOLEAN : /\ Goto(t, IF ok THEN "loaded" ELSE "idle")
                           /\ faults' = (faults \/ ~ ok)
    /\ UNCHANGED <<registry, todo, lists>>

\* composite_teardown: what belongs to the process stays.
Teardown(t) ==
    /\ pc[t] = "loaded"
    /\ Goto(t, "idle")
    /\ handed' = [handed EXCEPT ![t] = {}]
    /\ UNCHANGED <<registry, todo, once, merged, source, faults>>

-----------------------------------------------------------------------------
(* composite_query_operation for the codecs.                               *)

\* Variant: a flag that is set before the merge instead of a once.
QueryUnguarded(t, l) ==
    /\ pc[t] = "loaded"
    /\ IF once # "new"
       THEN /\ handed' = [handed EXCEPT ![t] = @ \union {l}]
            /\ UNCHANGED <<pc, once>>
       ELSE /\ once' = "running" /\ Goto(t, "merge")
            /\ UNCHANGED handed
    /\ UNCHANGED <<registry, todo, merged, source, faults>>

\* composite_all_decoders and composite_all_encoders: CRYPTO_THREAD_run_once
\* runs codec_merge_do on the first thread and holds the others until it is
\* done; the first thread asks again when it comes back.  Where it fails, there
\* is no list for the caller.
Query(t, l) ==
    /\ pc[t] = "loaded"
    /\ \/ /\ once = "done"
          /\ handed' = [handed EXCEPT ![t] = @ \union {l}]
          /\ UNCHANGED <<pc, once>>
       \/ /\ once = "new"
          /\ once' = "running" /\ Goto(t, "merge")
          /\ UNCHANGED handed
       \/ UNCHANGED <<pc, once, handed>>
    /\ UNCHANGED <<registry, todo, merged, source, faults>>

\* Variant: no place is kept for the terminator.
HasRoomUnterminated(used) == used < Capacity

\* One place is kept for the terminator.
HasRoom(used) == used + 1 < Capacity

\* An iteration of merge_algorithm_lists; entries that do not fit are dropped.
Merge(t) ==
    /\ pc[t] = "merge" /\ source # <<>>
    /\ LET c == Head(source) IN
       merged' = IF HasRoom(Len(merged[c.list]))
                 THEN [merged EXCEPT ![c.list] = Append(@, c.entry)] ELSE merged
    /\ source' = Tail(source)
    /\ UNCHANGED <<registry, todo, pc, once, handed, faults>>

\* Variant: the flag is not set when the merge is done.
MergeDoneForgotten(t) ==
    /\ pc[t] = "merge" /\ source = <<>>
    /\ Goto(t, "loaded")
    /\ UNCHANGED <<registry, todo, once, merged, source, handed, faults>>

MergeDone(t) ==
    /\ pc[t] = "merge" /\ source = <<>>
    /\ once' = "done" /\ Goto(t, "loaded")
    /\ UNCHANGED <<registry, todo, merged, source, handed, faults>>

Next ==
    \E t \in Threads :
        \/ Load(t) \/ RegisterSig(t) \/ AddSigid(t) \/ LookUpKem(t) \/ CreateKem(t)
        \/ MakeContext(t) \/ Teardown(t)
        \/ \E l \in Kinds : Query(t, l)
        \/ Merge(t) \/ MergeDone(t)

Spec == Init /\ [][Next]_vars

-----------------------------------------------------------------------------
(* Correctness.                                                            *)

\* No codec of a loaded instance ever meets a composite name without an OID,
\* although several threads register at once, unless somebody gave that OID
\* another name before (provider.c:166-169: both registrations "must run before
\* any codec does OBJ_sn2nid() on a composite name").
RegisteredWhenLoaded ==
    \A t \in Threads :
        pc[t] \in {"loaded", "merge"} /\ ~ faults =>
            /\ Sig \union Kem \subseteq oids
            /\ (Sig \union Kem) \ Foreign \subseteq names

\* Without a failing allocation, a signature OID that the provider has brought
\* into the database is declared, or the thread that created it is just about to
\* declare it: the declaration is never lost, whichever threads find the OID in
\* between and go on (composite_encoder.c:38-43).
DeclaredByCreator ==
    ~ faults =>
        \A a \in (Sig \ Known) \intersect names :
            a \in sigids \/ \E t \in Threads : pc[t] = "sigid" /\ Head(todo[t]) = a

\* A list that a query has returned is both sources, in order, and if that does
\* not fit the array with its terminator it is cut at the end and nowhere else:
\* nobody ever sees it half merged, whoever loads, queries or unloads at the
\* same time (provider.c:10-21, 28-63).
HandedWhole ==
    \A t \in Threads : \A l \in handed[t] :
        LET whole == Codecs[l].sig \o Codecs[l].kem
        IN  merged[l] = SubSeq(whole, 1, IF Len(whole) < Capacity THEN Len(whole)
                                                                 ELSE Capacity - 1)

\* However many algorithms there are, the array keeps a terminator
\* (provider.c:18-20: the merge "stops early (leaving the list terminated)
\* rather than overrun").
Terminated == \A l \in Kinds : Len(merged[l]) < Capacity

=============================================================================
