------------------------- MODULE CompositeKeyStore -------------------------
(***************************************************************************)
(* What a composite key store promises, with no component objects, no      *)
(* reference counts and no intermediate states.                            *)
(*                                                                         *)
(* A composite is one ML-KEM key pair together with one traditional key    *)
(* pair.  A handle holds a whole composite or none: the pairing of the two *)
(* halves is decided once, by one key generation or by one serialization   *)
(* that arrived from elsewhere, and no operation ever re-pairs them.       *)
(***************************************************************************)

CONSTANTS
    Keys,       \* handles a caller may hold
    Composites, \* every possible pairing of an ML-KEM and a traditional key
    Imported,   \* composites that exist outside this store from the start
    None,       \* no composite
    Absent      \* what a handle that was not allocated holds

VARIABLES
    store,      \* what each handle holds
    wire,       \* the parameters most recently exported
    minted      \* composites generated here so far

storeVars == <<store, wire, minted>>

Holding == [pub : Composites \union {None}, priv : Composites \union {None}]
Nothing == [pub |-> None, priv |-> None]

\* Composites somebody legitimately put together.
Legit == minted \union Imported

StoreInit ==
    /\ store = [k \in Keys |-> Absent]
    /\ wire = Nothing
    /\ minted = {}

StoreNew(k) ==
    /\ store[k] = Absent
    /\ store' = [store EXCEPT ![k] = Nothing]
    /\ UNCHANGED <<wire, minted>>

StoreGenerate(k) ==
    /\ store[k] # Absent
    /\ \E c \in Composites :
          /\ store' = [store EXCEPT ![k] = [pub |-> c, priv |-> c]]
          /\ minted' = minted \union {c}
    /\ UNCHANGED wire

\* A private composite determines its public half; a public one carries no
\* private half.
StoreImport(k) ==
    /\ store[k] # Absent
    /\ \E c \in Legit : \E priv \in {c, None} :
          store' = [store EXCEPT ![k] = [pub |-> c, priv |-> priv]]
    /\ UNCHANGED <<wire, minted>>

\* Any part of what the handle holds may be asked for, the empty part excepted.
StoreExport(k) ==
    /\ store[k] # Absent
    /\ \E pub \in {store[k].pub, None}, priv \in {store[k].priv, None} :
          /\ ~ (pub = None /\ priv = None)
          /\ wire' = [pub |-> pub, priv |-> priv]
    /\ UNCHANGED <<store, minted>>

StoreFree(k) ==
    /\ store[k] # Absent
    /\ store' = [store EXCEPT ![k] = Absent]
    /\ UNCHANGED <<wire, minted>>

StoreNext ==
    \E k \in Keys : \/ StoreNew(k)
                    \/ StoreGenerate(k)
                    \/ StoreImport(k)
                    \/ StoreExport(k)
                    \/ StoreFree(k)

StoreSpec == StoreInit /\ [][StoreNext]_storeVars

=============================================================================
