------------------------- MODULE SignatureKeyStore -------------------------
(***************************************************************************)
(* What signature keys promise, on top of CompositeKeyStore: no component  *)
(* objects, no slots, no flags, and every call in one step.                *)
(*                                                                         *)
(* A signature key may hold one half of a composite, and two halves that   *)
(* arrived together from elsewhere without belonging together; those are   *)
(* the only halves it ever combines.  A key can be duplicated, in part or  *)
(* as a whole.                                                             *)
(***************************************************************************)
EXTENDS CompositeKeyStore

CONSTANT Offered    \* "pub" and "priv" parameters that exist elsewhere

\* Generation draws a composite that nobody has; a caller that generates into a
\* key of its own may be left with the public half only.
StoreDraw(k) ==
    /\ store[k] = Nothing
    /\ \E c \in Composites \ minted : \E priv \in {c, None} :
          /\ store' = [store EXCEPT ![k] = [pub |-> c, priv |-> priv]]
          /\ minted' = minted \union {c}
    /\ UNCHANGED wire

\* Any part of what is offered, or a private composite that stands for both.
Readings(p) ==
    [pub : {p.pub, None}, priv : {p.priv, None}] \union {[pub |-> p.priv, priv |-> p.priv]}

StoreRead(k) ==
    /\ store[k] = Nothing
    /\ \E p \in Offered \union {wire} : \E halves \in Readings(p) :
          store' = [store EXCEPT ![k] = halves]
    /\ UNCHANGED <<wire, minted>>

StoreDuplicate(j, k) ==
    /\ store[j] # Absent /\ store[k] = Absent
    /\ \E pub \in {store[j].pub, None}, priv \in {store[j].priv, None} :
          store' = [store EXCEPT ![k] = [pub |-> pub, priv |-> priv]]
    /\ UNCHANGED <<wire, minted>>

\* One half at a time, and never one that the key does not hold.
StoreHandOut(k) == StoreExport(k) /\ (wire'.pub = None \/ wire'.priv = None)

SignatureStoreNext ==
    \E k \in Keys : \/ StoreNew(k)
                    \/ StoreDraw(k)
                    \/ StoreRead(k)
                    \/ StoreHandOut(k)
                    \/ StoreFree(k)
                    \/ \E j \in Keys : StoreDuplicate(j, k)

SignatureStoreSpec == StoreInit /\ [][SignatureStoreNext]_storeVars

=============================================================================
