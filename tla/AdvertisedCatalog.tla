-------------------------- MODULE AdvertisedCatalog --------------------------
(***************************************************************************)
(* What the publisher promises about its catalog, whatever the locking:    *)
(* there is a catalog it wants to advertise, which changes at any time,    *)
(* and subscribers see a catalog that was wanted at some earlier time and  *)
(* that catches up whenever the wanted one stops changing.                 *)
(***************************************************************************)
CONSTANT Catalogs \* the catalogs that can be advertised

VARIABLES
    wanted, \* the known tracks that pass the current filter
    seen    \* the catalog subscribers see

vars == <<wanted, seen>>

Init == wanted \in Catalogs /\ seen = wanted

Change ==
    /\ wanted' \in Catalogs
    /\ UNCHANGED seen

Publish ==
    /\ seen' = wanted
    /\ UNCHANGED wanted

Next == Change \/ Publish

Spec == Init /\ [][Next]_vars /\ WF_vars(Publish)
=============================================================================
