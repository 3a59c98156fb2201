---------------------------- MODULE MCCatalogStore ----------------------------
(* Instances of CatalogStore for TLC. *)
EXTENDS CatalogStore, TLC

CONSTANTS s1, s2, k1, k2

(* The driver's store alone, and with the desktop's beside it. *)
DriverKeys == (s1 :> {k1, k2})
OwnKeys == (s1 :> {k1} @@ s2 :> {k2})
==============================================================================
