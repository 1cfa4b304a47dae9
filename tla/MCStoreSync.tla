----------------------------- MODULE MCStoreSync -----------------------------
(***************************************************************************)
(* A store whose profile is saved a few times, for TLC.  Calls are         *)
(* interchangeable as long as their warehouses get the same kind of id.    *)
(***************************************************************************)
EXTENDS StoreSync, TLC

Symmetry == Permutations(Integral)
=============================================================================
