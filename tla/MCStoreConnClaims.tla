------------------------- MODULE MCStoreConnClaims -------------------------
(***************************************************************************)
(* Instances of StoreConnClaims for TLC.                                   *)
(***************************************************************************)
EXTENDS StoreConnClaims

GrowingOps == {"create", "add"}

NoFaults == {}
PutFaults == {<<"fails", "add_put">>}
=============================================================================
