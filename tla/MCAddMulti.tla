----------------------------- MODULE MCAddMulti -----------------------------
(***************************************************************************)
(* Instances of AddMulti for TLC.                                          *)
(***************************************************************************)
EXTENDS AddMulti

CONSTANTS d1, d2

\* Both orders, a document alone, twice, and none.
AllLists == {<<d1, d2>>, <<d2, d1>>, <<d1, d1>>, <<d2>>, <<>>}
AllFaults == FaultKinds
=============================================================================
