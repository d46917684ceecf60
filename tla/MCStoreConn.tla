---------------------------- MODULE MCStoreConn ----------------------------
(***************************************************************************)
(* Instances of StoreConn for TLC.                                         *)
(***************************************************************************)
EXTENDS StoreConn, TLC

\* Names and hashes are interchangeable.
FileSymmetry == Permutations(Names) \cup Permutations(Hashes)

AllOps == OpKinds

\* Every fault but those that are known to lose content.
SurvivableFaults == (FaultKinds \X (Labels \cup FirstCalls)) \ ContentLosingFaults
=============================================================================
