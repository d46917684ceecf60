-------------------------- MODULE MCStoreConnRaces --------------------------
(***************************************************************************)
(* Instances of StoreConnRaces for TLC.                                    *)
(***************************************************************************)
EXTENDS StoreConnRaces, TLC

\* Hashes and writers are interchangeable.
WriterSymmetry == Permutations(Hashes) \cup Permutations(Writers)

GrowingOps == {"create", "add"}
AllFaults == FaultKinds \X (Labels \cup FirstCalls)
=============================================================================
