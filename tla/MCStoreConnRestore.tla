------------------------- MODULE MCStoreConnRestore -------------------------
(***************************************************************************)
(* Instances of StoreConnRestore for TLC.                                  *)
(***************************************************************************)
EXTENDS StoreConnRestore, TLC

CONSTANTS c1

\* There is one company: nothing to set.
VersionOps == OpKinds \ {"setCompany"}

\* Everything goes wrong.
AnyFault == FaultKinds \X (Labels \cup FirstCalls)
AnyRestoreFault == RestoreFaultKinds

\* The backups that keep every version.
FullBackups ==
    {backup \in BackupsOf(c1, Versions) : VersionsOf(backup) = Versions}

\* Writers and hashes are interchangeable.
RaceSymmetry == Permutations(Writers) \cup Permutations(Hashes)
=============================================================================
