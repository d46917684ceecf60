--------------------------- MODULE HashedDocument ---------------------------
(***************************************************************************)
(* Backups (hasheddocument.go): a HashedDocument has a company and, per    *)
(* version, a file map.  Its contents are the hashes themselves here, so   *)
(* that no hash can be missing.                                            *)
(***************************************************************************)
EXTENDS VersionFiles, FiniteSetsExt

\* HashedDocument.VersionTimes, which the code walks in ascending order.
VersionsOf(backup) == DOMAIN backup.files

\* The version of the backup before v.
Predecessor(backup, v) ==
    LET older == {u \in VersionsOf(backup) : u < v}
    IN IF older = {} THEN NoVersion ELSE Max(older)

FilesBefore(backup, v) ==
    IF Predecessor(backup, v) = NoVersion
    THEN {} ELSE backup.files[Predecessor(backup, v)]

\* HashedDocument.Validate: versions with files, and no change-less version.
IsValid(backup) ==
    /\ VersionsOf(backup) # {}
    /\ \A v \in VersionsOf(backup) :
        backup.files[v] # {} /\ backup.files[v] # FilesBefore(backup, v)

\* Every backup of the company c with versions among vs.
BackupsOf(c, vs) ==
    LET fileMaps == UNION {[us -> FileMaps \ {{}}] : us \in SUBSET vs}
        backups == {[company |-> c, files |-> files] : files \in fileMaps}
    IN {backup \in backups : IsValid(backup)}

----------------------------------------------------------------------------
(* What a restore promises, as views: sets of [version, company, prev,     *)
(* files] that a caller can read.                                          *)

\* The versions of a backup as they are to look like.
Restored(backup) ==
    {[version |-> v, company |-> backup.company, prev |-> Predecessor(backup, v),
      files |-> backup.files[v]] : v \in VersionsOf(backup)}

\* A document with the versions of the backup added that it does not have.
Merged(view, backup) ==
    view \cup {new \in Restored(backup) : \A d \in view : d.version # new.version}
=============================================================================
