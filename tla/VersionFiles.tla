---------------------------- MODULE VersionFiles ----------------------------
(***************************************************************************)
(* File sets of one document.  A file is a <<name, hash>> pair: the bytes  *)
(* of a file, and with them its size, are identified by the content hash.  *)
(* The file map of a version (VersionInfo.Files, HashedVersion.FileHashes) *)
(* is a set of files that is functional in the name.                       *)
(***************************************************************************)
EXTENDS Naturals

CONSTANTS Names,   \* file names of the document
          Hashes   \* content hashes

\* PrevVersion is nil, or NULL in the table: a first (genesis) version.
NoVersion == 0

File == Names \X Hashes

NamesOf(files) == {f[1] : f \in files}

HashesOf(files) == {f[2] : f \in files}

\* One entry per name: what a Go map from filename to FileInfo can hold.
IsFileMap(files) == \A f, g \in files : f[1] = g[1] => f = g

FileMaps == {files \in SUBSET File : IsFileMap(files)}

\* Every file whose content has one of the hashes, whatever its name.
FilesWithHash(hashes) == {f \in File : f[2] \in hashes}

----------------------------------------------------------------------------
(* The full file set of a new version: the previous version's files minus  *)
(* the removed names, overlaid with the written files.                     *)

CarryForward(prev, removed, written) ==
    {f \in prev : f[1] \notin removed \cup NamesOf(written)} \cup written

(* The change lists of a version with the files "new" relative to a        *)
(* version with the files "old", as the restore path computes them.        *)
AddedNames(old, new) == NamesOf(new) \ NamesOf(old)

RemovedNames(old, new) == NamesOf(old) \ NamesOf(new)

ModifiedNames(old, new) == NamesOf(new \ old) \cap NamesOf(old)
=============================================================================
