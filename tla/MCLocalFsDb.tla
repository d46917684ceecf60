---------------------------- MODULE MCLocalFsDb ----------------------------
(***************************************************************************)
(* Instances of LocalFsDbAtomic for TLC.                                   *)
(***************************************************************************)
EXTENDS LocalFsDbAtomic, TLC

CONSTANTS c1, c2

\* Writers and hashes are interchangeable, and so are names.
WriterSymmetry == Permutations(Writers) \cup Permutations(Hashes)
NameSymmetry == Permutations(Names)

\* Without "setCompany", which DocDb does not describe as this Conn does it.
VersionOps == {"create", "add", "delete", "deleteVersion", "restore"}
AddOps == {"create", "add", "setCompany"}
AllOps == OpKinds

\* The calls that an operation's deferred rollback follows and takes back, and those
\* of setDocumentCompanyID, which no rollback takes back.
WriteFaults ==
    {"fails"} \X {"make_dirs", "write_company", "make_marker", "make_dir",
                  "write_file", "write_info", "notify", "restore_next",
                  "set_unmark", "set_company", "set_mark"}

\* All faults but "unlisted", with which DeleteDocumentVersion removes the document.
AllFaults == {"fails", "crash"} \X Labels
NotifyFaults == {<<"fails", "notify">>}

\* Every backup of the document, and small ones that belong to another company.
OwnBackups == BackupsOf(c1, Versions)
AllBackups == OwnBackups \cup BackupsOf(c2, {1})
NoBackups == {}
=============================================================================
