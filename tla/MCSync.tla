------------------------------- MODULE MCSync -------------------------------
(***************************************************************************)
(* Instances of Sync for TLC.                                              *)
(***************************************************************************)
EXTENDS Sync

CalledOps == {"create", "delete", "deleteVersion"}
AllBackups ==
    LET fileMaps == UNION {[vs -> FileMaps \ {{}}] : vs \in SUBSET Versions}
    IN {backup \in [company : Companies, files : fileMaps] : IsValid(backup)}

\* Calls that fail before or while they write: every cleanup succeeds.
RolledBackFaults == {"fails"} \X {"create_put", "create_insert"}
RestoreCallFaults == {"call", "insert", "put"}

\* DeleteDocument of a recreate has deleted the rows, and not the blobs.
DeleteFaults == {<<"fails", "delete_blobs">>}
NoFaults == {}
=============================================================================
