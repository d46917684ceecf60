------------------------- MODULE MCStoreConnAtomic -------------------------
(***************************************************************************)
(* Instances of StoreConnAtomic for TLC.                                   *)
(***************************************************************************)
EXTENDS StoreConnAtomic

CONSTANTS c1, c2

AllOps == OpKinds

\* Calls that fail before or while they write: every cleanup succeeds, and no callback
\* returns an ErrDocumentAlreadyExists.
RolledBackFaults ==
    {"fails"} \X {"create_put", "create_insert", "create_notify",
                  "add_insert", "add_put", "add_notify"}
RestoreCallFaults == {"call", "insert", "put"}

\* Every backup of the document, and small ones that belong to another company.
AllBackups == BackupsOf(c1, Versions) \cup BackupsOf(c2, {1})
=============================================================================
