----------------------------- MODULE StoreConn -----------------------------
(***************************************************************************)
(* The split-store Conn (storeconn/conn.go) over one document.  The Conn   *)
(* keeps no state and takes no lock: writers (goroutines of any process)   *)
(* call the metadata store and the document store in turn, every call is   *)
(* one step, and the steps of different writers interleave.                *)
(*                                                                         *)
(* A step is named by the label in pc of the call it makes.  "Faults" says *)
(* what may go wrong, as pairs <<kind, label>>:                            *)
(*   "fails"   the call returns an error; a batch may be applied in part   *)
(*   "exists"  the callback returns an ErrDocumentAlreadyExists of its own *)
(*             (wrapped, or of another document that it tried to create)   *)
(*   "lost"    the call takes effect but its answer is an error            *)
(*   "panics"  the callback panics                                         *)
(*   "crash"   the writer's process dies before making the call            *)
(***************************************************************************)
EXTENDS PgMetadataStore, S3DocumentStore

CONSTANTS Writers,  \* concurrent callers of the Conn
          Ops,      \* the operations the writers call
          Faults    \* the faults that may happen

OpKinds == {"create", "add", "delete", "deleteVersion", "setCompany"}

\* What label is followed by what is stated by the actions below.
CreateLabels == {"create_put", "create_insert", "create_notify",
                 "create_drop_list", "create_drop", "create_drop_row"}
AddLabels == {"add_prepare", "add_insert", "add_put", "add_notify",
              "add_undo_row", "add_undo_list", "add_undo_blobs"}
DeleteLabels == {"delete_list", "delete_blobs",
                 "delete_version_list", "delete_version_blobs"}
\* The first call of an operation is made from "idle", under these names.
FirstCalls == {"delete_rows", "delete_version_row", "set_company"}
Labels == {"idle"} \cup CreateLabels \cup AddLabels \cup DeleteLabels

FaultKinds == {"fails", "exists", "lost", "panics", "crash"}

ASSUME OpsAssumption == Ops \subseteq OpKinds
ASSUME FaultsAssumption == Faults \subseteq FaultKinds \X (Labels \cup FirstCalls)

VARIABLES
    rows,      \* the rows of the document in the metadata store
    blobs,     \* the object keys of the document in the document store
    pc,        \* per writer: the call it makes next
    row,       \* per writer: the latest row it read, then the row it writes
    inserted,  \* per writer: its insert succeeded (versionInfo # nil)
    todo,      \* per writer: files it still has to put
    doomed,    \* per writer: keys it may delete, then keys it listed
    err        \* per writer: result of the operation, so far or at its end

locals == <<pc, row, inserted, todo, doomed, err>>
vars == <<rows, blobs, locals>>

\* No row is held.
NoRow == [version |-> NoVersion]

Errors == {"ok", "failed", "exists", "notFound", "panicked", "crashed"}

May(kind, label) == <<kind, label>> \in Faults

Quiescent == \A w \in Writers : pc[w] = "idle"

TypeOK ==
    /\ rows \subseteq Row
    /\ blobs \subseteq File
    /\ pc \in [Writers -> Labels]
    /\ row \in [Writers -> Row \cup {NoRow}]
    /\ inserted \in [Writers -> BOOLEAN]
    /\ todo \in [Writers -> SUBSET File]
    /\ doomed \in [Writers -> SUBSET File]
    /\ err \in [Writers -> Errors]

Init ==
    /\ rows = {}
    /\ blobs = {}
    /\ pc = [w \in Writers |-> "idle"]
    /\ row = [w \in Writers |-> NoRow]
    /\ inserted = [w \in Writers |-> FALSE]
    /\ todo = [w \in Writers |-> {}]
    /\ doomed = [w \in Writers |-> {}]
    /\ err = [w \in Writers |-> "ok"]

----------------------------------------------------------------------------
(* Steps shared by the operations.                                         *)

\* The operation returns to its caller with the result e.
Finish(w, e) ==
    /\ pc' = [pc EXCEPT ![w] = "idle"]
    /\ row' = [row EXCEPT ![w] = NoRow]
    /\ inserted' = [inserted EXCEPT ![w] = FALSE]
    /\ todo' = [todo EXCEPT ![w] = {}]
    /\ doomed' = [doomed EXCEPT ![w] = {}]
    /\ err' = [err EXCEPT ![w] = e]

Goto(w, label) == pc' = [pc EXCEPT ![w] = label]

\* DocumentStore.CreateDocumentVersion puts the files one by one.
Put(w, label, next) ==
    /\ pc[w] = label
    /\ \E f \in todo[w] :
        /\ blobs' = blobs \cup {f}
        /\ todo' = [todo EXCEPT ![w] = @ \ {f}]
        /\ Goto(w, IF todo[w] = {f} THEN next ELSE label)
    /\ UNCHANGED <<rows, row, inserted, doomed, err>>

\* A put fails; its object may have been stored all the same.
PutFails(w, label) ==
    /\ pc[w] = label
    /\ May("fails", label)
    /\ \E f \in todo[w] : blobs' \in {blobs, blobs \cup {f}}
    /\ UNCHANGED rows

\* Listing the document's keys: what may be deleted and is there.
List(w, label, next) ==
    /\ pc[w] = label
    /\ doomed' = [doomed EXCEPT ![w] = @ \cap blobs]
    /\ Goto(w, next)
    /\ UNCHANGED <<rows, blobs, row, inserted, todo, err>>

\* The keys that a DeleteObjects call for the writer's keys takes away: all of
\* them, or any of them when the call fails or reports per-object failures.
Deletable(w, label) ==
    IF May("fails", label) THEN SUBSET doomed[w] ELSE {doomed[w]}

----------------------------------------------------------------------------
(* Calls refused, or failing, before any store is changed: a bad argument, *)
(* a read that fails, a statement that is not executed.                    *)

Refuse(w) ==
    /\ pc[w] = "idle"
    /\ Finish(w, "failed")
    /\ UNCHANGED <<rows, blobs>>

----------------------------------------------------------------------------
(* CreateDocument                                                          *)

GenesisRow(v, c, files) ==
    [version |-> v, company |-> c, prev |-> NoVersion, files |-> files,
     added |-> NamesOf(files), removed |-> {}, modified |-> {}]

\* The guard against the document store: a blob is there.
CreateExists(w) ==
    /\ "create" \in Ops
    /\ pc[w] = "idle"
    /\ DocumentExists(blobs)
    /\ Finish(w, "exists")
    /\ UNCHANGED <<rows, blobs>>

\* The guard passes; from here on the deferred rollback is registered.
CreateBegin(w) ==
    /\ "create" \in Ops
    /\ pc[w] = "idle"
    /\ ~DocumentExists(blobs)
    /\ \E v \in Versions, c \in Companies, files \in FileMaps \ {{}} :
        /\ row' = [row EXCEPT ![w] = GenesisRow(v, c, files)]
        /\ todo' = [todo EXCEPT ![w] = files]
    /\ Goto(w, "create_put")
    /\ err' = [err EXCEPT ![w] = "ok"]
    /\ UNCHANGED <<rows, blobs, inserted, doomed>>

CreatePut(w) == Put(w, "create_put", "create_insert")

\* Mutations of RollbackDropsBlobs: the loser of the genesis race deletes the
\* winner's blobs; a failed create leaves its partial write behind.
RollbackAlwaysDropsBlobs(e) == TRUE
RollbackNeverDropsBlobs(e) == FALSE

\* The deferred rollback deletes the document's blobs unless an error says that the
\* document already exists, whether the insert's or the callback's.
RollbackDropsBlobs(e) == e # "exists"

\* The deferred rollback of CreateDocument, with ins: versionInfo # nil.
Rollback(w, e, ins) ==
    IF ~RollbackDropsBlobs(e) /\ ~ins
    THEN Finish(w, e)
    ELSE /\ Goto(w, IF RollbackDropsBlobs(e) THEN "create_drop_list"
                                             ELSE "create_drop_row")
         /\ err' = [err EXCEPT ![w] = e]
         /\ inserted' = [inserted EXCEPT ![w] = ins]
         /\ todo' = [todo EXCEPT ![w] = {}]
         /\ doomed' = [doomed EXCEPT ![w] = File]
         /\ UNCHANGED row

CreatePutFails(w) == PutFails(w, "create_put") /\ Rollback(w, "failed", FALSE)

CreateInsert(w) ==
    /\ pc[w] = "create_insert"
    /\ ~UniqueViolation(rows, row[w])
    /\ rows' = rows \cup {row[w]}
    /\ inserted' = [inserted EXCEPT ![w] = TRUE]
    /\ Goto(w, "create_notify")
    /\ UNCHANGED <<blobs, row, todo, doomed, err>>

\* A unique violation of a genesis insert is ErrDocumentAlreadyExists.
CreateInsertExists(w) ==
    /\ pc[w] = "create_insert"
    /\ UniqueViolation(rows, row[w])
    /\ Rollback(w, "exists", FALSE)
    /\ UNCHANGED <<rows, blobs>>

CreateInsertFails(w) ==
    /\ pc[w] = "create_insert"
    /\ \/ May("fails", "create_insert") /\ UNCHANGED rows
       \/ /\ May("lost", "create_insert")
          /\ ~UniqueViolation(rows, row[w])
          /\ rows' = rows \cup {row[w]}
    /\ Rollback(w, "failed", FALSE)
    /\ UNCHANGED blobs

CreateNotify(w) ==
    /\ pc[w] = "create_notify"
    /\ Finish(w, "ok")
    /\ UNCHANGED <<rows, blobs>>

\* The deferred rollback looks for ErrDocumentAlreadyExists in the callback's error
\* as well: with it the row goes and the blobs stay.
CreateNotifyFails(w) ==
    /\ pc[w] = "create_notify"
    /\ \/ May("fails", "create_notify") /\ Rollback(w, "failed", TRUE)
       \/ May("exists", "create_notify") /\ Rollback(w, "exists", TRUE)
    /\ UNCHANGED <<rows, blobs>>

\* The panic is not recovered: recover() has no effect in a function that the
\* deferred closure calls, so the closure finds err = nil and returns.
CreateNotifyPanics(w) ==
    /\ pc[w] = "create_notify"
    /\ May("panics", "create_notify")
    /\ Finish(w, "panicked")
    /\ UNCHANGED <<rows, blobs>>

\* The rollback's DocumentStore.DeleteDocument: list, then delete.
CreateDropList(w) == List(w, "create_drop_list", "create_drop")

CreateDrop(w) ==
    /\ pc[w] = "create_drop"
    /\ \E keys \in Deletable(w, "create_drop") : blobs' = blobs \ keys
    /\ IF inserted[w]
       THEN /\ Goto(w, "create_drop_row")
            /\ UNCHANGED <<row, inserted, todo, doomed, err>>
       ELSE Finish(w, err[w])
    /\ UNCHANGED rows

\* The rollback's MetadataStore.DeleteDocumentVersion; a failure is joined to
\* the error, a row that is gone is ignored.
CreateDropRow(w) ==
    /\ pc[w] = "create_drop_row"
    /\ \/ rows' = WithoutVersion(rows, row[w].version)
       \/ May("fails", "create_drop_row") /\ UNCHANGED rows
    /\ Finish(w, err[w])
    /\ UNCHANGED blobs

----------------------------------------------------------------------------
(* AddDocumentVersion                                                      *)

AddNotFound(w) ==
    /\ "add" \in Ops
    /\ pc[w] = "idle"
    /\ rows = {}
    /\ Finish(w, "notFound")
    /\ UNCHANGED <<rows, blobs>>

AddReadLatest(w) ==
    /\ "add" \in Ops
    /\ pc[w] = "idle"
    /\ \E r \in rows :
        /\ IsLatest(rows, r)
        /\ row' = [row EXCEPT ![w] = r]
    /\ Goto(w, "add_prepare")
    /\ err' = [err EXCEPT ![w] = "ok"]
    /\ UNCHANGED <<rows, blobs, inserted, todo, doomed>>

\* The row of a version v on top of the row "latest".  A written file counts
\* as modified when the file provider of "latest" has its name.
NextRow(latest, keys, v, c, written, removed) ==
    [version |-> v, company |-> c, prev |-> latest.version,
     files |-> CarryForward(latest.files, removed, written),
     added |-> {n \in NamesOf(written) : ~HasFile(keys, n)},
     removed |-> removed,
     modified |-> {n \in NamesOf(written) : HasFile(keys, n)}]

\* Mutation of Acceptable: a version that removes every file is accepted.
AcceptsEmptyVersion(latest, v, written, removed) ==
    /\ v > latest.version
    /\ NamesOf(written) \cap removed = {}

\* CreateVersionResult.Validate and the checks of AddDocumentVersion on what
\* the createVersion callback returned.
Acceptable(latest, v, written, removed) ==
    /\ v > latest.version
    /\ NamesOf(written) \cap removed = {}
    /\ CarryForward(latest.files, removed, written) # {}

\* The keys are listed for the file provider, then the callback decides on the
\* new version: its only access to shared state is that listing.
AddPrepare(w) ==
    /\ pc[w] = "add_prepare"
    /\ \E v \in Versions, c \in Companies, written \in FileMaps,
          removed \in SUBSET Names :
        LET latest == row[w]
            keys == ProviderKeys(blobs, HashesOf(latest.files))
        IN /\ Acceptable(latest, v, written, removed)
           /\ row' = [row EXCEPT ![w] =
                        NextRow(latest, keys, v, c, written, removed)]
           /\ todo' = [todo EXCEPT ![w] = written]
    /\ Goto(w, "add_insert")
    /\ UNCHANGED <<rows, blobs, inserted, doomed, err>>

\* Listing the keys fails, the callback returns an error or panics, or its
\* result is not acceptable.
AddRefused(w) ==
    /\ pc[w] = "add_prepare"
    /\ Finish(w, "failed")
    /\ UNCHANGED <<rows, blobs>>

AddInsert(w) ==
    /\ pc[w] = "add_insert"
    /\ ~UniqueViolation(rows, row[w])
    /\ rows' = rows \cup {row[w]}
    /\ inserted' = [inserted EXCEPT ![w] = TRUE]
    /\ Goto(w, IF todo[w] = {} THEN "add_notify" ELSE "add_put")
    /\ UNCHANGED <<blobs, row, todo, doomed, err>>

\* A failure after the insert: rollbackNewVersion is called next.
AddUndo(w) ==
    /\ Goto(w, "add_undo_row")
    /\ err' = [err EXCEPT ![w] = "failed"]
    /\ todo' = [todo EXCEPT ![w] = {}]
    /\ UNCHANGED <<row, inserted, doomed>>

\* Mutation of AddInsertExists: the loser of a version takes it back.
AddInsertExistsUndoes(w) ==
    /\ pc[w] = "add_insert"
    /\ UniqueViolation(rows, row[w])
    /\ AddUndo(w)
    /\ UNCHANGED <<rows, blobs>>

\* ErrVersionAlreadyExists is returned as it is: nothing was written yet.
AddInsertExists(w) ==
    /\ pc[w] = "add_insert"
    /\ UniqueViolation(rows, row[w])
    /\ Finish(w, "exists")
    /\ UNCHANGED <<rows, blobs>>

AddInsertFails(w) ==
    /\ pc[w] = "add_insert"
    /\ \/ May("fails", "add_insert") /\ UNCHANGED rows
       \/ /\ May("lost", "add_insert")
          /\ ~UniqueViolation(rows, row[w])
          /\ rows' = rows \cup {row[w]}
    /\ Finish(w, "failed")
    /\ UNCHANGED blobs

AddPut(w) == Put(w, "add_put", "add_notify")

AddPutFails(w) == PutFails(w, "add_put") /\ AddUndo(w)

AddNotify(w) ==
    /\ pc[w] = "add_notify"
    /\ Finish(w, "ok")
    /\ UNCHANGED <<rows, blobs>>

\* Mutation of AddNotifyFails: the callback's error does not undo the version.
AddNotifyFailsKeepsVersion(w) ==
    /\ pc[w] = "add_notify"
    /\ May("fails", "add_notify")
    /\ Finish(w, "failed")
    /\ UNCHANGED <<rows, blobs>>

\* The callback returns an error or panics; here the panic is recovered.
AddNotifyFails(w) ==
    /\ pc[w] = "add_notify"
    /\ May("fails", "add_notify")
    /\ AddUndo(w)
    /\ UNCHANGED <<rows, blobs>>

\* rollbackNewVersion deletes the row and keeps the hashes that only this
\* version referenced; with none of them no blob is looked at.
AddUndoRow(w) ==
    /\ pc[w] = "add_undo_row"
    /\ HasVersion(rows, row[w].version)
    /\ LET hashes == ExclusiveHashes(rows, row[w].version)
       IN /\ rows' = WithoutVersion(rows, row[w].version)
          /\ IF hashes = {}
             THEN Finish(w, "failed")
             ELSE /\ Goto(w, "add_undo_list")
                  /\ inserted' = [inserted EXCEPT ![w] = FALSE]
                  /\ doomed' = [doomed EXCEPT ![w] = FilesWithHash(hashes)]
                  /\ UNCHANGED <<row, todo, err>>
    /\ UNCHANGED blobs

\* The row is gone, or deleting it fails: the safe hashes are unknown and the
\* blobs are left alone.
AddUndoRowFails(w) ==
    /\ pc[w] = "add_undo_row"
    /\ \/ ~HasVersion(rows, row[w].version) /\ UNCHANGED rows
       \/ May("fails", "add_undo_row") /\ UNCHANGED rows
       \/ /\ May("lost", "add_undo_row")
          /\ rows' = WithoutVersion(rows, row[w].version)
    /\ Finish(w, "failed")
    /\ UNCHANGED blobs

AddUndoList(w) == List(w, "add_undo_list", "add_undo_blobs")

AddUndoBlobs(w) ==
    /\ pc[w] = "add_undo_blobs"
    /\ \E keys \in Deletable(w, "add_undo_blobs") : blobs' = blobs \ keys
    /\ Finish(w, "failed")
    /\ UNCHANGED rows

----------------------------------------------------------------------------
(* DeleteDocument: the rows first, then the blobs.                         *)

DeleteNotFound(w) ==
    /\ "delete" \in Ops
    /\ pc[w] = "idle"
    /\ rows = {}
    /\ Finish(w, "notFound")
    /\ UNCHANGED <<rows, blobs>>

DeleteRows(w) ==
    /\ "delete" \in Ops
    /\ pc[w] = "idle"
    /\ rows # {}
    /\ rows' = {}
    /\ doomed' = [doomed EXCEPT ![w] = File]
    /\ Goto(w, "delete_list")
    /\ err' = [err EXCEPT ![w] = "ok"]
    /\ UNCHANGED <<blobs, row, inserted, todo>>

DeleteRowsLost(w) ==
    /\ "delete" \in Ops
    /\ May("lost", "delete_rows")
    /\ pc[w] = "idle"
    /\ rows # {}
    /\ rows' = {}
    /\ Finish(w, "failed")
    /\ UNCHANGED blobs

DeleteList(w) == List(w, "delete_list", "delete_blobs")

\* No object at all is ErrDocumentNotFound.
DeleteBlobs(w) ==
    /\ pc[w] = "delete_blobs"
    /\ blobs' = blobs \ doomed[w]
    /\ Finish(w, IF doomed[w] = {} THEN "notFound" ELSE "ok")
    /\ UNCHANGED rows

DeleteBlobsFails(w) ==
    /\ May("fails", "delete_blobs")
    /\ \/ pc[w] = "delete_list" /\ UNCHANGED blobs
       \/ /\ pc[w] = "delete_blobs"
          /\ doomed[w] # {}
          /\ \E keys \in SUBSET doomed[w] : blobs' = blobs \ keys
    /\ Finish(w, "failed")
    /\ UNCHANGED rows

----------------------------------------------------------------------------
(* DeleteDocumentVersion: the row first, then the blobs of the hashes that *)
(* no other row references.                                                *)

DeleteVersionNotFound(w) ==
    /\ "deleteVersion" \in Ops
    /\ pc[w] = "idle"
    /\ \E v \in Versions : ~HasVersion(rows, v)
    /\ Finish(w, "notFound")
    /\ UNCHANGED <<rows, blobs>>

DeleteVersionRow(w) ==
    /\ "deleteVersion" \in Ops
    /\ pc[w] = "idle"
    /\ \E v \in Versions :
        /\ HasVersion(rows, v)
        /\ rows' = WithoutVersion(rows, v)
        /\ doomed' = [doomed EXCEPT ![w] = FilesWithHash(ExclusiveHashes(rows, v))]
    /\ Goto(w, "delete_version_list")
    /\ err' = [err EXCEPT ![w] = "ok"]
    /\ UNCHANGED <<blobs, row, inserted, todo>>

DeleteVersionRowLost(w) ==
    /\ "deleteVersion" \in Ops
    /\ May("lost", "delete_version_row")
    /\ pc[w] = "idle"
    /\ \E v \in Versions :
        /\ HasVersion(rows, v)
        /\ rows' = WithoutVersion(rows, v)
    /\ Finish(w, "failed")
    /\ UNCHANGED blobs

\* DeleteDocumentHashes may find the document without any object.
DeleteVersionList(w) ==
    /\ pc[w] = "delete_version_list"
    /\ IF blobs = {}
       THEN Finish(w, "notFound") /\ UNCHANGED <<rows, blobs>>
       ELSE List(w, "delete_version_list", "delete_version_blobs")

DeleteVersionBlobs(w) ==
    /\ pc[w] = "delete_version_blobs"
    /\ blobs' = blobs \ doomed[w]
    /\ Finish(w, "ok")
    /\ UNCHANGED rows

DeleteVersionBlobsFails(w) ==
    /\ May("fails", "delete_version_blobs")
    /\ \/ pc[w] = "delete_version_list" /\ UNCHANGED blobs
       \/ /\ pc[w] = "delete_version_blobs"
          /\ doomed[w] # {}
          /\ \E keys \in SUBSET doomed[w] : blobs' = blobs \ keys
    /\ Finish(w, "failed")
    /\ UNCHANGED rows

----------------------------------------------------------------------------
(* SetDocumentCompanyID                                                    *)

SetCompany(w) ==
    /\ "setCompany" \in Ops
    /\ pc[w] = "idle"
    /\ IF rows = {}
       THEN Finish(w, "notFound") /\ UNCHANGED rows
       ELSE /\ \E c \in Companies : rows' = WithCompany(rows, c)
            /\ Finish(w, "ok")
    /\ UNCHANGED blobs

----------------------------------------------------------------------------
(* The process of a writer dies; nothing of the operation is undone.       *)

Crash(w) ==
    /\ pc[w] # "idle"
    /\ May("crash", pc[w])
    /\ Finish(w, "crashed")
    /\ UNCHANGED <<rows, blobs>>

----------------------------------------------------------------------------
Create(w) ==
    \/ CreateExists(w) \/ CreateBegin(w) \/ CreatePut(w) \/ CreatePutFails(w)
    \/ CreateInsert(w) \/ CreateInsertExists(w) \/ CreateInsertFails(w)
    \/ CreateNotify(w) \/ CreateNotifyFails(w) \/ CreateNotifyPanics(w)
    \/ CreateDropList(w) \/ CreateDrop(w) \/ CreateDropRow(w)

Add(w) ==
    \/ AddNotFound(w) \/ AddReadLatest(w) \/ AddPrepare(w) \/ AddRefused(w)
    \/ AddInsert(w) \/ AddInsertExists(w) \/ AddInsertFails(w)
    \/ AddPut(w) \/ AddPutFails(w) \/ AddNotify(w) \/ AddNotifyFails(w)
    \/ AddUndoRow(w) \/ AddUndoRowFails(w) \/ AddUndoList(w) \/ AddUndoBlobs(w)

Delete(w) ==
    \/ DeleteNotFound(w) \/ DeleteRows(w) \/ DeleteRowsLost(w)
    \/ DeleteList(w) \/ DeleteBlobs(w) \/ DeleteBlobsFails(w)

DeleteVersion(w) ==
    \/ DeleteVersionNotFound(w) \/ DeleteVersionRow(w) \/ DeleteVersionRowLost(w)
    \/ DeleteVersionList(w)
    \/ DeleteVersionBlobs(w) \/ DeleteVersionBlobsFails(w)

Step(w) ==
    \/ Refuse(w) \/ Create(w) \/ Add(w) \/ Delete(w) \/ DeleteVersion(w)
    \/ SetCompany(w) \/ Crash(w)

Next == \E w \in Writers : Step(w)

Spec == Init /\ [][Next]_vars

----------------------------------------------------------------------------
(* Properties                                                              *)

\* What a caller can read: per version the files that can be delivered.
View == {[version |-> r.version, company |-> r.company, prev |-> r.prev,
          files |-> r.files \cap blobs] : r \in rows}

\* The two unique constraints of document_version, a predecessor that is older
\* than its version, and no version without files, whatever the writers of
\* CreateDocument, AddDocumentVersion and the deletes do to each other.
TableConsistent ==
    /\ \A r, q \in rows : r.version = q.version => r = q
    /\ \A r, q \in rows : IsGenesis(r) /\ IsGenesis(q) => r = q
    /\ \A r \in rows : r.prev < r.version /\ r.files # {}

\* A row whose insert no unfinished operation could still take back.
Settled(r) == ~ \E w \in Writers : inserted[w] /\ row[w].version = r.version

\* The faults that leave a committed row without its blobs: the answer of an
\* insert is lost, so that the row is not taken back (in CreateDocument the
\* blobs are even deleted); the delete of the row fails during a rollback; or
\* the process dies while a row is committed and its blobs are not there.
ContentLosingFaults ==
    {<<"lost", "create_insert">>, <<"lost", "add_insert">>,
     <<"fails", "create_drop_row">>, <<"crash", "create_drop_row">>,
     <<"fails", "add_undo_row">>, <<"crash", "add_undo_row">>,
     <<"crash", "add_put">>}

\* Every file of a settled version is in the document store: neither a
\* rollback nor a delete takes a blob that another version references.
ContentPresent == \A r \in rows : Settled(r) => r.files \subseteq blobs

\* A committed version never changes but for its company: every step that
\* leaves its timestamp in the table leaves its files and change lists.
VersionsImmutable ==
    [][\A r \in rows, q \in rows' :
        q.version = r.version => q = [r EXCEPT !.company = q.company]]_rows

\* Without deletes, a row leaves the table only by the rollback of the very
\* operation that inserted it, never by that of a writer that lost the
\* version to it.
RollbackTakesOwnRow ==
    [][\A r \in rows : HasVersion(rows', r.version) \/
        \E w \in Writers : inserted[w] /\ row[w] = r /\ pc'[w] # pc[w]]_vars
=============================================================================
