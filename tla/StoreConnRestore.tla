-------------------------- MODULE StoreConnRestore --------------------------
(***************************************************************************)
(* RestoreDocument of the split-store Conn (storeconn/conn.go).  A restore *)
(* calls DocumentExists, DeleteDocument, CreateDocument and                *)
(* DeleteDocumentVersion of the same Conn: while such a call runs, the     *)
(* writer takes the steps of StoreConn, and the restore looks at the       *)
(* result in err when the writer is idle again.  The versions after the    *)
(* first one go to the stores directly.                                    *)
(***************************************************************************)
EXTENDS StoreConn, HashedDocument

CONSTANTS Backups,        \* HashedDocuments: [company, files: version -> files]
          RestoreFaults   \* calls of the restore itself that may fail

VARIABLE job   \* per writer: the restore it runs

restoreVars == <<vars, job>>

NoJob == [at |-> "none"]

\* A call that only reads, or is refused without an effect; the insert of a
\* row; a put; a delete of the rollback; the process dies.
RestoreFaultKinds == {"call", "insert", "put", "undo", "crash"}

\* The operations that a restore calls are among the operations of a writer.
ASSUME RestoreOpsAssumption == {"create", "delete", "deleteVersion"} \subseteq Ops
ASSUME BackupsAssumption == \A backup \in Backups :
    /\ IsValid(backup)
    /\ backup.company \in Companies
    /\ VersionsOf(backup) \subseteq Versions
    /\ \A v \in VersionsOf(backup) : backup.files[v] \in FileMaps
ASSUME RestoreFaultsAssumption == RestoreFaults \subseteq RestoreFaultKinds

RestoreInit == Init /\ job = [w \in Writers |-> NoJob]

----------------------------------------------------------------------------
At(w, label) == pc[w] = "idle" /\ job[w].at = label

GotoJob(w, label) == job' = [job EXCEPT ![w].at = label]

\* RestoreDocument returns.
Return(w, e) ==
    /\ Finish(w, e)
    /\ job' = [job EXCEPT ![w] = NoJob]

\* Mutation of RollbackJob: a failed merge drops the whole document.
RollbackJobDropsDocument(w, cause) ==
    job' = [job EXCEPT ![w].at = "undo_document", ![w].cause = cause]

\* The deferred rollback, at its first call.
RollbackJob(w, cause) ==
    job' = [job EXCEPT ![w].at =
                           IF job[w].fresh THEN "undo_document" ELSE "undo_versions",
                       ![w].cause = cause]

\* DocumentExists decides which way the restore goes: delete, merge or create.
RestoreOf(w, backup, recreate) ==
    /\ job' = [job EXCEPT ![w] =
        [backup |-> backup, recreate |-> recreate,
         left |-> VersionsOf(backup),   \* versions the loop has not reached
         exists |-> DocumentExists(blobs),
         fresh |-> FALSE,                \* createdDoc
         created |-> {},                 \* createdVersions
         cause |-> "ok",                 \* the error that is rolled back
         at |-> IF ~DocumentExists(blobs) THEN "loop"
                ELSE IF recreate THEN "delete" ELSE "company"]]
    /\ UNCHANGED vars

\* RestoreDocument is called.
RestoreBegin(w) ==
    /\ At(w, "none")
    /\ \E backup \in Backups, recreate \in BOOLEAN : RestoreOf(w, backup, recreate)

\* A call fails without an effect, before the rollback is registered.
RestoreCallFails(w) ==
    /\ At(w, "delete") \/ At(w, "company") \/ At(w, "versions")
    /\ "call" \in RestoreFaults
    /\ Return(w, "failed")
    /\ UNCHANGED <<rows, blobs>>

\* recreate: DeleteDocument is called, and returns.
RestoreDelete(w) ==
    /\ At(w, "delete")
    /\ DeleteRows(w) \/ DeleteNotFound(w)
    /\ GotoJob(w, "deleting")

RestoreDeleted(w) ==
    /\ At(w, "deleting")
    /\ IF err[w] = "ok"
       THEN /\ job' = [job EXCEPT ![w].at = "loop", ![w].exists = FALSE]
            /\ UNCHANGED vars
       ELSE Return(w, err[w]) /\ UNCHANGED <<rows, blobs>>

\* Merge: DocumentCompanyID of the existing document must be the backup's.
RestoreCompany(w) ==
    /\ At(w, "company")
    /\ IF rows # {} /\ CompanyOf(rows) = job[w].backup.company
       THEN GotoJob(w, "versions") /\ UNCHANGED vars
       ELSE Return(w, "failed") /\ UNCHANGED <<rows, blobs>>

\* Merge: the versions that DocumentVersions returns are left as they are.
RestoreVersions(w) ==
    /\ At(w, "versions")
    /\ IF rows # {}
       THEN /\ job' = [job EXCEPT ![w].at = "loop",
                                   ![w].left = {v \in @ : ~HasVersion(rows, v)}]
            /\ UNCHANGED vars
       ELSE Return(w, "notFound") /\ UNCHANGED <<rows, blobs>>

\* The first version goes through CreateDocument if there is no document.
RestoreCreate(w) ==
    /\ At(w, "loop")
    /\ job[w].left # {}
    /\ ~job[w].exists
    /\ LET v == Min(job[w].left)
       IN \/ /\ CreateBegin(w)
             /\ row'[w] = GenesisRow(v, job[w].backup.company, job[w].backup.files[v])
          \/ CreateExists(w)
          \/ "call" \in RestoreFaults /\ Refuse(w)
    /\ GotoJob(w, "creating")

RestoreCreated(w) ==
    /\ At(w, "creating")
    /\ IF err[w] = "ok"
       THEN job' = [job EXCEPT ![w].at = "loop", ![w].exists = TRUE,
                               ![w].fresh = TRUE, ![w].left = @ \ {Min(@)}]
       ELSE RollbackJob(w, err[w])
    /\ UNCHANGED vars

\* Mutation of RestoredRow: a version is chained to the newest one there is.
RestoredRowOnLatest(backup, v) ==
    LET older == FilesBefore(backup, v)
        files == backup.files[v]
    IN [version |-> v, company |-> backup.company,
        prev |-> IF rows = {} THEN NoVersion ELSE Max({r.version : r \in rows}),
        files |-> files, added |-> AddedNames(older, files),
        removed |-> RemovedNames(older, files), modified |-> ModifiedNames(older, files)]

\* Mutation of RestoredRow: a version gets the files of its predecessor.
RestoredRowOfPredecessor(backup, v) ==
    LET files == FilesBefore(backup, v)
    IN [version |-> v, company |-> backup.company, prev |-> Predecessor(backup, v),
        files |-> files, added |-> {}, removed |-> {}, modified |-> {}]

\* The row of a version restored without CreateDocument: its lists are the
\* difference to its predecessor in the backup, not in the table.
RestoredRow(backup, v) ==
    LET older == FilesBefore(backup, v)
        files == backup.files[v]
    IN [version |-> v, company |-> backup.company, prev |-> Predecessor(backup, v),
        files |-> files, added |-> AddedNames(older, files),
        removed |-> RemovedNames(older, files), modified |-> ModifiedNames(older, files)]

\* MetadataStore.CreateDocumentVersion, then the version counts as created.
RestoreInsert(w) ==
    /\ At(w, "loop")
    /\ job[w].left # {}
    /\ job[w].exists
    /\ LET v == Min(job[w].left)
           new == RestoredRow(job[w].backup, v)
       IN /\ ~UniqueViolation(rows, new)
          /\ rows' = rows \cup {new}
          /\ todo' = [todo EXCEPT ![w] = new.files]
          /\ job' = [job EXCEPT ![w].at = "put", ![w].created = @ \cup {v}]
    /\ UNCHANGED <<blobs, pc, row, inserted, doomed, err>>

\* Mutation of RestoreInsertFails: a refused row is taken for one that is there.
RestoreInsertFailsSkips(w) ==
    /\ At(w, "loop")
    /\ job[w].left # {}
    /\ job[w].exists
    /\ \/ /\ UniqueViolation(rows, RestoredRow(job[w].backup, Min(job[w].left)))
          /\ job' = [job EXCEPT ![w].left = @ \ {Min(@)}]
       \/ "insert" \in RestoreFaults /\ RollbackJob(w, "failed")
    /\ UNCHANGED vars

RestoreInsertFails(w) ==
    /\ At(w, "loop")
    /\ job[w].left # {}
    /\ job[w].exists
    /\ \/ /\ UniqueViolation(rows, RestoredRow(job[w].backup, Min(job[w].left)))
          /\ RollbackJob(w, "exists")
       \/ "insert" \in RestoreFaults /\ RollbackJob(w, "failed")
    /\ UNCHANGED vars

\* DocumentStore.CreateDocumentVersion writes all files of the version.
RestorePut(w) ==
    /\ At(w, "put")
    /\ \E f \in todo[w] :
        /\ blobs' = blobs \cup {f}
        /\ todo' = [todo EXCEPT ![w] = @ \ {f}]
        /\ IF todo[w] = {f}
           THEN job' = [job EXCEPT ![w].at = "loop", ![w].left = @ \ {Min(@)}]
           ELSE UNCHANGED job
    /\ UNCHANGED <<rows, pc, row, inserted, doomed, err>>

RestorePutFails(w) ==
    /\ At(w, "put")
    /\ "put" \in RestoreFaults
    /\ \E f \in todo[w] : blobs' \in {blobs, blobs \cup {f}}
    /\ todo' = [todo EXCEPT ![w] = {}]
    /\ RollbackJob(w, "failed")
    /\ UNCHANGED <<rows, pc, row, inserted, doomed, err>>

\* Every version of the backup is there.
RestoreDone(w) ==
    /\ At(w, "loop")
    /\ job[w].left = {}
    /\ Return(w, "ok")
    /\ UNCHANGED <<rows, blobs>>

\* Rollback of a document that this call created: DeleteDocument.
UndoDocument(w) ==
    /\ At(w, "undo_document")
    /\ DeleteRows(w) \/ DeleteNotFound(w) \/ ("undo" \in RestoreFaults /\ Refuse(w))
    /\ GotoJob(w, "undone_document")

\* Rollback of a merge: DeleteDocumentVersion, the newest version first.
UndoVersion(w) ==
    /\ At(w, "undo_versions")
    /\ job[w].created # {}
    /\ LET v == Max(job[w].created)
       IN /\ \/ DeleteVersionRow(w) /\ rows' = WithoutVersion(rows, v)
             \/ ~HasVersion(rows, v) /\ DeleteVersionNotFound(w)
             \/ "undo" \in RestoreFaults /\ Refuse(w)
          /\ job' = [job EXCEPT ![w].created = @ \ {v}]

\* The cause is returned, whatever the rollback's deletes returned.
UndoDone(w) ==
    /\ \/ At(w, "undone_document")
       \/ At(w, "undo_versions") /\ job[w].created = {}
    /\ Return(w, job[w].cause)
    /\ UNCHANGED <<rows, blobs>>

\* The process dies between or in the calls of the restore.
RestoreCrash(w) ==
    /\ job[w] # NoJob
    /\ "crash" \in RestoreFaults
    /\ Return(w, "crashed")
    /\ UNCHANGED <<rows, blobs>>

----------------------------------------------------------------------------
Restore(w) ==
    \/ RestoreBegin(w) \/ RestoreCallFails(w) \/ RestoreDelete(w) \/ RestoreDeleted(w)
    \/ RestoreCompany(w) \/ RestoreVersions(w) \/ RestoreCreate(w) \/ RestoreCreated(w)
    \/ RestoreInsert(w) \/ RestoreInsertFails(w) \/ RestorePut(w) \/ RestorePutFails(w)
    \/ RestoreDone(w) \/ UndoDocument(w) \/ UndoVersion(w) \/ UndoDone(w)
    \/ RestoreCrash(w)

\* The operations of StoreConn, called by the writer itself or by its restore,
\* whose callback for CreateDocument (noopOnNew) never fails.
Operation(w) ==
    /\ job[w] = NoJob \/ pc[w] # "idle"
    /\ Step(w)
    /\ job[w] # NoJob =>
        err'[w] # "crashed" /\ (pc[w] = "create_notify" => err'[w] = "ok")
    /\ UNCHANGED job

RestoreNext == \E w \in Writers : Restore(w) \/ Operation(w)

RestoreSpec == RestoreInit /\ [][RestoreNext]_restoreVars

----------------------------------------------------------------------------
(* Properties                                                              *)

\* No operation and no restore is running.
BetweenCalls == Quiescent /\ \A w \in Writers : job[w] = NoJob

\* Between calls the document store holds no content that no version references,
\* whatever was restored, merged or taken back, if the calls that take it back
\* succeed: DocumentExists (which asks the document store) and the metadata store
\* agree on whether the document exists.  The exception is a callback of CreateDocument
\* that fails with an ErrDocumentAlreadyExists of its own (conn.go:187): the
\* document's objects stay without a version.
NoOrphanContent ==
    BetweenCalls =>
        HashesOf(blobs) \subseteq UNION {HashesOf(r.files) : r \in rows}
=============================================================================
