----------------------- MODULE StoreConnAtomicProofs -----------------------
(***************************************************************************)
(* One writer at a time of the split-store Conn, restores included, for    *)
(* any files, versions, companies, operations and backups: it implements   *)
(* DocDb under any failures that are rolled back, and its merges keep what *)
(* they found whatever fails.                                              *)
(***************************************************************************)
EXTENDS StoreConnAtomic, StoreConnRestoreProofs

\* The premise of the run MergeAndRecreate: calls fail before or while they write, and
\* those that take back what was written succeed and are made.  It leaves out a callback
\* of CreateDocument whose error says that a document already exists ("exists"), because
\* the rollback then keeps the blobs.
FailuresTakenBack ==
    /\ Faults \subseteq {"fails"} \X {"create_put", "create_insert", "create_notify",
                                     "add_insert", "add_put", "add_notify"}
    /\ RestoreFaults \subseteq {"call", "insert", "put"}

----------------------------------------------------------------------------
(* What the stores hold at each call of the writer.                        *)

\* A row as a caller sees it once its content is there.
Shown(r) == [version |-> r.version, company |-> r.company, prev |-> r.prev,
             files |-> r.files]
ShownOf(table) == {Shown(r) : r \in table}

Complete(table) == \A r \in table : r.files \subseteq blobs

\* The content of these keys is that of some row's files.
Referenced(keys) == \A f \in keys : \E r \in rows : \E g \in r.files : g[2] = f[2]

Clean == Complete(rows) /\ Referenced(blobs)
Gone == rows = {} /\ blobs = {}
Untouched == Clean /\ seenDoc = ShownOf(rows)

\* CreateDocument has found no document.
CreateAt(w) ==
    LET at == pc[w]
        r == row[w]
    IN /\ at \in CreateLabels => r \in Row /\ IsGenesis(r)
       /\ at = "create_put" =>
            /\ rows = {} /\ todo[w] \subseteq r.files
            /\ blobs \subseteq r.files /\ r.files \subseteq blobs \cup todo[w]
       /\ at = "create_insert" => rows = {} /\ blobs = r.files
       /\ at = "create_notify" => rows = {r} /\ blobs = r.files
       /\ at \in {"create_drop_list", "create_drop"} =>
            rows \subseteq {r} /\ (rows # {} => inserted[w]) /\ blobs \subseteq doomed[w]
       /\ at = "create_drop_row" => rows \subseteq {r} /\ blobs = {}
       /\ at \in {"create_drop_list", "create_drop", "create_drop_row"} => err[w] = "failed"

\* The row of the writer goes on top of the latest version.
OnLatest(w) ==
    \E latest \in seenDoc :
        /\ latest.version = row[w].prev
        /\ \A d \in seenDoc : d.version <= latest.version /\ d.version < row[w].version

AddAt(w) ==
    LET at == pc[w]
        r == row[w]
    IN /\ at \in {"add_prepare", "add_insert"} => Untouched
       /\ at = "add_prepare" => r \in rows /\ IsLatest(rows, r)
       /\ at \in {"add_insert", "add_put", "add_notify", "add_undo_row"} =>
            r \in Row /\ OnLatest(w)
       /\ at \in {"add_insert", "add_put"} =>
            todo[w] \subseteq r.files /\ r.files \subseteq blobs \cup todo[w]
       /\ at \in {"add_put", "add_notify", "add_undo_row"} =>
            /\ r \in rows /\ seenDoc = ShownOf(rows \ {r})
            /\ Complete(rows \ {r}) /\ Referenced(blobs)
       /\ at = "add_notify" => r.files \subseteq blobs
       /\ at \in {"add_undo_list", "add_undo_blobs"} =>
            Complete(rows) /\ seenDoc = ShownOf(rows)

\* The keys that a delete is about to take are those that no row needs.
DeleteAt(w) ==
    LET at == pc[w]
    IN /\ at \in {"delete_list", "delete_blobs"} => rows = {} /\ blobs \subseteq doomed[w]
       /\ at \in {"add_undo_list", "add_undo_blobs", "delete_version_list",
                  "delete_version_blobs"} =>
            /\ \A r \in rows : r.files \cap doomed[w] = {}
            /\ Referenced(blobs \ doomed[w])

\* What was seen before an operation that no restore has called.
AloneAt(w) ==
    LET at == pc[w]
    IN /\ at = "idle" => Untouched
       /\ at \in CreateLabels => seenDoc = {}
       /\ at \in {"delete_list", "delete_blobs"} => seenDoc # {}
       /\ at \in {"delete_version_list", "delete_version_blobs"} =>
            /\ Complete(rows)
            /\ \E v \in Versions : /\ \E d \in seenDoc : d.version = v
                                   /\ ShownOf(rows) = {d \in seenDoc : d.version # v}

----------------------------------------------------------------------------
(* What a restore has done at each of its calls.                           *)

\* The version v of the backup as it is to look like.
RestoredAs(backup, v) ==
    [version |-> v, company |-> backup.company, prev |-> Predecessor(backup, v),
     files |-> backup.files[v]]

\* The labels of the operations that a restore at "label" calls.
CalledFrom(label) ==
    CASE label = "creating" -> CreateLabels
      [] label \in {"deleting", "undone_document"} -> {"delete_list", "delete_blobs"}
      [] label = "undo_versions" -> {"delete_version_list", "delete_version_blobs"}
      [] OTHER -> {}

\* The versions that a restore found and keeps.
Base(w) == IF job[w].exists /\ ~job[w].fresh THEN seenDoc ELSE {}
BaseVersions(w) == {d.version : d \in Base(w)}

\* The versions of the backup whose rows the restore has inserted.
Inserted(w) ==
    LET j == job[w]
    IN (VersionsOf(j.backup) \ BaseVersions(w)) \
        (IF j.at = "put" THEN j.left \ {Min(j.left)} ELSE j.left)

\* Nothing is restored yet.
StartAt(w) ==
    LET j == job[w]
    IN /\ j.at \in {"delete", "company", "versions"} => Untouched
       /\ j.at \in {"delete", "company", "versions", "deleting", "creating"}
            \/ (j.at = "loop" /\ ~j.exists) =>
            j.left = VersionsOf(j.backup) /\ j.created = {} /\ ~j.fresh
       /\ j.at \in {"delete", "deleting"} => j.recreate
       /\ j.at \in {"company", "versions"} => ~j.recreate /\ j.exists
       /\ j.at = "deleting" /\ pc[w] = "idle" => Gone
       /\ j.at = "creating" => ~j.exists
       /\ j.at = "put" => j.exists
       /\ j.at \in {"loop", "put"} /\ j.exists => j.fresh \/ ~j.recreate
       /\ j.at \in {"creating", "loop", "put", "undo_document", "undone_document",
                    "undo_versions"} =>
            j.recreate \/ Base(w) = seenDoc
       /\ j.at = "loop" /\ ~j.exists => Gone
       /\ j.at = "creating" /\ pc[w] # "idle" =>
            Shown(row[w]) = RestoredAs(j.backup, Min(j.left))
       /\ j.at = "creating" /\ pc[w] = "idle" =>
            IF err[w] = "ok"
            THEN Clean /\ ShownOf(rows) = {RestoredAs(j.backup, Min(j.left))}
            ELSE Gone

\* The versions are restored one by one, in ascending order.
ProgressAt(w) ==
    LET j == job[w]
        v == Min(j.left)
    IN j.at \in {"loop", "put"} /\ j.exists =>
        /\ ShownOf(rows) = Base(w) \cup {RestoredAs(j.backup, u) : u \in Inserted(w)}
        /\ j.left \cap BaseVersions(w) = {}
        /\ IF j.fresh THEN rows # {} ELSE j.created = Inserted(w)
        /\ \A u \in j.created : \A n \in j.left : u <= n
        /\ IF j.at = "loop" THEN Clean
           ELSE /\ j.left # {} /\ Referenced(blobs)
                /\ \A r \in rows :
                    IF r.version = v
                    THEN todo[w] \subseteq r.files /\ r.files \subseteq blobs \cup todo[w]
                    ELSE r.files \subseteq blobs

\* The restore takes back what it restored.
UndoAt(w) ==
    LET j == job[w]
    IN /\ j.at \in {"undo_document", "undone_document", "undo_versions"} => j.cause # "ok"
       /\ j.at \in {"undo_document", "undone_document"} => j.fresh
       /\ j.at = "undo_document" => rows # {}
       /\ j.at = "undone_document" /\ pc[w] = "idle" => Gone
       /\ j.at = "undo_versions" =>
            /\ ~j.fresh
            /\ {d \in ShownOf(rows) : d.version \notin j.created} = Base(w)
            /\ \A r \in rows : r.version \notin j.created => r.files \subseteq blobs
            /\ \E b \in Nat : \A v \in j.created : v < b
            /\ pc[w] = "idle" => Referenced(blobs)

JobAt(w) ==
    /\ pc[w] \in {"idle"} \cup CalledFrom(job[w].at)
    /\ StartAt(w)
    /\ ProgressAt(w)
    /\ UndoAt(w)

WholeAt(w) ==
    /\ CreateAt(w)
    /\ DeleteAt(w)
    /\ IF job[w] = NoJob THEN AddAt(w) /\ AloneAt(w) ELSE JobAt(w)

WholeInv == \A w \in Writers : WholeAt(w)

----------------------------------------------------------------------------
(* Faults and views                                                        *)

\* Which faults there are.
LEMMA FaultFacts ==
    ASSUME FailuresTakenBack, NEW label
    PROVE  /\ ~May("crash", label) /\ ~May("lost", label) /\ ~May("panics", label)
           /\ ~May("exists", label)
           /\ May("fails", label) =>
                label \in {"create_put", "create_insert", "create_notify",
                           "add_insert", "add_put", "add_notify"}
           /\ "undo" \notin RestoreFaults /\ "crash" \notin RestoreFaults
BY DEF FailuresTakenBack, May

\* With their content there, rows are seen as they are.
LEMMA CompleteView ==
    ASSUME Complete(rows)
    PROVE  View = ShownOf(rows)
<1>1. \A r \in rows : r.files \cap blobs = r.files
  BY DEF Complete
<1> QED BY <1>1 DEF View, ShownOf, Shown

LEMMA CompleteViewNext ==
    ASSUME Complete(rows)'
    PROVE  View' = ShownOf(rows')
<1>1. \A r \in rows' : r.files \cap blobs' = r.files
  BY DEF Complete
<1> QED BY <1>1 DEF View, ShownOf, Shown

LEMMA NothingShown ==
    ASSUME Gone'
    PROVE  Clean' /\ View' = {} /\ ShownOf(rows') = {}
BY DEF Gone, Clean, Complete, Referenced, View, ShownOf

\* Without objects of a document there are no rows of it, and none without rows.
LEMMA CleanDocument ==
    ASSUME TypeOK, Clean
    PROVE  /\ blobs = {} <=> rows = {}
           /\ ShownOf(rows) = {} <=> rows = {}
<1>1. blobs = {} => rows = {}
  BY DEF Clean, Complete, TypeOK, Row
<1>2. rows = {} => blobs = {}
  BY DEF Clean, Referenced
<1> QED BY <1>1, <1>2 DEF ShownOf

----------------------------------------------------------------------------
(* The calls of CreateDocument, DeleteDocument and DeleteDocumentVersion,  *)
(* whoever called them.                                                    *)

\* What a writer can do next.
LEMMA CallsAt ==
    ASSUME FailuresTakenBack, NEW w \in Writers, Step(w)
    PROVE  /\ pc[w] = "idle" =>
                \/ Refuse(w) \/ CreateExists(w) \/ CreateBegin(w)
                \/ AddNotFound(w) \/ AddReadLatest(w)
                \/ DeleteNotFound(w) \/ DeleteRows(w)
                \/ DeleteVersionNotFound(w) \/ DeleteVersionRow(w) \/ SetCompany(w)
           /\ pc[w] \in CreateLabels =>
                \/ CreatePut(w) \/ CreatePutFails(w)
                \/ CreateInsert(w) \/ CreateInsertExists(w) \/ CreateInsertFails(w)
                \/ CreateNotify(w) \/ CreateNotifyFails(w)
                \/ CreateDropList(w) \/ CreateDrop(w) \/ CreateDropRow(w)
           /\ pc[w] \in AddLabels =>
                \/ AddPrepare(w) \/ AddRefused(w)
                \/ AddInsert(w) \/ AddInsertExists(w) \/ AddInsertFails(w)
                \/ AddPut(w) \/ AddPutFails(w) \/ AddNotify(w) \/ AddNotifyFails(w)
                \/ AddUndoRow(w) \/ AddUndoRowFails(w) \/ AddUndoList(w) \/ AddUndoBlobs(w)
           /\ pc[w] \in {"delete_list", "delete_blobs"} => DeleteList(w) \/ DeleteBlobs(w)
           /\ pc[w] \in {"delete_version_list", "delete_version_blobs"} =>
                DeleteVersionList(w) \/ DeleteVersionBlobs(w)
BY FaultFacts
DEF Step, Refuse, Create, CreateExists, CreateBegin, CreatePut, CreatePutFails,
    CreateInsert, CreateInsertExists, CreateInsertFails, CreateNotify, CreateNotifyFails,
    CreateNotifyPanics, CreateDropList, CreateDrop, CreateDropRow, Add, AddNotFound,
    AddReadLatest, AddPrepare, AddRefused, AddInsert, AddInsertExists, AddInsertFails,
    AddPut, AddPutFails, AddNotify, AddNotifyFails, AddUndoRow, AddUndoRowFails,
    AddUndoList, AddUndoBlobs, Delete, DeleteNotFound, DeleteRows, DeleteRowsLost,
    DeleteList, DeleteBlobs, DeleteBlobsFails, DeleteVersion, DeleteVersionNotFound,
    DeleteVersionRow, DeleteVersionRowLost, DeleteVersionList, DeleteVersionBlobs,
    DeleteVersionBlobsFails, SetCompany, Crash, Put, PutFails, List, CreateLabels, AddLabels

\* A create goes on, or has created the document, or has left nothing.
CreateGoesOn(w) ==
    \/ pc'[w] \in CreateLabels /\ CreateAt(w)' /\ row'[w] = row[w]
    \/ pc'[w] = "idle" /\ err'[w] = "ok" /\ rows' = {row[w]} /\ blobs' = row[w].files
    \/ pc'[w] = "idle" /\ err'[w] = "failed" /\ Gone'

\* A failed create rolls back what it inserted and all that is stored.
LEMMA RollbackGoesOn ==
    ASSUME TypeOK, NEW w \in Writers, NEW ins \in BOOLEAN, Rollback(w, "failed", ins),
           row[w] \in Row, IsGenesis(row[w]), blobs' \subseteq File,
           rows' \subseteq {row[w]}, rows' # {} => ins
    PROVE  CreateGoesOn(w)
<1>1. /\ pc'[w] = "create_drop_list" /\ err'[w] = "failed" /\ inserted'[w] = ins
      /\ doomed'[w] = File /\ row'[w] = row[w]
  BY DEF Rollback, RollbackDropsBlobs, Goto, TypeOK
<1> QED BY <1>1 DEF CreateGoesOn, CreateAt, CreateLabels

LEMMA CreateCalls ==
    ASSUME TypeOK, FailuresTakenBack, NEW w \in Writers, pc[w] \in CreateLabels,
           CreateAt(w), Step(w)
    PROVE  CreateGoesOn(w)
<1>1. row[w] \in Row /\ IsGenesis(row[w]) /\ blobs \subseteq File
  BY DEF CreateAt, TypeOK
<1>2. row[w].files \subseteq File
  BY <1>1 DEF Row, FileMaps
<1>3. CASE CreatePut(w)
  <2>1. PICK f \in todo[w] :
            /\ blobs' = blobs \cup {f}
            /\ todo' = [todo EXCEPT ![w] = @ \ {f}]
            /\ Goto(w, IF todo[w] = {f} THEN "create_insert" ELSE "create_put")
    BY <1>3 DEF CreatePut, Put
  <2>2. /\ pc[w] = "create_put" /\ rows' = rows /\ row'[w] = row[w]
        /\ todo'[w] = todo[w] \ {f}
        /\ pc'[w] = IF todo[w] = {f} THEN "create_insert" ELSE "create_put"
    BY <1>3, <2>1 DEF CreatePut, Put, Goto, TypeOK
  <2> QED BY <1>1, <2>1, <2>2 DEF CreateGoesOn, CreateAt, CreateLabels
<1>4. CASE CreatePutFails(w)
  <2>1. PICK f \in todo[w] : blobs' \in {blobs, blobs \cup {f}}
    BY <1>4 DEF CreatePutFails, PutFails
  <2>2. blobs' \subseteq File
    BY <1>1, <2>1 DEF TypeOK
  <2>3. rows' = {}
    BY <1>4 DEF CreatePutFails, PutFails, CreateAt
  <2> QED BY <1>1, <1>4, <2>2, <2>3, RollbackGoesOn DEF CreatePutFails
<1>5. CASE CreateInsert(w)
  <2>1. /\ rows' = {row[w]} /\ blobs' = row[w].files /\ row'[w] = row[w]
        /\ pc'[w] = "create_notify"
    BY <1>5 DEF CreateInsert, CreateAt, Goto, TypeOK
  <2> QED BY <1>1, <2>1 DEF CreateGoesOn, CreateAt, CreateLabels
<1>6. CASE CreateInsertExists(w)
  BY <1>6 DEF CreateInsertExists, UniqueViolation, HasVersion, CreateAt
<1>7. CASE CreateInsertFails(w)
  <2>1. rows' = {} /\ blobs' = blobs
    BY <1>7, FaultFacts DEF CreateInsertFails, CreateAt
  <2> QED BY <1>1, <1>7, <2>1, RollbackGoesOn DEF CreateInsertFails
<1>8. CASE CreateNotify(w)
  BY <1>8 DEF CreateNotify, Finish, CreateAt, CreateGoesOn, TypeOK
<1>9. CASE CreateNotifyFails(w)
  <2>1. rows' = {row[w]} /\ blobs' = blobs
    BY <1>9 DEF CreateNotifyFails, CreateAt
  <2> QED BY <1>1, <1>9, <2>1, FaultFacts, RollbackGoesOn DEF CreateNotifyFails
<1>10. CASE CreateDropList(w)
  <2>1. /\ pc[w] = "create_drop_list" /\ pc'[w] = "create_drop"
        /\ doomed'[w] = doomed[w] \cap blobs
        /\ UNCHANGED <<rows, blobs, row, inserted, err>>
    BY <1>10 DEF CreateDropList, List, Goto, TypeOK
  <2> QED BY <1>1, <2>1 DEF CreateGoesOn, CreateAt, CreateLabels
<1>11. CASE CreateDrop(w)
  <2>1. blobs' = blobs \ doomed[w] /\ rows' = rows /\ pc[w] = "create_drop"
    BY <1>11, FaultFacts DEF CreateDrop, Deletable
  <2>2. blobs' = {} /\ rows' \subseteq {row[w]} /\ err[w] = "failed"
        /\ (rows' # {} => inserted[w])
    BY <2>1 DEF CreateAt
  <2>3. CASE inserted[w]
    <3>1. pc'[w] = "create_drop_row" /\ row'[w] = row[w] /\ err'[w] = err[w]
      BY <1>11, <2>3 DEF CreateDrop, Goto, TypeOK
    <3> QED BY <1>1, <2>2, <3>1 DEF CreateGoesOn, CreateAt, CreateLabels
  <2>4. CASE ~inserted[w]
    BY <1>11, <2>2, <2>4 DEF CreateDrop, Finish, CreateGoesOn, Gone, TypeOK
  <2> QED BY <2>3, <2>4
<1>12. CASE CreateDropRow(w)
  <2>1. rows' = {} /\ blobs' = {} /\ err[w] = "failed"
    BY <1>12, FaultFacts DEF CreateDropRow, CreateAt, WithoutVersion
  <2> QED BY <1>12, <2>1 DEF CreateDropRow, Finish, CreateGoesOn, Gone, TypeOK
<1> QED
  BY <1>3, <1>4, <1>5, <1>6, <1>7, <1>8, <1>9, <1>10, <1>11, <1>12, CallsAt

\* A delete of the document goes on, or leaves nothing.
LEMMA DeleteCalls ==
    ASSUME TypeOK, FailuresTakenBack, NEW w \in Writers,
           pc[w] \in {"delete_list", "delete_blobs"}, DeleteAt(w), Step(w)
    PROVE  \/ pc'[w] = "delete_blobs" /\ DeleteAt(w)'
           \/ pc'[w] = "idle" /\ Gone'
<1>1. rows = {} /\ blobs \subseteq doomed[w]
  BY DEF DeleteAt
<1>2. CASE DeleteList(w)
  <2>1. /\ pc'[w] = "delete_blobs" /\ rows' = rows /\ blobs' = blobs
        /\ doomed'[w] = doomed[w] \cap blobs
    BY <1>2 DEF DeleteList, List, Goto, TypeOK
  <2> QED BY <1>1, <2>1 DEF DeleteAt
<1>3. CASE DeleteBlobs(w)
  BY <1>1, <1>3 DEF DeleteBlobs, Finish, Gone, TypeOK
<1> QED BY <1>2, <1>3, CallsAt

\* A delete of a version goes on, or has left what the rows need and no more.
VersionGoesOn(w) ==
    /\ rows' = rows
    /\ \A r \in rows : \A f \in r.files : f \in blobs => f \in blobs'
    /\ \/ pc'[w] = "delete_version_blobs" /\ DeleteAt(w)'
       \/ pc'[w] = "idle" /\ Referenced(blobs)'

LEMMA DeleteVersionCalls ==
    ASSUME TypeOK, FailuresTakenBack, NEW w \in Writers,
           pc[w] \in {"delete_version_list", "delete_version_blobs"}, DeleteAt(w), Step(w)
    PROVE  VersionGoesOn(w)
<1>1. /\ \A r \in rows : r.files \cap doomed[w] = {}
      /\ Referenced(blobs \ doomed[w])
  BY DEF DeleteAt
<1>2. CASE DeleteVersionList(w) /\ blobs = {}
  BY <1>2 DEF DeleteVersionList, Finish, VersionGoesOn, Referenced, TypeOK
<1>3. CASE DeleteVersionList(w) /\ blobs # {}
  <2>1. /\ pc'[w] = "delete_version_blobs" /\ rows' = rows /\ blobs' = blobs
        /\ doomed'[w] = doomed[w] \cap blobs
    BY <1>3 DEF DeleteVersionList, List, Goto, TypeOK
  <2>2. Referenced(blobs \ doomed[w])'
    BY <1>1, <2>1 DEF Referenced
  <2> QED BY <1>1, <2>1, <2>2 DEF DeleteAt, VersionGoesOn
<1>4. CASE DeleteVersionBlobs(w)
  <2>1. pc'[w] = "idle" /\ rows' = rows /\ blobs' = blobs \ doomed[w]
    BY <1>4 DEF DeleteVersionBlobs, Finish, TypeOK
  <2> QED BY <1>1, <2>1 DEF VersionGoesOn, Referenced
<1> QED BY <1>2, <1>3, <1>4, CallsAt

\* The row of a version goes, and with it what no other row needs.
LEMMA RowGoes ==
    ASSUME TypeOK, NEW w \in Writers, NEW v, NEW keys, rows' = WithoutVersion(rows, v),
           blobs' = blobs, doomed'[w] = FilesWithHash(ExclusiveHashes(rows, v)),
           Referenced(blobs)
    PROVE  /\ \A r \in rows' : r.files \cap doomed'[w] = {}
           /\ Referenced(blobs \ doomed[w])'
<1>1. \A r \in rows' : r.files \cap doomed'[w] = {}
  BY ExclusiveHashesAreExclusive DEF TypeOK
<1>2. ASSUME NEW f \in blobs', f \notin doomed'[w]
      PROVE  \E r \in rows' : \E g \in r.files : g[2] = f[2]
  <2>1. f \in File /\ f[2] \in Hashes
    BY <1>2 DEF TypeOK, File
  <2>2. PICK r \in rows : \E g \in r.files : g[2] = f[2]
    BY <1>2 DEF Referenced
  <2>3. f[2] \in HashesOf(r.files)
    BY <2>2 DEF HashesOf
  <2>4. CASE r.version # v
    BY <2>2, <2>4 DEF WithoutVersion
  <2>5. CASE r.version = v
    <3>1. f[2] \notin ExclusiveHashes(rows, v)
      BY <1>2, <2>1 DEF FilesWithHash
    <3>2. PICK q \in rows : q.version # v /\ f[2] \in HashesOf(q.files)
      BY <2>1, <2>3, <2>5, <3>1 DEF ExclusiveHashes
    <3> QED BY <3>2 DEF WithoutVersion, HashesOf
  <2> QED BY <2>4, <2>5
<1> QED BY <1>1, <1>2 DEF Referenced

----------------------------------------------------------------------------
(* Steps of DocDb                                                          *)

LEMMA PromiseFails ==
    ASSUME seenDoc' = seenDoc, seenOutcome' = "failed"
    PROVE  Promise!Next
BY DEF Promise!Next, Promise!Fail

LEMMA PromiseCreates ==
    ASSUME NEW r \in Row, IsGenesis(r), seenDoc = {}, seenOutcome' = "ok",
           seenDoc' = {Shown(r)}
    PROVE  Promise!Next
<1>1. Promise!CreateDocument(r.version, r.company, r.files)
  BY DEF Promise!CreateDocument, Promise!NoVersion, NoVersion, Shown, IsGenesis
<1>2. r.files \in Promise!FileMaps \ {{}} /\ r.version \in Versions /\ r.company \in Companies
  BY DEF Row, FileMaps, IsFileMap, File, Promise!FileMaps, Promise!IsFileMap, Promise!File
<1> QED BY <1>1, <1>2 DEF Promise!Next

\* The row of w, on top of the latest version: it writes all of its files, and
\* removes the others.
LEMMA PromiseAdds ==
    ASSUME NEW w \in Writers, row[w] \in Row, OnLatest(w), seenOutcome' = "ok",
           \A d \in seenDoc : d.files \subseteq File,
           seenDoc' = seenDoc \cup {Shown(row[w])}
    PROVE  Promise!Next
<1> DEFINE r == row[w]
<1>1. PICK latest \in seenDoc :
          /\ latest.version = r.prev
          /\ \A d \in seenDoc : d.version <= latest.version /\ d.version < r.version
  BY DEF OnLatest
<1>2. /\ r.files \in Promise!FileMaps /\ r.files # {}
      /\ r.version \in Versions /\ r.company \in Companies
  BY DEF Row, FileMaps, IsFileMap, File, Promise!FileMaps, Promise!IsFileMap, Promise!File
<1>3. Promise!CarryForward(latest.files, Names, r.files) = r.files
  BY DEF Promise!CarryForward, File
<1>4. Shown(r) = [version |-> r.version, company |-> r.company, prev |-> latest.version,
                  files |-> Promise!CarryForward(latest.files, Names, r.files)]
  BY <1>1, <1>3 DEF Shown
<1>5. Shown(r).files # {} /\ Shown(r).version = r.version
  BY <1>2 DEF Shown
<1>6. Promise!IsNewest(Shown(r))
  BY <1>1, <1>5 DEF Promise!IsNewest
<1>7. Promise!AddDocumentVersion(r.version, r.company, r.files, Names)
  BY <1>1, <1>4, <1>5, <1>6 DEF Promise!AddDocumentVersion
<1> QED BY <1>2, <1>7 DEF Promise!Next

LEMMA PromiseDeletes ==
    ASSUME seenDoc # {}, seenDoc' = {}, seenOutcome' \in {"ok", "failed"}
    PROVE  Promise!Next
BY DEF Promise!Next, Promise!DeleteDocument

LEMMA PromiseDeletesVersion ==
    ASSUME NEW v \in Versions, NEW d \in seenDoc, d.version = v,
           seenDoc' = {e \in seenDoc : e.version # v}, seenOutcome' \in {"ok", "failed"}
    PROVE  Promise!Next
BY DEF Promise!Next, Promise!DeleteDocumentVersion

LEMMA PromiseSetsCompany ==
    ASSUME NEW c \in Companies, seenDoc # {}, seenOutcome' = "ok",
           seenDoc' = {[d EXCEPT !.company = c] : d \in seenDoc}
    PROVE  Promise!Next
BY DEF Promise!Next, Promise!SetDocumentCompanyID

LEMMA MergedIsPromised ==
    ASSUME NEW docs, NEW backup
    PROVE  Promise!Merged(docs, backup) = Merged(docs, backup)
BY DEF Promise!Merged, Promise!Restored, Promise!VersionsOf, Promise!Predecessor,
       Promise!NoVersion, Promise!Max, Merged, Restored, VersionsOf, Predecessor,
       NoVersion, Max

LEMMA PromiseRestores ==
    ASSUME NEW backup \in Backups, NEW recreate \in BOOLEAN,
           \/ /\ seenDoc' = Merged(IF recreate THEN {} ELSE seenDoc, backup)
              /\ seenOutcome' = "ok"
           \/ recreate /\ seenDoc' = {} /\ seenOutcome' = "failed"
    PROVE  Promise!Next
<1>1. Promise!RestoreDocument(backup, recreate)
  BY MergedIsPromised DEF Promise!RestoreDocument
<1> QED BY <1>1 DEF Promise!Next

----------------------------------------------------------------------------
(* An operation that no restore has called                                 *)

\* The step is one of an operation, and what is seen follows.
Alone(w) ==
    /\ job[w] = NoJob /\ Step(w)
    /\ IF pc'[w] = "idle"
       THEN seenDoc' = View' /\ seenOutcome' = ResultOf(err'[w])
       ELSE seenDoc' = seenDoc

\* The operation goes on, or it returns and has made a step of DocDb.
AloneGoesOn(w) ==
    \/ pc'[w] # "idle" /\ CreateAt(w)' /\ DeleteAt(w)' /\ AddAt(w)' /\ AloneAt(w)'
    \/ pc'[w] = "idle" /\ Clean' /\ Promise!Next

\* The operation fails and has changed nothing.
LEMMA AloneFails ==
    ASSUME TypeOK, NEW w \in Writers, Alone(w), Clean', ShownOf(rows') = seenDoc,
           pc'[w] = "idle", err'[w] # "ok"
    PROVE  AloneGoesOn(w)
<1>1. seenDoc' = seenDoc /\ seenOutcome' = "failed"
  BY CompleteViewNext DEF Alone, ResultOf, Clean
<1> QED BY <1>1, PromiseFails DEF AloneGoesOn

\* The rows without that of a version, as they are seen.
LEMMA ShownWithoutVersion ==
    ASSUME NEW table, NEW v
    PROVE  ShownOf(WithoutVersion(table, v)) = {d \in ShownOf(table) : d.version # v}
BY DEF ShownOf, Shown, WithoutVersion

LEMMA ShownWithCompany ==
    ASSUME NEW table, table \subseteq Row, NEW c
    PROVE  ShownOf(WithCompany(table, c)) = {[d EXCEPT !.company = c] : d \in ShownOf(table)}
<1>1. \A r \in table : Shown([r EXCEPT !.company = c]) = [Shown(r) EXCEPT !.company = c]
  BY DEF Shown, Row
<1> DEFINE moved == {[d EXCEPT !.company = c] : d \in ShownOf(table)}
<1>2. ASSUME NEW r \in table
      PROVE  Shown([r EXCEPT !.company = c]) \in moved
  BY <1>1 DEF ShownOf
<1>3. ASSUME NEW r \in table
      PROVE  [Shown(r) EXCEPT !.company = c] \in ShownOf(WithCompany(table, c))
  <2>1. [r EXCEPT !.company = c] \in WithCompany(table, c)
    BY DEF WithCompany
  <2> QED BY <1>1, <2>1 DEF ShownOf
<1>4. ShownOf(WithCompany(table, c)) \subseteq moved
  BY <1>2 DEF ShownOf, WithCompany
<1>5. moved \subseteq ShownOf(WithCompany(table, c))
  <2>1. \A d \in ShownOf(table) : \E r \in table : d = Shown(r)
    BY DEF ShownOf
  <2> QED BY <1>3, <2>1
<1> QED BY <1>4, <1>5

LEMMA AloneStarts ==
    ASSUME TableInv, FailuresTakenBack, NEW w \in Writers, pc[w] = "idle", AloneAt(w), Alone(w)
    PROVE  AloneGoesOn(w)
<1> USE DEF TableInv
<1>1. Clean /\ Complete(rows) /\ Referenced(blobs) /\ seenDoc = ShownOf(rows)
  BY DEF AloneAt, Untouched, Clean
<1>2. ASSUME UNCHANGED <<rows, blobs>>, NEW e \in Errors \ {"ok"}, Finish(w, e)
      PROVE  AloneGoesOn(w)
  <2>1. Clean' /\ ShownOf(rows') = seenDoc
    BY <1>1, <1>2 DEF Clean, Complete, Referenced
  <2> QED BY <1>2, <2>1, AloneFails DEF Finish, TypeOK
<1>3. CASE Refuse(w) \/ CreateExists(w) \/ AddNotFound(w) \/ DeleteNotFound(w)
           \/ DeleteVersionNotFound(w)
  BY <1>2, <1>3
  DEF Refuse, CreateExists, AddNotFound, DeleteNotFound, DeleteVersionNotFound, Errors
<1>4. CASE CreateBegin(w)
  <2>1. rows = {} /\ blobs = {} /\ seenDoc = {}
    BY <1>1, <1>4, CleanDocument DEF CreateBegin, DocumentExists
  <2>2. PICK v \in Versions, c \in Companies, files \in FileMaps \ {{}} :
            /\ row' = [row EXCEPT ![w] = GenesisRow(v, c, files)]
            /\ todo' = [todo EXCEPT ![w] = files]
    BY <1>4 DEF CreateBegin
  <2>3. /\ pc'[w] = "create_put" /\ rows' = {} /\ blobs' = {}
        /\ row'[w] = GenesisRow(v, c, files) /\ todo'[w] = files
    BY <1>4, <2>1, <2>2 DEF CreateBegin, Goto, TypeOK
  <2>4. GenesisRow(v, c, files) \in Row /\ IsGenesis(GenesisRow(v, c, files))
        /\ GenesisRow(v, c, files).files = files
    BY GenesisRowType DEF GenesisRow, IsGenesis
  <2>5. seenDoc' = {}
    BY <2>1, <2>3 DEF Alone
  <2> QED
    BY <2>3, <2>4, <2>5 DEF AloneGoesOn, CreateAt, DeleteAt, AddAt, AloneAt, CreateLabels
<1>5. CASE AddReadLatest(w)
  <2>1. PICK r \in rows : IsLatest(rows, r) /\ row' = [row EXCEPT ![w] = r]
    BY <1>5 DEF AddReadLatest
  <2>2. pc'[w] = "add_prepare" /\ rows' = rows /\ blobs' = blobs /\ row'[w] = r
    BY <1>5, <2>1 DEF AddReadLatest, Goto, TypeOK
  <2>3. seenDoc' = seenDoc /\ Untouched'
    BY <1>1, <2>2 DEF Alone, Untouched, Clean, Complete, Referenced
  <2> QED
    BY <2>1, <2>2, <2>3 DEF AloneGoesOn, CreateAt, DeleteAt, AddAt, AloneAt, CreateLabels
<1>6. CASE DeleteRows(w)
  <2>1. /\ pc'[w] = "delete_list" /\ rows' = {} /\ blobs' = blobs
        /\ doomed'[w] = File
    BY <1>6 DEF DeleteRows, Goto, TypeOK
  <2>2. seenDoc' = seenDoc /\ seenDoc # {}
    BY <1>1, <1>6, <2>1 DEF Alone, DeleteRows, ShownOf
  <2> QED
    BY <2>1, <2>2 DEF AloneGoesOn, CreateAt, DeleteAt, AddAt, AloneAt, CreateLabels, TypeOK
<1>7. CASE DeleteVersionRow(w)
  <2>1. PICK v \in Versions :
            /\ HasVersion(rows, v)
            /\ rows' = WithoutVersion(rows, v)
            /\ doomed' = [doomed EXCEPT ![w] = FilesWithHash(ExclusiveHashes(rows, v))]
    BY <1>7 DEF DeleteVersionRow
  <2>2. /\ pc'[w] = "delete_version_list" /\ blobs' = blobs
        /\ doomed'[w] = FilesWithHash(ExclusiveHashes(rows, v))
    BY <1>7, <2>1 DEF DeleteVersionRow, Goto, TypeOK
  <2>3. /\ \A r \in rows' : r.files \cap doomed'[w] = {}
        /\ Referenced(blobs \ doomed[w])'
    BY <1>1, <2>1, <2>2, RowGoes
  <2>4. Complete(rows)'
    BY <1>1, <2>1, <2>2 DEF Complete, WithoutVersion
  <2>5. seenDoc' = seenDoc /\ ShownOf(rows') = {d \in seenDoc : d.version # v}
    BY <1>1, <2>1, <2>2, ShownWithoutVersion DEF Alone
  <2>6. \E d \in seenDoc : d.version = v
    <3>1. PICK r \in rows : r.version = v
      BY <2>1 DEF HasVersion
    <3>2. Shown(r) \in seenDoc /\ Shown(r).version = v
      BY <1>1, <3>1 DEF ShownOf, Shown
    <3> QED BY <3>2
  <2> QED
    BY <2>2, <2>3, <2>4, <2>5, <2>6
    DEF AloneGoesOn, CreateAt, DeleteAt, AddAt, AloneAt, CreateLabels
<1>8. CASE SetCompany(w)
  <2>1. CASE rows = {}
    BY <1>2, <1>8, <2>1 DEF SetCompany, Errors
  <2>2. CASE rows # {}
    <3>1. PICK c \in Companies : rows' = WithCompany(rows, c)
      BY <1>8, <2>2 DEF SetCompany
    <3>2. pc'[w] = "idle" /\ err'[w] = "ok" /\ blobs' = blobs
      BY <1>8, <2>2 DEF SetCompany, Finish, TypeOK
    <3>3. \A r \in rows : [r EXCEPT !.company = c].files = r.files
      BY DEF TypeOK, Row
    <3>4. Clean'
      <4>1. Complete(rows)'
        BY <1>1, <3>1, <3>2, <3>3 DEF Complete, WithCompany
      <4>2. \A r \in rows : \E q \in rows' : q.files = r.files
        BY <3>1, <3>3 DEF WithCompany
      <4>3. Referenced(blobs)'
        BY <1>1, <3>2, <4>2 DEF Referenced
      <4> QED BY <4>1, <4>3 DEF Clean
    <3>5. /\ seenDoc' = {[d EXCEPT !.company = c] : d \in seenDoc}
          /\ seenOutcome' = "ok"
      BY <1>1, <3>1, <3>2, <3>4, CompleteViewNext, ShownWithCompany
      DEF Alone, Clean, ResultOf, TypeOK
    <3>6. seenDoc # {}
      BY <1>1, <2>2 DEF ShownOf
    <3> QED BY <3>2, <3>4, <3>5, <3>6, PromiseSetsCompany DEF AloneGoesOn
  <2> QED BY <2>1, <2>2
<1> QED
  BY <1>3, <1>4, <1>5, <1>6, <1>7, <1>8, CallsAt DEF Alone

LEMMA AloneCreates ==
    ASSUME TableInv, FailuresTakenBack, NEW w \in Writers, pc[w] \in CreateLabels,
           CreateAt(w), AloneAt(w), Alone(w)
    PROVE  AloneGoesOn(w)
<1>1. CreateGoesOn(w) /\ seenDoc = {} /\ row[w] \in Row /\ IsGenesis(row[w])
  BY CreateCalls DEF TableInv, Alone, CreateAt, AloneAt, CreateLabels
<1>2. CASE pc'[w] \in CreateLabels /\ CreateAt(w)'
  <2>1. pc'[w] # "idle" /\ seenDoc' = {}
    BY <1>1, <1>2 DEF Alone, CreateLabels
  <2> QED
    BY <1>2, <2>1 DEF AloneGoesOn, DeleteAt, AddAt, AloneAt, CreateLabels
<1>3. CASE /\ pc'[w] = "idle" /\ err'[w] = "ok"
           /\ rows' = {row[w]} /\ blobs' = row[w].files
  <2>1. Clean' /\ ShownOf(rows') = {Shown(row[w])}
    BY <1>3 DEF Clean, Complete, Referenced, ShownOf
  <2>2. seenDoc' = {Shown(row[w])} /\ seenOutcome' = "ok"
    BY <1>3, <2>1, CompleteViewNext DEF Alone, ResultOf, Clean
  <2> QED BY <1>1, <1>3, <2>1, <2>2, PromiseCreates DEF AloneGoesOn
<1>4. CASE pc'[w] = "idle" /\ err'[w] = "failed" /\ Gone'
  BY <1>1, <1>4, NothingShown, AloneFails DEF TableInv
<1> QED BY <1>1, <1>2, <1>3, <1>4 DEF CreateGoesOn

LEMMA AloneDeletes ==
    ASSUME TableInv, FailuresTakenBack, NEW w \in Writers,
           pc[w] \in {"delete_list", "delete_blobs"}, DeleteAt(w), AloneAt(w), Alone(w)
    PROVE  AloneGoesOn(w)
<1>1. seenDoc # {}
  BY DEF AloneAt
<1>2. \/ pc'[w] = "delete_blobs" /\ DeleteAt(w)'
      \/ pc'[w] = "idle" /\ Gone'
  BY DeleteCalls DEF TableInv, Alone
<1>3. CASE pc'[w] = "delete_blobs" /\ DeleteAt(w)'
  <2>1. seenDoc' # {}
    BY <1>1, <1>3 DEF Alone
  <2> QED
    BY <1>3, <2>1 DEF AloneGoesOn, CreateAt, AddAt, AloneAt, CreateLabels
<1>4. CASE pc'[w] = "idle" /\ Gone'
  BY <1>1, <1>4, NothingShown, PromiseDeletes DEF AloneGoesOn, Alone, ResultOf
<1> QED BY <1>2, <1>3, <1>4

LEMMA AloneDeletesVersion ==
    ASSUME TableInv, FailuresTakenBack, NEW w \in Writers,
           pc[w] \in {"delete_version_list", "delete_version_blobs"},
           DeleteAt(w), AloneAt(w), Alone(w)
    PROVE  AloneGoesOn(w)
<1>1. PICK v \in Versions : /\ \E d \in seenDoc : d.version = v
                            /\ ShownOf(rows) = {d \in seenDoc : d.version # v}
  BY DEF AloneAt
<1>2. VersionGoesOn(w) /\ rows' = rows
  BY DeleteVersionCalls DEF TableInv, Alone, VersionGoesOn
<1>3. Complete(rows)'
  BY <1>2 DEF AloneAt, Complete, VersionGoesOn
<1>4. CASE pc'[w] = "delete_version_blobs" /\ DeleteAt(w)'
  <2>1. seenDoc' = seenDoc
    BY <1>4 DEF Alone
  <2> QED
    BY <1>1, <1>2, <1>3, <1>4, <2>1 DEF AloneGoesOn, CreateAt, AddAt, AloneAt, CreateLabels
<1>5. CASE pc'[w] = "idle" /\ Referenced(blobs)'
  <2>1. seenDoc' = {d \in seenDoc : d.version # v} /\ seenOutcome' \in {"ok", "failed"}
    BY <1>1, <1>2, <1>3, <1>5, CompleteViewNext DEF Alone, ResultOf
  <2> QED BY <1>1, <1>3, <1>5, <2>1, PromiseDeletesVersion DEF AloneGoesOn, Clean
<1> QED BY <1>2, <1>4, <1>5 DEF VersionGoesOn

LEMMA AloneAdds ==
    ASSUME TableInv, FailuresTakenBack, NEW w \in Writers, pc[w] \in AddLabels,
           AddAt(w), DeleteAt(w), Alone(w)
    PROVE  AloneGoesOn(w)
<1> USE DEF TableInv
<1> DEFINE r == row[w]
           others == rows \ {r}
           Undoing == /\ r \in Row /\ OnLatest(w) /\ r \in rows
                      /\ seenDoc = ShownOf(others) /\ Complete(others) /\ Referenced(blobs)
\* The row and what was seen stay as they are up to the next call.
<1>1. ASSUME pc'[w] # "idle", row'[w] = r, OnLatest(w)
      PROVE  OnLatest(w)' /\ seenDoc' = seenDoc
  BY <1>1 DEF Alone, OnLatest
<1>2. ASSUME pc'[w] \in AddLabels, AddAt(w)',
             pc'[w] \in {"add_undo_list", "add_undo_blobs"} => DeleteAt(w)'
      PROVE  AloneGoesOn(w)
  BY <1>2
  DEF AloneGoesOn, CreateAt, DeleteAt, AloneAt, AddLabels, CreateLabels
<1>3. pc[w] \in {"add_put", "add_notify", "add_undo_row"} => Undoing
  BY DEF AddAt
<1>4. CASE AddRefused(w) \/ AddInsertExists(w) \/ AddInsertFails(w)
  <2>1. /\ UNCHANGED <<rows, blobs>> /\ pc[w] \in {"add_prepare", "add_insert"}
        /\ pc'[w] = "idle" /\ err'[w] # "ok"
    BY <1>4, FaultFacts DEF AddRefused, AddInsertExists, AddInsertFails, Finish, TypeOK
  <2>2. Clean' /\ ShownOf(rows') = seenDoc
    BY <2>1 DEF AddAt, Untouched, Clean, Complete, Referenced
  <2> QED BY <2>1, <2>2, AloneFails
<1>5. CASE AddPrepare(w)
  <2>1. PICK v \in Versions, c \in Companies, written \in FileMaps, removed \in SUBSET Names :
            LET keys == ProviderKeys(blobs, HashesOf(r.files))
            IN /\ Acceptable(r, v, written, removed)
               /\ row' = [row EXCEPT ![w] = NextRow(r, keys, v, c, written, removed)]
               /\ todo' = [todo EXCEPT ![w] = written]
    BY <1>5 DEF AddPrepare
  <2>2. /\ Untouched /\ r \in rows /\ IsLatest(rows, r) /\ r \in Row
        /\ pc'[w] = "add_insert" /\ rows' = rows /\ blobs' = blobs /\ todo'[w] = written
    BY <1>5, <2>1 DEF AddPrepare, AddAt, Goto, TypeOK
  <2>3. PICK keys : row'[w] = NextRow(r, keys, v, c, written, removed)
    BY <2>1 DEF TypeOK
  <2>4. /\ row'[w] \in Row /\ row'[w].prev = r.version /\ row'[w].version = v
        /\ row'[w].files = CarryForward(r.files, removed, written)
        /\ v > r.version
    <3>1. Acceptable(r, v, written, removed)
      BY <2>1
    <3>2. NextRow(r, keys, v, c, written, removed) \in Row
      BY <2>2, <3>1, NextRowType
    <3>3. LET n == NextRow(r, keys, v, c, written, removed)
          IN /\ n.prev = r.version /\ n.version = v
             /\ n.files = CarryForward(r.files, removed, written)
      BY DEF NextRow
    <3>4. v > r.version
      BY <3>1 DEF Acceptable
    <3> QED BY <2>3, <3>2, <3>3, <3>4
  <2>5. written \subseteq row'[w].files /\ row'[w].files \subseteq blobs \cup written
    BY <2>2, <2>4 DEF CarryForward, Untouched, Clean, Complete
  <2>6. seenDoc' = seenDoc /\ Untouched'
    BY <2>2 DEF Alone, Untouched, Clean, Complete, Referenced
  <2>7. OnLatest(w)'
    <3>1. Shown(r) \in seenDoc /\ Shown(r).version = r.version
      BY <2>2 DEF Untouched, ShownOf, Shown
    <3>2. \A q \in rows : q.version \in Nat /\ q.version <= r.version /\ q.version < v
      <4>1. v \in Nat /\ r.version \in Nat /\ v > r.version
        BY <2>2, <2>4, VersionsAssumption DEF Row
      <4>2. \A q \in rows : q.version \in Nat /\ q.version <= r.version
        BY <2>2, VersionsAssumption DEF IsLatest, TypeOK, Row
      <4> QED BY <4>1, <4>2
    <3>3. \A d \in seenDoc : d.version <= r.version /\ d.version < v
      BY <2>2, <3>2 DEF Untouched, ShownOf, Shown
    <3> QED BY <2>4, <2>6, <3>1, <3>3 DEF OnLatest
  <2> QED BY <1>2, <2>2, <2>4, <2>5, <2>6, <2>7 DEF AddAt, AddLabels
<1>6. CASE AddInsert(w)
  <2>1. /\ pc[w] = "add_insert" /\ Untouched /\ r \in Row /\ OnLatest(w)
        /\ todo[w] \subseteq r.files /\ r.files \subseteq blobs \cup todo[w]
    BY <1>6 DEF AddInsert, AddAt
  <2>2. /\ r \notin rows /\ rows' = rows \cup {r} /\ blobs' = blobs
        /\ row'[w] = r /\ todo'[w] = todo[w]
        /\ pc'[w] = IF todo[w] = {} THEN "add_notify" ELSE "add_put"
    BY <1>6 DEF AddInsert, UniqueViolation, HasVersion, Goto, TypeOK
  <2>3. rows' \ {row'[w]} = rows /\ Complete(rows)
    BY <2>1, <2>2 DEF Untouched, Clean
  <2>4. Complete(rows' \ {row'[w]})
    BY <2>3
  <2>5. Complete(rows \ {row[w]})'
    BY <2>2, <2>4 DEF Complete
  <2>6. Referenced(blobs)'
    BY <2>1, <2>2 DEF Untouched, Clean, Referenced
  <2>7. OnLatest(w)' /\ seenDoc' = ShownOf(rows' \ {row'[w]})
    BY <1>1, <2>1, <2>2, <2>3 DEF Untouched
  <2> QED BY <1>2, <2>1, <2>2, <2>5, <2>6, <2>7 DEF AddAt, AddLabels
<1>7. ASSUME NEW f \in r.files, blobs' \in {blobs, blobs \cup {f}}, rows' = rows,
             row'[w] = r, Undoing
      PROVE  Complete(rows \ {row[w]})' /\ Referenced(blobs)'
  BY <1>7 DEF Complete, Referenced
<1>8. CASE AddPut(w)
  <2>1. PICK f \in todo[w] :
            /\ blobs' = blobs \cup {f}
            /\ todo' = [todo EXCEPT ![w] = @ \ {f}]
            /\ Goto(w, IF todo[w] = {f} THEN "add_notify" ELSE "add_put")
    BY <1>8 DEF AddPut, Put
  <2>2. /\ pc[w] = "add_put" /\ rows' = rows /\ row'[w] = r /\ todo'[w] = todo[w] \ {f}
        /\ pc'[w] = IF todo[w] = {f} THEN "add_notify" ELSE "add_put"
    BY <1>8, <2>1 DEF AddPut, Put, Goto, TypeOK
  <2>3. f \in r.files /\ todo[w] \subseteq r.files /\ r.files \subseteq blobs \cup todo[w]
    BY <2>1, <2>2 DEF AddAt
  <2>4. Complete(rows \ {row[w]})' /\ Referenced(blobs)'
    BY <1>3, <1>7, <2>1, <2>2, <2>3
  <2>5. OnLatest(w)' /\ seenDoc' = seenDoc
    BY <1>1, <1>3, <2>2
  <2> QED BY <1>2, <1>3, <2>1, <2>2, <2>3, <2>4, <2>5 DEF AddAt, AddLabels
<1>9. CASE AddPutFails(w) \/ AddNotifyFails(w)
  <2>1. /\ pc[w] \in {"add_put", "add_notify"} /\ rows' = rows /\ row'[w] = r
        /\ pc'[w] = "add_undo_row"
    BY <1>9 DEF AddPutFails, PutFails, AddNotifyFails, AddUndo, Goto, TypeOK
  <2>2. PICK f \in r.files : blobs' \in {blobs, blobs \cup {f}}
    <3>1. CASE AddPutFails(w)
      BY <3>1 DEF AddPutFails, PutFails, AddAt
    <3>2. CASE AddNotifyFails(w)
      BY <1>3, <2>1, <3>2 DEF AddNotifyFails, Row
    <3> QED BY <1>9, <3>1, <3>2
  <2>3. Complete(rows \ {row[w]})' /\ Referenced(blobs)'
    BY <1>3, <1>7, <2>1, <2>2
  <2>4. OnLatest(w)' /\ seenDoc' = seenDoc
    BY <1>1, <1>3, <2>1
  <2> QED BY <1>2, <1>3, <2>1, <2>3, <2>4 DEF AddAt, AddLabels
<1>10. CASE AddNotify(w)
  <2>1. /\ Undoing /\ r.files \subseteq blobs /\ rows' = rows /\ blobs' = blobs
        /\ pc'[w] = "idle" /\ err'[w] = "ok"
    BY <1>3, <1>10 DEF AddNotify, Finish, AddAt, TypeOK
  <2>2. Clean'
    BY <2>1 DEF Clean, Complete, Referenced
  <2>3. seenDoc' = ShownOf(rows) /\ seenOutcome' = "ok"
    BY <2>1, <2>2, CompleteViewNext DEF Alone, ResultOf, Clean
  <2>4. seenDoc' = seenDoc \cup {Shown(r)}
    BY <2>1, <2>3 DEF ShownOf
  <2>5. \A d \in seenDoc : d.files \subseteq File
    BY <2>1 DEF ShownOf, Shown, TypeOK, Row, FileMaps
  <2> QED BY <2>1, <2>2, <2>3, <2>4, <2>5, PromiseAdds DEF AloneGoesOn
<1>11. CASE AddUndoRow(w)
  <2>1. Undoing /\ blobs' = blobs /\ rows' = WithoutVersion(rows, r.version)
    BY <1>3, <1>11 DEF AddUndoRow
  <2>2. rows' = others
    BY <2>1 DEF WithoutVersion, TableConsistent
  <2>3. Complete(rows)' /\ seenDoc = ShownOf(rows')
    BY <2>1, <2>2 DEF Complete
  <2>4. doomed'[w] = FilesWithHash(ExclusiveHashes(rows, r.version))
    BY <1>11 DEF AddUndoRow, Finish, FilesWithHash, TypeOK
  <2>5. /\ \A q \in rows' : q.files \cap doomed'[w] = {}
        /\ Referenced(blobs \ doomed[w])'
    BY <2>1, <2>4, RowGoes
  <2>6. CASE ExclusiveHashes(rows, r.version) = {}
    <3>1. pc'[w] = "idle" /\ err'[w] # "ok" /\ doomed'[w] = {}
      BY <1>11, <2>6 DEF AddUndoRow, Finish, TypeOK
    <3>2. Referenced(blobs)'
      BY <2>5, <3>1 DEF Referenced
    <3> QED BY <2>3, <3>1, <3>2, AloneFails DEF Clean
  <2>7. CASE ExclusiveHashes(rows, r.version) # {}
    <3>1. pc'[w] = "add_undo_list"
      BY <1>11, <2>7 DEF AddUndoRow, Goto, TypeOK
    <3>2. seenDoc' = seenDoc
      BY <3>1 DEF Alone
    <3> QED BY <1>2, <2>3, <2>5, <3>1, <3>2 DEF AddAt, DeleteAt, AddLabels
  <2> QED BY <2>6, <2>7
<1>12. CASE AddUndoRowFails(w)
  BY <1>3, <1>12, FaultFacts DEF AddUndoRowFails, HasVersion
<1>13. CASE AddUndoList(w)
  <2>1. /\ pc[w] = "add_undo_list" /\ pc'[w] = "add_undo_blobs"
        /\ rows' = rows /\ blobs' = blobs /\ doomed'[w] = doomed[w] \cap blobs
    BY <1>13 DEF AddUndoList, List, Goto, TypeOK
  <2>2. Complete(rows)' /\ seenDoc' = ShownOf(rows')
    BY <2>1 DEF AddAt, Complete, Alone
  <2>3. Referenced(blobs \ doomed[w])' /\ \A q \in rows' : q.files \cap doomed'[w] = {}
    BY <2>1 DEF DeleteAt, Referenced
  <2> QED BY <1>2, <2>1, <2>2, <2>3 DEF AddAt, DeleteAt, AddLabels
<1>14. CASE AddUndoBlobs(w)
  <2>1. /\ pc[w] = "add_undo_blobs" /\ pc'[w] = "idle" /\ err'[w] # "ok"
        /\ rows' = rows /\ blobs' = blobs \ doomed[w]
    BY <1>14, FaultFacts DEF AddUndoBlobs, Deletable, Finish, TypeOK
  <2>2. Clean' /\ ShownOf(rows') = seenDoc
    BY <2>1 DEF AddAt, DeleteAt, Clean, Complete, Referenced
  <2> QED BY <2>1, <2>2, AloneFails
<1> QED
  BY <1>4, <1>5, <1>6, <1>8, <1>9, <1>10, <1>11, <1>12, <1>13, <1>14, CallsAt DEF Alone

\* A step of an operation that no restore has called.
LEMMA AloneWhole ==
    ASSUME TableInv, FailuresTakenBack, NEW w \in Writers, WholeAt(w), Alone(w)
    PROVE  AloneGoesOn(w)
<1>1. CreateAt(w) /\ DeleteAt(w) /\ AddAt(w) /\ AloneAt(w)
  BY DEF WholeAt, Alone
<1>2. pc[w] \in Labels
  BY DEF TableInv, TypeOK
<1> QED
  BY <1>1, <1>2, AloneStarts, AloneCreates, AloneDeletes, AloneDeletesVersion, AloneAdds
  DEF Labels, DeleteLabels

----------------------------------------------------------------------------
(* A restore                                                               *)

\* What a restore is to leave when it returns.
RestoresWell(w) ==
    IF err'[w] = "ok"
    THEN View' = Merged(IF job[w].recreate THEN {} ELSE seenDoc, job[w].backup)
    ELSE \/ View' = seenDoc
         \/ job[w].recreate /\ View' = {}

\* A restore is running, and nothing is seen of its step unless it returns.
InJob(w) ==
    /\ job[w] \in Job
    /\ CreateAt(w) /\ DeleteAt(w) /\ JobAt(w)
    /\ job'[w] # NoJob => seenDoc' = seenDoc

JobGoesOn(w) ==
    \/ job'[w] # NoJob /\ CreateAt(w)' /\ DeleteAt(w)' /\ JobAt(w)'
    \/ job'[w] = NoJob /\ pc'[w] = "idle" /\ Clean' /\ RestoresWell(w)

\* Between two calls of operations, only the restore itself has something to keep.
LEMMA IdleCalls ==
    ASSUME NEW w \in Writers, pc'[w] = "idle"
    PROVE  CreateAt(w)' /\ DeleteAt(w)'
BY DEF CreateAt, DeleteAt, CreateLabels

LEMMA JobIsNotNone ==
    ASSUME NEW w \in Writers, job'[w].at # "none"
    PROVE  job'[w] # NoJob
BY DEF NoJob

\* The restore goes on to another call, and has the same to remember.
LEMMA GotoJobFields ==
    ASSUME JobOK, NEW w \in Writers, job[w] \in Job, NEW label, GotoJob(w, label)
    PROVE  job'[w] = [job[w] EXCEPT !.at = label]
BY DEF GotoJob, JobOK

\* It returns with what is there.
LEMMA JobReturns ==
    ASSUME TypeOK, JobOK, NEW w \in Writers, NEW e, Return(w, e), UNCHANGED <<rows, blobs>>, Clean,
           IF e = "ok"
           THEN ShownOf(rows) = Merged(IF job[w].recreate THEN {} ELSE seenDoc, job[w].backup)
           ELSE ShownOf(rows) = seenDoc \/ (job[w].recreate /\ ShownOf(rows) = {})
    PROVE  JobGoesOn(w)
<1>1. pc'[w] = "idle" /\ err'[w] = e /\ job'[w] = NoJob
  BY DEF Return, Finish, TypeOK, JobOK
<1>2. Clean' /\ ShownOf(rows') = ShownOf(rows)
  BY DEF Clean, Complete, Referenced
<1>3. View' = ShownOf(rows)
  BY <1>2, CompleteViewNext DEF Clean
<1> QED BY <1>1, <1>2, <1>3 DEF JobGoesOn, RestoresWell

LEMMA JobFailsEarly ==
    ASSUME RestoreInv, FailuresTakenBack, NEW w \in Writers, InJob(w),
           RestoreCallFails(w) \/ RestoreCompany(w) \/ RestoreVersions(w)
    PROVE  JobGoesOn(w)
<1> USE DEF RestoreInv, TableInv
<1> DEFINE j == job[w]
<1>1. /\ pc[w] = "idle" /\ j.at \in {"delete", "company", "versions"} /\ Untouched
      /\ j.left = VersionsOf(j.backup) /\ j.created = {} /\ ~j.fresh
      /\ j.at \in {"company", "versions"} => ~j.recreate /\ j.exists
  BY DEF RestoreCallFails, RestoreCompany, RestoreVersions, At, InJob, JobAt, StartAt
<1>2. ASSUME NEW e, e # "ok", Return(w, e), UNCHANGED <<rows, blobs>>
      PROVE  JobGoesOn(w)
  BY <1>1, <1>2, JobReturns DEF Untouched
<1>3. CASE UNCHANGED vars /\ GotoJob(w, "versions") /\ j.at = "company"
  <2>1. job'[w] = [j EXCEPT !.at = "versions"]
    BY <1>3, GotoJobFields DEF InJob
  <2>2. /\ job'[w].at = "versions" /\ job'[w].backup = j.backup /\ job'[w].left = j.left
        /\ job'[w].created = j.created /\ job'[w].fresh = j.fresh
        /\ job'[w].recreate = j.recreate /\ job'[w].exists = j.exists
    BY <2>1 DEF InJob, Job
  <2>3. seenDoc' = seenDoc /\ job'[w] # NoJob /\ pc'[w] = "idle"
    BY <1>1, <1>3, <2>2, JobIsNotNone DEF InJob, vars, locals
  <2>4. Untouched'
    BY <1>1, <1>3, <2>3 DEF Untouched, Clean, Complete, Referenced, vars
  <2>5. JobAt(w)'
    BY <1>1, <1>3, <2>2, <2>3, <2>4 DEF JobAt, StartAt, ProgressAt, UndoAt
  <2> QED BY <2>3, <2>5, IdleCalls DEF JobGoesOn
<1>4. CASE RestoreVersions(w) /\ rows # {}
  <2> DEFINE rest == {v \in j.left : ~HasVersion(rows, v)}
  <2>1. job' = [job EXCEPT ![w].at = "loop", ![w].left = rest] /\ UNCHANGED vars
    BY <1>4 DEF RestoreVersions
  <2>2. /\ job'[w].at = "loop" /\ job'[w].backup = j.backup /\ job'[w].left = rest
        /\ job'[w].created = j.created /\ job'[w].fresh = j.fresh
        /\ job'[w].recreate = j.recreate /\ job'[w].exists = j.exists
    BY <2>1 DEF InJob, JobOK, Job
  <2>3. seenDoc' = seenDoc /\ job'[w] # NoJob /\ pc'[w] = "idle"
    BY <1>1, <2>1, <2>2, JobIsNotNone DEF InJob, vars, locals
  <2>4. j.exists /\ ~j.recreate /\ ~j.fresh
    BY <1>1, <1>4 DEF RestoreVersions, At
  <2>5. Base(w)' = seenDoc
    BY <2>2, <2>3, <2>4 DEF Base
  <2>6. \A v : v \in BaseVersions(w)' <=> HasVersion(rows, v)
    <3>1. BaseVersions(w)' = {d.version : d \in seenDoc}
      BY <2>5 DEF BaseVersions
    <3>2. seenDoc = ShownOf(rows)
      BY <1>1 DEF Untouched
    <3>3. \A r \in rows : Shown(r) \in seenDoc /\ Shown(r).version = r.version
      BY <3>2 DEF ShownOf, Shown
    <3>4. \A d \in seenDoc : \E r \in rows : d.version = r.version
      BY <3>2 DEF ShownOf, Shown
    <3> QED BY <3>1, <3>3, <3>4 DEF HasVersion
  <2>7. Inserted(w)' = {}
    BY <1>1, <2>2, <2>6 DEF Inserted
  <2>8. Clean' /\ rows' = rows
    BY <1>1, <2>1 DEF Untouched, Clean, Complete, Referenced, vars
  <2>9. ProgressAt(w)'
    <3>1. ShownOf(rows') = Base(w)' \cup {RestoredAs(job'[w].backup, u) : u \in Inserted(w)'}
      BY <1>1, <2>5, <2>7, <2>8 DEF Untouched
    <3>2. job'[w].left \cap BaseVersions(w)' = {}
      BY <2>2, <2>6
    <3>3. job'[w].created = Inserted(w)' /\ ~job'[w].fresh
      BY <1>1, <2>2, <2>7
    <3> QED
      BY <1>1, <2>2, <2>8, <3>1, <3>2, <3>3 DEF ProgressAt
  <2>10. JobAt(w)'
    BY <2>2, <2>3, <2>4, <2>5, <2>9 DEF JobAt, StartAt, UndoAt
  <2> QED BY <2>3, <2>10, IdleCalls DEF JobGoesOn
<1> QED
  BY <1>2, <1>3, <1>4 DEF RestoreCallFails, RestoreCompany, RestoreVersions, At

LEMMA JobBegins ==
    ASSUME RestoreInv, NEW w \in Writers, Untouched, RestoreBegin(w),
           job'[w] # NoJob => seenDoc' = seenDoc
    PROVE  job'[w] # NoJob /\ CreateAt(w)' /\ DeleteAt(w)' /\ JobAt(w)'
<1> USE DEF RestoreInv, TableInv
<1>1. PICK backup \in Backups, recreate \in BOOLEAN :
        job' = [job EXCEPT ![w] =
            [backup |-> backup, recreate |-> recreate, left |-> VersionsOf(backup),
             exists |-> DocumentExists(blobs), fresh |-> FALSE, created |-> {},
             cause |-> "ok",
             at |-> IF ~DocumentExists(blobs) THEN "loop"
                    ELSE IF recreate THEN "delete" ELSE "company"]]
  BY DEF RestoreBegin, RestoreOf
<1>2. /\ job'[w].backup = backup /\ job'[w].recreate = recreate
      /\ job'[w].left = VersionsOf(backup) /\ job'[w].exists = (blobs # {})
      /\ ~job'[w].fresh /\ job'[w].created = {}
      /\ job'[w].at = IF ~(blobs # {}) THEN "loop"
                      ELSE IF recreate THEN "delete" ELSE "company"
  BY <1>1 DEF JobOK, DocumentExists
<1>3. job'[w] # NoJob /\ seenDoc' = seenDoc /\ UNCHANGED vars /\ pc'[w] = "idle"
  BY <1>2, JobIsNotNone DEF RestoreBegin, RestoreOf, At, vars, locals
<1>4. Untouched'
  BY <1>3 DEF Untouched, Clean, Complete, Referenced, vars
<1>5. CASE blobs # {}
  <2>1. JobAt(w)'
    BY <1>2, <1>3, <1>4, <1>5 DEF JobAt, StartAt, ProgressAt, UndoAt
  <2> QED BY <1>3, <2>1, IdleCalls
<1>6. CASE blobs = {}
  <2>1. Gone' /\ seenDoc' = {}
    BY <1>3, <1>6, CleanDocument DEF Untouched, Gone, vars
  <2>2. Base(w)' = {}
    BY <1>2, <1>6 DEF Base
  <2>3. JobAt(w)'
    BY <1>2, <1>3, <1>6, <2>1, <2>2 DEF JobAt, StartAt, ProgressAt, UndoAt
  <2> QED BY <1>3, <2>3, IdleCalls
<1> QED BY <1>5, <1>6

\* With recreate, the document is deleted before anything is restored.
LEMMA JobDeletes ==
    ASSUME RestoreInv, FailuresTakenBack, NEW w \in Writers, InJob(w), RestoreDelete(w)
    PROVE  JobGoesOn(w)
<1> USE DEF RestoreInv, TableInv
<1> DEFINE j == job[w]
<1>1. /\ pc[w] = "idle" /\ j.at = "delete" /\ Untouched /\ j.recreate
      /\ j.left = VersionsOf(j.backup) /\ j.created = {} /\ ~j.fresh
  BY DEF RestoreDelete, At, InJob, JobAt, StartAt
<1>2. job'[w] = [j EXCEPT !.at = "deleting"]
  BY GotoJobFields DEF RestoreDelete, InJob
<1>3. /\ job'[w].at = "deleting" /\ job'[w].backup = j.backup /\ job'[w].left = j.left
      /\ job'[w].created = j.created /\ job'[w].fresh = j.fresh
      /\ job'[w].recreate = j.recreate
  BY <1>2 DEF InJob, Job
<1>4. seenDoc' = seenDoc /\ job'[w] # NoJob
  BY <1>3, JobIsNotNone DEF InJob
<1>5. CASE DeleteRows(w)
  <2>1. pc'[w] = "delete_list" /\ rows' = {} /\ blobs' = blobs /\ doomed'[w] = File
    BY <1>5 DEF DeleteRows, Goto, TypeOK
  <2>2. DeleteAt(w)' /\ CreateAt(w)'
    BY <2>1 DEF DeleteAt, CreateAt, CreateLabels, TypeOK
  <2>3. JobAt(w)'
    BY <1>1, <1>3, <2>1 DEF JobAt, StartAt, ProgressAt, UndoAt, CalledFrom
  <2> QED BY <1>4, <2>2, <2>3 DEF JobGoesOn
<1>6. CASE DeleteNotFound(w)
  <2>1. pc'[w] = "idle" /\ rows' = {} /\ blobs' = blobs /\ rows = {}
    BY <1>6 DEF DeleteNotFound, Finish, TypeOK
  <2>2. Gone'
    BY <1>1, <2>1, CleanDocument DEF Untouched, Gone
  <2>3. JobAt(w)'
    BY <1>1, <1>3, <2>1, <2>2 DEF JobAt, StartAt, ProgressAt, UndoAt
  <2> QED BY <1>4, <2>1, <2>3, IdleCalls DEF JobGoesOn
<1> QED BY <1>5, <1>6 DEF RestoreDelete

LEMMA JobDeleted ==
    ASSUME RestoreInv, FailuresTakenBack, NEW w \in Writers, InJob(w), RestoreDeleted(w)
    PROVE  JobGoesOn(w)
<1> USE DEF RestoreInv, TableInv
<1> DEFINE j == job[w]
<1>1. /\ pc[w] = "idle" /\ j.at = "deleting" /\ Gone /\ j.recreate
      /\ j.left = VersionsOf(j.backup) /\ j.created = {} /\ ~j.fresh
  BY DEF RestoreDeleted, At, InJob, JobAt, StartAt
<1>2. Clean /\ ShownOf(rows) = {}
  BY <1>1 DEF Gone, Clean, Complete, Referenced, ShownOf
<1>3. CASE err[w] = "ok"
  <2>1. job' = [job EXCEPT ![w].at = "loop", ![w].exists = FALSE] /\ UNCHANGED vars
    BY <1>3 DEF RestoreDeleted
  <2>2. /\ job'[w].at = "loop" /\ job'[w].backup = j.backup /\ job'[w].left = j.left
        /\ job'[w].created = j.created /\ job'[w].fresh = j.fresh
        /\ job'[w].recreate = j.recreate /\ ~job'[w].exists
    BY <2>1 DEF InJob, JobOK, Job
  <2>3. job'[w] # NoJob /\ pc'[w] = "idle" /\ Gone'
    BY <1>1, <2>1, <2>2, JobIsNotNone DEF vars, locals, Gone
  <2>4. JobAt(w)'
    BY <1>1, <2>2, <2>3 DEF JobAt, StartAt, ProgressAt, UndoAt
  <2> QED BY <2>3, <2>4, IdleCalls DEF JobGoesOn
<1>4. CASE err[w] # "ok"
  BY <1>1, <1>2, <1>4, JobReturns DEF RestoreDeleted
<1> QED BY <1>3, <1>4

\* What CreateDocument writes for a restore is the first version of the backup.
LEMMA FirstIsGenesis ==
    ASSUME JobOK, NEW w \in Writers, job[w] \in Job, job[w].left # {},
           job[w].left = VersionsOf(job[w].backup)
    PROVE  LET backup == job[w].backup
               v == Min(job[w].left)
           IN Shown(GenesisRow(v, backup.company, backup.files[v])) = RestoredAs(backup, v)
<1> DEFINE backup == job[w].backup
           v == Min(job[w].left)
<1>1. job[w].left \subseteq Nat
  BY VersionsAssumption DEF Job
<1>2. \A u \in VersionsOf(backup) : u \in Nat /\ v \in Nat /\ v <= u
  BY <1>1, MinOfNaturals
<1>3. {u \in VersionsOf(backup) : u < v} = {}
  BY <1>2
<1>4. Predecessor(backup, v) = NoVersion
  BY <1>3 DEF Predecessor
<1> QED BY <1>4 DEF Shown, GenesisRow, RestoredAs

\* The first version of an absent document goes through CreateDocument.
LEMMA JobCreates ==
    ASSUME RestoreInv, FailuresTakenBack, NEW w \in Writers, InJob(w), RestoreCreate(w)
    PROVE  JobGoesOn(w)
<1> USE DEF RestoreInv, TableInv
<1> DEFINE j == job[w]
           v == Min(j.left)
<1>1. /\ pc[w] = "idle" /\ j.at = "loop" /\ ~j.exists /\ j.left # {} /\ Gone
      /\ j.left = VersionsOf(j.backup) /\ j.created = {} /\ ~j.fresh
      /\ j.recreate \/ Base(w) = seenDoc
  BY DEF RestoreCreate, At, InJob, JobAt, StartAt
<1>2. job'[w] = [j EXCEPT !.at = "creating"]
  BY GotoJobFields DEF RestoreCreate, InJob
<1>3. /\ job'[w].at = "creating" /\ job'[w].backup = j.backup /\ job'[w].left = j.left
      /\ job'[w].created = j.created /\ job'[w].fresh = j.fresh
      /\ job'[w].recreate = j.recreate /\ job'[w].exists = j.exists
  BY <1>2 DEF InJob, Job
<1>4. seenDoc' = seenDoc /\ job'[w] # NoJob
  BY <1>3, JobIsNotNone DEF InJob
<1>5. job'[w].recreate \/ Base(w)' = seenDoc'
  BY <1>1, <1>3, <1>4 DEF Base
<1>6. CASE /\ CreateBegin(w)
           /\ row'[w] = GenesisRow(v, j.backup.company, j.backup.files[v])
  <2>1. PICK u \in Versions, c \in Companies, files \in FileMaps \ {{}} :
            /\ row' = [row EXCEPT ![w] = GenesisRow(u, c, files)]
            /\ todo' = [todo EXCEPT ![w] = files]
    BY <1>6 DEF CreateBegin
  <2>2. /\ pc'[w] = "create_put" /\ rows' = {} /\ blobs' = {}
        /\ row'[w] = GenesisRow(u, c, files) /\ todo'[w] = files
    BY <1>1, <1>6, <2>1 DEF CreateBegin, Goto, Gone, TypeOK
  <2>3. GenesisRow(u, c, files) \in Row /\ IsGenesis(GenesisRow(u, c, files))
        /\ GenesisRow(u, c, files).files = files
    BY GenesisRowType DEF GenesisRow, IsGenesis
  <2>4. CreateAt(w)' /\ DeleteAt(w)'
    BY <2>2, <2>3 DEF CreateAt, DeleteAt, CreateLabels
  <2>5. Shown(row'[w]) = RestoredAs(j.backup, v)
    BY <1>1, <1>6, FirstIsGenesis DEF InJob
  <2>6. JobAt(w)'
    BY <1>1, <1>3, <1>5, <2>2, <2>5
    DEF JobAt, StartAt, ProgressAt, UndoAt, CalledFrom, CreateLabels
  <2> QED BY <1>4, <2>4, <2>6 DEF JobGoesOn
<1>7. CASE CreateExists(w)
  BY <1>1, <1>7 DEF CreateExists, DocumentExists, Gone
<1>8. CASE Refuse(w)
  <2>1. pc'[w] = "idle" /\ err'[w] = "failed" /\ Gone'
    BY <1>1, <1>8 DEF Refuse, Finish, Gone, TypeOK
  <2>2. JobAt(w)'
    BY <1>1, <1>3, <1>5, <2>1 DEF JobAt, StartAt, ProgressAt, UndoAt
  <2> QED BY <1>4, <2>1, <2>2, IdleCalls DEF JobGoesOn
<1> QED BY <1>6, <1>7, <1>8 DEF RestoreCreate

LEMMA JobCreated ==
    ASSUME RestoreInv, FailuresTakenBack, NEW w \in Writers, InJob(w), RestoreCreated(w)
    PROVE  JobGoesOn(w)
<1> USE DEF RestoreInv, TableInv
<1> DEFINE j == job[w]
           v == Min(j.left)
<1>1. /\ pc[w] = "idle" /\ j.at = "creating" /\ ~j.exists
      /\ j.left = VersionsOf(j.backup) /\ j.created = {} /\ ~j.fresh
      /\ j.recreate \/ Base(w) = seenDoc
      /\ IF err[w] = "ok"
         THEN Clean /\ ShownOf(rows) = {RestoredAs(j.backup, v)}
         ELSE Gone
  BY DEF RestoreCreated, At, InJob, JobAt, StartAt
<1>2. j \in Job /\ UNCHANGED vars /\ pc'[w] = "idle" /\ VersionsOf(j.backup) # {}
  BY <1>1, BackupsAssumption DEF RestoreCreated, InJob, Job, IsValid, vars, locals
<1>3. Base(w) = {}
  BY <1>1 DEF Base
<1>4. CASE err[w] = "ok"
  <2>1. job' = [job EXCEPT ![w].at = "loop", ![w].exists = TRUE,
                           ![w].fresh = TRUE, ![w].left = @ \ {Min(@)}]
    BY <1>4 DEF RestoreCreated
  <2>2. /\ job'[w].at = "loop" /\ job'[w].backup = j.backup /\ job'[w].left = j.left \ {v}
        /\ job'[w].created = j.created /\ job'[w].fresh
        /\ job'[w].recreate = j.recreate /\ job'[w].exists
    BY <1>2, <2>1 DEF JobOK, Job
  <2>3. seenDoc' = seenDoc /\ job'[w] # NoJob
    BY <2>2, JobIsNotNone DEF InJob
  <2>4. Base(w)' = {} /\ BaseVersions(w)' = {}
    BY <2>2 DEF Base, BaseVersions
  <2>5. v \in j.left
    BY <1>1, <1>2, NextVersionLeft
  <2>6. Inserted(w)' = {v}
    BY <1>1, <2>2, <2>4, <2>5 DEF Inserted
  <2>7. Clean' /\ rows' = rows /\ rows # {}
    BY <1>1, <1>2, <1>4 DEF Clean, Complete, Referenced, ShownOf, vars
  <2>8. ProgressAt(w)'
    BY <1>1, <1>4, <2>2, <2>4, <2>6, <2>7 DEF ProgressAt
  <2>9. JobAt(w)'
    BY <1>1, <1>2, <1>3, <2>2, <2>3, <2>4, <2>8 DEF JobAt, StartAt, UndoAt
  <2> QED BY <1>2, <2>3, <2>9, IdleCalls DEF JobGoesOn
<1>5. CASE err[w] # "ok"
  <2>1. job' = [job EXCEPT ![w].at = "undo_versions", ![w].cause = err[w]]
    BY <1>1, <1>5 DEF RestoreCreated, RollbackJob
  <2>2. /\ job'[w].at = "undo_versions" /\ job'[w].backup = j.backup
        /\ job'[w].created = {} /\ ~job'[w].fresh /\ job'[w].cause # "ok"
        /\ job'[w].recreate = j.recreate /\ ~job'[w].exists
    BY <1>1, <1>2, <1>5, <2>1 DEF JobOK, Job
  <2>3. seenDoc' = seenDoc /\ job'[w] # NoJob
    BY <2>2, JobIsNotNone DEF InJob
  <2>4. Base(w)' = {}
    BY <2>2 DEF Base
  <2>5. Gone' /\ ShownOf(rows') = {} /\ Referenced(blobs)'
    BY <1>1, <1>2, <1>5 DEF Gone, ShownOf, Referenced, vars
  <2>6. UndoAt(w)'
    BY <2>2, <2>4, <2>5 DEF UndoAt, Gone
  <2>7. JobAt(w)'
    BY <1>1, <1>2, <1>3, <2>2, <2>3, <2>4, <2>6 DEF JobAt, StartAt, ProgressAt
  <2> QED BY <1>2, <2>3, <2>7, IdleCalls DEF JobGoesOn
<1> QED BY <1>4, <1>5

\* A version that is inserted is new, and those inserted before it are older.
LEMMA JobInserts ==
    ASSUME RestoreInv, FailuresTakenBack, NEW w \in Writers, InJob(w), RestoreInsert(w)
    PROVE  JobGoesOn(w)
<1> USE DEF RestoreInv, TableInv
<1> DEFINE j == job[w]
           v == Min(j.left)
           new == RestoredRow(j.backup, v)
<1>1. /\ pc[w] = "idle" /\ j.at = "loop" /\ j.exists /\ j.left # {} /\ j \in Job
      /\ j.fresh \/ ~j.recreate
      /\ j.recreate \/ Base(w) = seenDoc
      /\ Clean
      /\ ShownOf(rows) = Base(w) \cup {RestoredAs(j.backup, u) : u \in Inserted(w)}
      /\ j.left \cap BaseVersions(w) = {}
      /\ IF j.fresh THEN rows # {} ELSE j.created = Inserted(w)
      /\ \A u \in j.created : \A n \in j.left : u <= n
  BY DEF RestoreInsert, At, InJob, JobAt, StartAt, ProgressAt
<1>2. /\ ~HasVersion(rows, new.version) /\ rows' = rows \cup {new} /\ blobs' = blobs
      /\ todo'[w] = new.files /\ pc'[w] = "idle"
      /\ job' = [job EXCEPT ![w].at = "put", ![w].created = @ \cup {v}]
  BY <1>1 DEF RestoreInsert, UniqueViolation, TypeOK
<1>3. /\ job'[w].at = "put" /\ job'[w].backup = j.backup /\ job'[w].left = j.left
      /\ job'[w].created = j.created \cup {v} /\ job'[w].fresh = j.fresh
      /\ job'[w].recreate = j.recreate /\ job'[w].exists = j.exists
  BY <1>1, <1>2 DEF JobOK, Job
<1>4. seenDoc' = seenDoc /\ job'[w] # NoJob
  BY <1>3, JobIsNotNone DEF InJob
<1>5. /\ v \in j.left /\ v \in VersionsOf(j.backup) /\ \A n \in j.left : v <= n
  <2>1. j.left \subseteq Nat
    BY <1>1, VersionsAssumption DEF Job
  <2> QED BY <1>1, <2>1, NextVersionLeft, MinOfNaturals
<1>6. new.version = v /\ Shown(new) = RestoredAs(j.backup, v)
  BY DEF RestoredRow, RestoredAs, Shown
<1>7. Base(w)' = Base(w)
  BY <1>3, <1>4 DEF Base
<1>8. BaseVersions(w)' = BaseVersions(w)
  BY <1>7 DEF BaseVersions
<1>9. Inserted(w)' = Inserted(w) \cup {v}
  BY <1>1, <1>3, <1>5, <1>8 DEF Inserted
<1>10. ShownOf(rows') = ShownOf(rows) \cup {RestoredAs(j.backup, v)}
  BY <1>2, <1>6 DEF ShownOf
<1>11. /\ Referenced(blobs)'
       /\ \A r \in rows' : IF r.version = v
                           THEN todo'[w] \subseteq r.files /\ r.files \subseteq blobs' \cup todo'[w]
                           ELSE r.files \subseteq blobs'
  BY <1>1, <1>2, <1>6 DEF Clean, Complete, Referenced, HasVersion
<1>12. ProgressAt(w)'
  <2>1. ShownOf(rows') = Base(w)' \cup {RestoredAs(job'[w].backup, u) : u \in Inserted(w)'}
    BY <1>1, <1>3, <1>7, <1>9, <1>10
  <2>2. job'[w].left \cap BaseVersions(w)' = {}
    BY <1>1, <1>3, <1>8
  <2>3. IF job'[w].fresh THEN rows' # {} ELSE job'[w].created = Inserted(w)'
    BY <1>1, <1>2, <1>3, <1>9
  <2>4. \A u \in job'[w].created : \A n \in job'[w].left : u <= n
    BY <1>1, <1>3, <1>5
  <2> QED BY <1>1, <1>3, <1>11, <2>1, <2>2, <2>3, <2>4 DEF ProgressAt
<1>13. JobAt(w)'
  BY <1>1, <1>2, <1>3, <1>4, <1>7, <1>12 DEF JobAt, StartAt, UndoAt
<1> QED BY <1>2, <1>4, <1>13, IdleCalls DEF JobGoesOn

\* A failed restore takes back the document, or the versions, that it created.
LEMMA JobTakesBack ==
    ASSUME RestoreInv, NEW w \in Writers, InJob(w), job[w].at \in {"loop", "put"},
           job[w].exists, job[w].left # {}, NEW cause \in Errors \ {"ok"},
           RollbackJob(w, cause), rows' = rows, pc'[w] = "idle", Referenced(blobs)',
           \A r \in rows : r.files \subseteq blobs => r.files \subseteq blobs'
    PROVE  JobGoesOn(w)
<1> USE DEF RestoreInv, TableInv
<1> DEFINE j == job[w]
           v == Min(j.left)
<1>1. /\ j \in Job
      /\ j.recreate \/ Base(w) = seenDoc
      /\ ShownOf(rows) = Base(w) \cup {RestoredAs(j.backup, u) : u \in Inserted(w)}
      /\ IF j.fresh THEN rows # {} ELSE j.created = Inserted(w)
      /\ \A u \in j.created : \A n \in j.left : u <= n
      /\ IF j.at = "loop" THEN Clean
         ELSE \A r \in rows : r.version # v => r.files \subseteq blobs
  BY DEF InJob, JobAt, StartAt, ProgressAt
<1>2. /\ job'[w].at = IF j.fresh THEN "undo_document" ELSE "undo_versions"
      /\ job'[w].cause = cause /\ job'[w].backup = j.backup
      /\ job'[w].created = j.created /\ job'[w].fresh = j.fresh
      /\ job'[w].recreate = j.recreate /\ job'[w].exists = j.exists
  BY <1>1 DEF RollbackJob, JobOK, Job
<1>3. seenDoc' = seenDoc /\ job'[w] # NoJob
  BY <1>2, JobIsNotNone DEF InJob
<1>4. Base(w)' = Base(w)
  BY <1>2, <1>3 DEF Base
<1>5. v \in j.left /\ v \in Nat /\ v \in VersionsOf(j.backup) /\ j.created \subseteq Nat
  BY <1>1, NextVersionLeft, VersionsAssumption DEF Job
<1>6. CASE j.fresh
  <2>1. JobAt(w)'
    BY <1>1, <1>2, <1>3, <1>4, <1>6 DEF JobAt, StartAt, ProgressAt, UndoAt
  <2> QED BY <1>3, <2>1, IdleCalls DEF JobGoesOn
<1>7. CASE ~j.fresh
  <2>1. {d \in ShownOf(rows) : d.version \notin j.created} = Base(w)
    <3>1. \A d \in Base(w) : d.version \in BaseVersions(w)
      BY DEF BaseVersions
    <3>2. \A d \in Base(w) : d.version \notin j.created
      BY <1>1, <1>7, <3>1 DEF Inserted
    <3>3. \A u \in Inserted(w) : RestoredAs(j.backup, u).version \in j.created
      BY <1>1, <1>7 DEF RestoredAs
    <3> QED BY <1>1, <3>2, <3>3
  <2>2. \A r \in rows : r.version \notin j.created => r.files \subseteq blobs
    <3>1. CASE j.at = "loop"
      BY <1>1, <3>1 DEF Clean, Complete
    <3>2. CASE j.at = "put"
      <4>1. v \in j.created \/ v \in BaseVersions(w)
        BY <1>1, <1>5, <1>7, <3>2 DEF Inserted
      <4>2. v \notin BaseVersions(w)
        BY <1>5, <3>2 DEF InJob, JobAt, ProgressAt
      <4> QED BY <1>1, <3>2, <4>1, <4>2
    <3> QED BY <3>1, <3>2
  <2>3. \E b \in Nat : \A u \in j.created : u < b
    <3>1. v + 1 \in Nat /\ \A u \in j.created : u < v + 1
      BY <1>1, <1>5
    <3> QED BY <3>1
  <2>4. \A r \in rows' : r.version \notin job'[w].created => r.files \subseteq blobs'
    BY <1>2, <2>2
  <2>5. UndoAt(w)'
    BY <1>2, <1>4, <1>7, <2>1, <2>3, <2>4 DEF UndoAt
  <2>6. JobAt(w)'
    BY <1>1, <1>2, <1>3, <1>4, <1>7, <2>5 DEF JobAt, StartAt, ProgressAt
  <2> QED BY <1>3, <2>6, IdleCalls DEF JobGoesOn
<1> QED BY <1>6, <1>7

LEMMA JobInsertFails ==
    ASSUME RestoreInv, NEW w \in Writers, InJob(w), RestoreInsertFails(w)
    PROVE  JobGoesOn(w)
<1>1. /\ pc[w] = "idle" /\ job[w].at = "loop" /\ job[w].exists /\ job[w].left # {}
      /\ UNCHANGED vars /\ Clean
  BY DEF RestoreInsertFails, At, InJob, JobAt, ProgressAt
<1>2. PICK cause \in Errors \ {"ok"} : RollbackJob(w, cause)
  BY DEF RestoreInsertFails, Errors
<1>3. pc'[w] = "idle" /\ rows' = rows /\ blobs' = blobs /\ Referenced(blobs)'
  BY <1>1 DEF Clean, Referenced, vars, locals
<1> QED BY <1>1, <1>2, <1>3, JobTakesBack

\* The version that is being put, and what its files need.
PutAt(w) ==
    LET j == job[w]
        v == Min(j.left)
    IN /\ Referenced(blobs) /\ v \in Inserted(w)
       /\ \E r \in rows : r.version = v
       /\ \A r \in rows : IF r.version = v
                          THEN todo[w] \subseteq r.files /\ r.files \subseteq blobs \cup todo[w]
                          ELSE r.files \subseteq blobs

LEMMA PutFacts ==
    ASSUME RestoreInv, NEW w \in Writers, InJob(w), At(w, "put")
    PROVE  /\ job[w] \in Job /\ pc[w] = "idle" /\ job[w].at = "put"
           /\ job[w].exists /\ job[w].left # {} /\ PutAt(w)
<1> DEFINE j == job[w]
           v == Min(j.left)
<1>1. /\ j \in Job /\ pc[w] = "idle" /\ j.at = "put" /\ StartAt(w) /\ ProgressAt(w)
  BY DEF InJob, JobAt, At
<1>2. j.exists /\ j.left # {}
  BY <1>1 DEF StartAt, ProgressAt
<1>3. /\ Referenced(blobs)
      /\ \A r \in rows : IF r.version = v
                         THEN todo[w] \subseteq r.files /\ r.files \subseteq blobs \cup todo[w]
                         ELSE r.files \subseteq blobs
      /\ ShownOf(rows) = Base(w) \cup {RestoredAs(j.backup, u) : u \in Inserted(w)}
      /\ j.left \cap BaseVersions(w) = {}
  BY <1>1, <1>2 DEF ProgressAt
<1>4. v \in Inserted(w)
  BY <1>1, <1>2, <1>3, NextVersionLeft DEF RestoreInv, Inserted
<1>5. RestoredAs(j.backup, v) \in ShownOf(rows)
  BY <1>3, <1>4
<1>6. PICK r \in rows : Shown(r) = RestoredAs(j.backup, v)
  BY <1>5 DEF ShownOf
<1>7. r.version = v
  BY <1>6 DEF Shown, RestoredAs
<1> QED BY <1>1, <1>2, <1>3, <1>4, <1>7 DEF PutAt

\* A put serves the version that is being put, and with the last one it is complete.
LEMMA JobPuts ==
    ASSUME RestoreInv, NEW w \in Writers, InJob(w), RestorePut(w)
    PROVE  JobGoesOn(w)
<1> USE DEF RestoreInv, TableInv
<1> DEFINE j == job[w]
           v == Min(j.left)
<1>1. /\ j \in Job /\ pc[w] = "idle" /\ j.at = "put" /\ j.exists /\ j.left # {} /\ PutAt(w)
  BY PutFacts DEF RestorePut
<1>2. /\ j.fresh \/ ~j.recreate
      /\ j.recreate \/ Base(w) = seenDoc
      /\ ShownOf(rows) = Base(w) \cup {RestoredAs(j.backup, u) : u \in Inserted(w)}
      /\ j.left \cap BaseVersions(w) = {}
      /\ IF j.fresh THEN rows # {} ELSE j.created = Inserted(w)
      /\ \A u \in j.created : \A n \in j.left : u <= n
  BY <1>1 DEF InJob, JobAt, StartAt, ProgressAt
<1>3. PICK f \in todo[w] :
          /\ blobs' = blobs \cup {f}
          /\ todo' = [todo EXCEPT ![w] = @ \ {f}]
          /\ IF todo[w] = {f}
             THEN job' = [job EXCEPT ![w].at = "loop", ![w].left = @ \ {Min(@)}]
             ELSE UNCHANGED job
  BY DEF RestorePut
<1>4. pc'[w] = "idle" /\ rows' = rows /\ todo'[w] = todo[w] \ {f}
  BY <1>1, <1>3 DEF RestorePut, TypeOK
<1>5. Referenced(blobs)'
  BY <1>1, <1>3, <1>4 DEF PutAt, Referenced
<1>6. CASE todo[w] = {f}
  <2>1. /\ job'[w].at = "loop" /\ job'[w].backup = j.backup /\ job'[w].left = j.left \ {v}
        /\ job'[w].created = j.created /\ job'[w].fresh = j.fresh
        /\ job'[w].recreate = j.recreate /\ job'[w].exists = j.exists
    <3>1. job' = [job EXCEPT ![w].at = "loop", ![w].left = @ \ {Min(@)}]
      BY <1>3, <1>6
    <3>2. job'[w] = [j EXCEPT !.at = "loop", !.left = @ \ {v}]
      BY <3>1 DEF JobOK
    <3> QED BY <1>1, <3>2 DEF Job
  <2>2. seenDoc' = seenDoc /\ job'[w] # NoJob
    BY <2>1, JobIsNotNone DEF InJob
  <2>3. Base(w)' = Base(w)
    BY <2>1, <2>2 DEF Base
  <2>4. BaseVersions(w)' = BaseVersions(w)
    BY <2>3 DEF BaseVersions
  <2>5. Inserted(w)' = Inserted(w)
    BY <1>1, <2>1, <2>4 DEF Inserted
  <2>6. Complete(rows)'
    BY <1>1, <1>3, <1>4, <1>6 DEF PutAt, Complete
  <2>7. Clean'
    BY <1>5, <2>6 DEF Clean
  <2>8. ProgressAt(w)'
    BY <1>2, <1>4, <2>1, <2>3, <2>4, <2>5, <2>7 DEF ProgressAt
  <2>9. JobAt(w)'
    BY <1>1, <1>2, <1>4, <2>1, <2>2, <2>3, <2>8 DEF JobAt, StartAt, UndoAt
  <2> QED BY <1>4, <2>2, <2>9, IdleCalls DEF JobGoesOn
<1>7. CASE todo[w] # {f}
  <2>1. job' = job /\ job'[w] # NoJob
    BY <1>1, <1>3, <1>7, JobIsNotNone
  <2>2. seenDoc' = seenDoc
    BY <2>1 DEF InJob
  <2>3. Base(w)' = Base(w)
    BY <2>1, <2>2 DEF Base
  <2>4. BaseVersions(w)' = BaseVersions(w)
    BY <2>3 DEF BaseVersions
  <2>5. Inserted(w)' = Inserted(w)
    BY <2>1, <2>4 DEF Inserted
  <2>6. \A r \in rows' : IF r.version = v
                         THEN todo'[w] \subseteq r.files /\ r.files \subseteq blobs' \cup todo'[w]
                         ELSE r.files \subseteq blobs'
    BY <1>1, <1>3, <1>4 DEF PutAt
  <2>7. ProgressAt(w)'
    BY <1>1, <1>2, <1>4, <1>5, <2>1, <2>3, <2>4, <2>5, <2>6 DEF ProgressAt
  <2>8. JobAt(w)'
    BY <1>1, <1>2, <1>4, <2>1, <2>2, <2>3, <2>7 DEF JobAt, StartAt, UndoAt
  <2> QED BY <1>4, <2>1, <2>8, IdleCalls DEF JobGoesOn
<1> QED BY <1>6, <1>7

LEMMA JobPutFails ==
    ASSUME RestoreInv, NEW w \in Writers, InJob(w), RestorePutFails(w)
    PROVE  JobGoesOn(w)
<1>1. /\ pc[w] = "idle" /\ job[w].at = "put" /\ job[w].exists /\ job[w].left # {} /\ PutAt(w)
  BY PutFacts DEF RestorePutFails
<1>2. PICK f \in todo[w] : blobs' \in {blobs, blobs \cup {f}}
  BY DEF RestorePutFails
<1>3. pc'[w] = "idle" /\ rows' = rows /\ RollbackJob(w, "failed")
  BY <1>1 DEF RestorePutFails
<1>4. Referenced(blobs)'
  BY <1>1, <1>2, <1>3 DEF PutAt, Referenced
<1>5. \A r \in rows : r.files \subseteq blobs => r.files \subseteq blobs'
  BY <1>2
<1> QED BY <1>1, <1>3, <1>4, <1>5, JobTakesBack DEF Errors

\* The whole backup is there when no version is left.
LEMMA JobDone ==
    ASSUME RestoreInv, NEW w \in Writers, InJob(w), RestoreDone(w)
    PROVE  JobGoesOn(w)
<1> USE DEF RestoreInv, TableInv
<1> DEFINE j == job[w]
<1>1. /\ pc[w] = "idle" /\ j.at = "loop" /\ j.left = {} /\ j \in Job
      /\ StartAt(w) /\ ProgressAt(w)
  BY DEF RestoreDone, At, InJob, JobAt
<1>2. j.exists
  <2>1. VersionsOf(j.backup) # {}
    BY <1>1, BackupsAssumption DEF Job, IsValid
  <2> QED BY <1>1, <2>1 DEF StartAt
<1>3. /\ j.fresh \/ ~j.recreate
      /\ j.recreate \/ Base(w) = seenDoc
      /\ ShownOf(rows) = Base(w) \cup {RestoredAs(j.backup, u) : u \in Inserted(w)}
      /\ Clean
  BY <1>1, <1>2 DEF StartAt, ProgressAt
<1>4. Inserted(w) = VersionsOf(j.backup) \ BaseVersions(w)
  BY <1>1 DEF Inserted
<1>5. (IF j.recreate THEN {} ELSE seenDoc) = Base(w)
  BY <1>2, <1>3 DEF Base
<1>6. Merged(Base(w), j.backup)
        = Base(w) \cup {RestoredAs(j.backup, u) : u \in VersionsOf(j.backup) \ BaseVersions(w)}
  <2>1. Restored(j.backup) = {RestoredAs(j.backup, u) : u \in VersionsOf(j.backup)}
    BY DEF Restored, RestoredAs
  <2>2. \A u : (\A d \in Base(w) : d.version # RestoredAs(j.backup, u).version)
                  <=> u \notin BaseVersions(w)
    BY DEF RestoredAs, BaseVersions
  <2> QED BY <2>1, <2>2 DEF Merged
<1> QED BY <1>3, <1>4, <1>5, <1>6, JobReturns DEF RestoreDone

\* A document that the restore created goes as a whole.
LEMMA JobUndoesDocument ==
    ASSUME RestoreInv, FailuresTakenBack, NEW w \in Writers, InJob(w), UndoDocument(w)
    PROVE  JobGoesOn(w)
<1> USE DEF RestoreInv, TableInv
<1> DEFINE j == job[w]
<1>1. /\ pc[w] = "idle" /\ j.at = "undo_document" /\ j.cause # "ok" /\ j.fresh
      /\ rows # {}
      /\ j.recreate \/ Base(w) = seenDoc
  BY DEF UndoDocument, At, InJob, JobAt, StartAt, UndoAt
<1>2. DeleteRows(w)
  BY <1>1, FaultFacts DEF UndoDocument, DeleteNotFound
<1>3. job'[w] = [j EXCEPT !.at = "undone_document"]
  BY GotoJobFields DEF UndoDocument, InJob
<1>4. /\ job'[w].at = "undone_document" /\ job'[w].cause = j.cause
      /\ job'[w].fresh = j.fresh /\ job'[w].recreate = j.recreate
      /\ job'[w].exists = j.exists
  BY <1>3 DEF InJob, Job
<1>5. seenDoc' = seenDoc /\ job'[w] # NoJob
  BY <1>4, JobIsNotNone DEF InJob
<1>6. Base(w)' = Base(w)
  BY <1>4, <1>5 DEF Base
<1>7. pc'[w] = "delete_list" /\ rows' = {} /\ blobs' = blobs /\ doomed'[w] = File
  BY <1>2 DEF DeleteRows, Goto, TypeOK
<1>8. DeleteAt(w)' /\ CreateAt(w)'
  BY <1>7 DEF DeleteAt, CreateAt, CreateLabels, TypeOK
<1>9. JobAt(w)'
  BY <1>1, <1>4, <1>5, <1>6, <1>7 DEF JobAt, StartAt, ProgressAt, UndoAt, CalledFrom
<1> QED BY <1>5, <1>8, <1>9 DEF JobGoesOn

\* A version that the restore created goes, with what no other version needs.
LEMMA JobUndoesVersion ==
    ASSUME RestoreInv, FailuresTakenBack, NEW w \in Writers, InJob(w), UndoVersion(w)
    PROVE  JobGoesOn(w)
<1> USE DEF RestoreInv, TableInv
<1> DEFINE j == job[w]
           v == Max(j.created)
<1>1. /\ pc[w] = "idle" /\ j.at = "undo_versions" /\ j.created # {} /\ j \in Job
      /\ j.cause # "ok" /\ ~j.fresh /\ Referenced(blobs)
      /\ j.recreate \/ Base(w) = seenDoc
      /\ {d \in ShownOf(rows) : d.version \notin j.created} = Base(w)
      /\ \A r \in rows : r.version \notin j.created => r.files \subseteq blobs
  BY DEF UndoVersion, At, InJob, JobAt, StartAt, UndoAt
<1>2. PICK b \in Nat : \A u \in j.created : u < b
  BY <1>1 DEF InJob, JobAt, UndoAt
<1>3. v \in j.created
  <2>1. j.created \subseteq Nat
    BY <1>1, VersionsAssumption DEF Job
  <2> QED BY <1>1, <1>2, <2>1, MaxOfBounded
<1>4. job'[w] = [j EXCEPT !.created = @ \ {v}]
  BY DEF UndoVersion, JobOK
<1>5. /\ job'[w].at = "undo_versions" /\ job'[w].cause = j.cause
      /\ job'[w].created = j.created \ {v}
      /\ job'[w].fresh = j.fresh /\ job'[w].recreate = j.recreate
      /\ job'[w].exists = j.exists
  BY <1>1, <1>4 DEF Job
<1>6. seenDoc' = seenDoc /\ job'[w] # NoJob
  BY <1>5, JobIsNotNone DEF InJob
<1>7. Base(w)' = Base(w)
  BY <1>5, <1>6 DEF Base
<1>8. ASSUME rows' = WithoutVersion(rows, v), blobs' = blobs,
             pc'[w] \in {"idle", "delete_version_list"},
             pc'[w] = "idle" => Referenced(blobs)'
      PROVE  JobAt(w)'
  <2>1. ShownOf(rows') = {d \in ShownOf(rows) : d.version # v}
    BY <1>8, ShownWithoutVersion
  <2>2. {d \in ShownOf(rows') : d.version \notin job'[w].created} = Base(w)'
    BY <1>1, <1>3, <1>5, <1>7, <2>1
  <2>3. \A r \in rows' : r.version \notin job'[w].created => r.files \subseteq blobs'
    BY <1>1, <1>5, <1>8 DEF WithoutVersion
  <2>4. \A u \in job'[w].created : u < b
    BY <1>2, <1>5
  <2>5. UndoAt(w)'
    BY <1>1, <1>5, <1>8, <2>2, <2>3, <2>4 DEF UndoAt
  <2> QED
    BY <1>1, <1>5, <1>6, <1>7, <1>8, <2>5 DEF JobAt, StartAt, ProgressAt, CalledFrom
<1>9. CASE DeleteVersionRow(w) /\ rows' = WithoutVersion(rows, v)
  <2>1. PICK u \in Versions :
            /\ HasVersion(rows, u)
            /\ rows' = WithoutVersion(rows, u)
            /\ doomed' = [doomed EXCEPT ![w] = FilesWithHash(ExclusiveHashes(rows, u))]
    BY <1>9 DEF DeleteVersionRow
  <2>2. u = v
    BY <1>9, <2>1 DEF HasVersion, WithoutVersion
  <2>3. /\ pc'[w] = "delete_version_list" /\ blobs' = blobs
        /\ doomed'[w] = FilesWithHash(ExclusiveHashes(rows, v))
    BY <1>9, <2>1, <2>2 DEF DeleteVersionRow, Goto, TypeOK
  <2>4. /\ \A r \in rows' : r.files \cap doomed'[w] = {}
        /\ Referenced(blobs \ doomed[w])'
    BY <1>1, <1>9, <2>3, RowGoes
  <2>5. DeleteAt(w)' /\ CreateAt(w)'
    BY <2>3, <2>4 DEF DeleteAt, CreateAt, CreateLabels
  <2>6. JobAt(w)'
    BY <1>8, <1>9, <2>3
  <2> QED BY <1>6, <2>5, <2>6 DEF JobGoesOn
<1>10. CASE ~HasVersion(rows, v) /\ DeleteVersionNotFound(w)
  <2>1. pc'[w] = "idle" /\ rows' = rows /\ blobs' = blobs
    BY <1>10 DEF DeleteVersionNotFound, Finish, TypeOK
  <2>2. rows' = WithoutVersion(rows, v) /\ Referenced(blobs)'
    BY <1>1, <1>10, <2>1 DEF WithoutVersion, HasVersion, Referenced
  <2> QED BY <1>6, <1>8, <2>1, <2>2, IdleCalls DEF JobGoesOn
<1> QED BY <1>9, <1>10, FaultFacts DEF UndoVersion

\* When all is taken back, what was seen is there again.
LEMMA JobUndone ==
    ASSUME RestoreInv, NEW w \in Writers, InJob(w), UndoDone(w)
    PROVE  JobGoesOn(w)
<1> USE DEF RestoreInv, TableInv
<1> DEFINE j == job[w]
<1>1. pc[w] = "idle" /\ StartAt(w) /\ UndoAt(w)
  BY DEF UndoDone, At, InJob, JobAt
<1>2. Return(w, j.cause) /\ UNCHANGED <<rows, blobs>>
  BY DEF UndoDone
<1>3. CASE j.at = "undone_document"
  <2>1. Gone /\ j.cause # "ok" /\ (j.recreate \/ seenDoc = {})
    BY <1>1, <1>3 DEF StartAt, UndoAt, Base
  <2>2. Clean /\ ShownOf(rows) = {}
    BY <2>1 DEF Gone, Clean, Complete, Referenced, ShownOf
  <2> QED BY <1>2, <2>1, <2>2, JobReturns
<1>4. CASE j.at = "undo_versions" /\ j.created = {}
  <2>1. /\ j.cause # "ok" /\ ShownOf(rows) = Base(w) /\ Clean
        /\ j.recreate \/ Base(w) = seenDoc
    BY <1>1, <1>4 DEF StartAt, UndoAt, Clean, Complete
  <2>2. Base(w) = seenDoc \/ Base(w) = {}
    BY DEF Base
  <2> QED BY <1>2, <2>1, <2>2, JobReturns
<1> QED BY <1>3, <1>4 DEF UndoDone, At

\* A call of CreateDocument, DeleteDocument or DeleteDocumentVersion goes on.
LEMMA JobCalls ==
    ASSUME RestoreInv, FailuresTakenBack, NEW w \in Writers, InJob(w), pc[w] # "idle",
           Step(w), job' = job
    PROVE  JobGoesOn(w)
<1> USE DEF RestoreInv, TableInv
<1> DEFINE j == job[w]
<1>1. /\ pc[w] \in CalledFrom(j.at) /\ CreateAt(w) /\ DeleteAt(w)
      /\ StartAt(w) /\ ProgressAt(w) /\ UndoAt(w)
  BY DEF InJob, JobAt
<1>2. job'[w] = j /\ job'[w] # NoJob /\ seenDoc' = seenDoc
  <2>1. NoJob \notin Job
    BY DEF NoJob, Job
  <2> QED BY <2>1 DEF InJob
<1>3. Base(w)' = Base(w)
  BY <1>2 DEF Base
<1>4. CASE j.at = "creating"
  <2>1. CreateGoesOn(w) /\ pc[w] \in CreateLabels
    BY <1>1, <1>4, CreateCalls DEF CalledFrom
  <2>2. /\ j.left = VersionsOf(j.backup) /\ j.created = {} /\ ~j.fresh /\ ~j.exists
        /\ j.recreate \/ Base(w) = seenDoc
        /\ Shown(row[w]) = RestoredAs(j.backup, Min(j.left))
    BY <1>1, <1>4, <2>1 DEF StartAt, CreateLabels
  <2>3. ASSUME /\ pc'[w] # "idle" => Shown(row'[w]) = RestoredAs(j.backup, Min(j.left))
               /\ pc'[w] = "idle" =>
                    IF err'[w] = "ok"
                    THEN Clean' /\ ShownOf(rows') = {RestoredAs(j.backup, Min(j.left))}
                    ELSE Gone',
               pc'[w] \in {"idle"} \cup CreateLabels
        PROVE  JobAt(w)'
    BY <1>2, <1>3, <1>4, <2>2, <2>3
    DEF JobAt, StartAt, ProgressAt, UndoAt, CalledFrom
  <2>4. CASE pc'[w] \in CreateLabels /\ CreateAt(w)' /\ row'[w] = row[w]
    <3>1. DeleteAt(w)'
      BY <2>4 DEF DeleteAt, CreateLabels
    <3>2. JobAt(w)'
      BY <2>2, <2>3, <2>4 DEF CreateLabels
    <3> QED BY <1>2, <2>4, <3>1, <3>2 DEF JobGoesOn
  <2>5. CASE /\ pc'[w] = "idle" /\ err'[w] = "ok"
             /\ rows' = {row[w]} /\ blobs' = row[w].files
    <3>1. Clean' /\ ShownOf(rows') = {Shown(row[w])}
      BY <2>5 DEF Clean, Complete, Referenced, ShownOf
    <3>2. JobAt(w)'
      BY <2>2, <2>3, <2>5, <3>1
    <3> QED BY <1>2, <2>5, <3>2, IdleCalls DEF JobGoesOn
  <2>6. CASE pc'[w] = "idle" /\ err'[w] = "failed" /\ Gone'
    <3>1. JobAt(w)'
      BY <2>3, <2>6
    <3> QED BY <1>2, <2>6, <3>1, IdleCalls DEF JobGoesOn
  <2> QED BY <2>1, <2>4, <2>5, <2>6 DEF CreateGoesOn
<1>5. CASE j.at \in {"deleting", "undone_document"}
  <2>1. \/ pc'[w] = "delete_blobs" /\ DeleteAt(w)'
        \/ pc'[w] = "idle" /\ Gone'
    BY <1>1, <1>5, DeleteCalls DEF CalledFrom
  <2>2. StartAt(w)' /\ ProgressAt(w)' /\ UndoAt(w)'
    BY <1>1, <1>2, <1>3, <1>5, <2>1 DEF StartAt, ProgressAt, UndoAt
  <2>3. JobAt(w)'
    BY <1>2, <1>5, <2>1, <2>2 DEF JobAt, CalledFrom
  <2>4. CreateAt(w)' /\ DeleteAt(w)'
    BY <2>1, IdleCalls DEF CreateAt, CreateLabels
  <2> QED BY <1>2, <2>3, <2>4 DEF JobGoesOn
<1>6. CASE j.at = "undo_versions"
  <2>1. VersionGoesOn(w)
    BY <1>1, <1>6, DeleteVersionCalls DEF CalledFrom
  <2>2. \A r \in rows : r.files \subseteq blobs => r.files \subseteq blobs'
    BY <2>1 DEF VersionGoesOn
  <2>3. \/ pc'[w] = "delete_version_blobs" /\ DeleteAt(w)'
        \/ pc'[w] = "idle" /\ Referenced(blobs)'
    BY <2>1 DEF VersionGoesOn
  <2>4. UndoAt(w)'
    BY <1>1, <1>2, <1>3, <1>6, <2>1, <2>2, <2>3 DEF UndoAt, VersionGoesOn
  <2>5. JobAt(w)'
    BY <1>1, <1>2, <1>3, <1>6, <2>3, <2>4 DEF JobAt, StartAt, ProgressAt, CalledFrom
  <2>6. CreateAt(w)' /\ DeleteAt(w)'
    BY <2>3, IdleCalls DEF CreateAt, CreateLabels
  <2> QED BY <1>2, <2>5, <2>6 DEF JobGoesOn
<1> QED BY <1>1, <1>4, <1>5, <1>6 DEF CalledFrom

\* A step of a restore, or of an operation that it has called.
LEMMA JobWhole ==
    ASSUME RestoreInv, FailuresTakenBack, NEW w \in Writers, InJob(w),
           Restore(w) \/ Operation(w)
    PROVE  JobGoesOn(w)
<1>1. job[w] # NoJob /\ job[w].at # "none"
  BY DEF InJob, NoJob, Job, JobLabels
<1>2. CASE Operation(w)
  BY <1>1, <1>2, JobCalls DEF Operation
<1>3. CASE Restore(w)
  <2>1. ~RestoreBegin(w) /\ ~RestoreCrash(w)
    BY <1>1, FaultFacts DEF RestoreBegin, RestoreOf, At, RestoreCrash
  <2> QED
    BY <1>3, <2>1, JobFailsEarly, JobDeletes, JobDeleted, JobCreates, JobCreated,
       JobInserts, JobInsertFails, JobPuts, JobPutFails, JobDone, JobUndoesDocument,
       JobUndoesVersion, JobUndone
    DEF Restore
<1> QED BY <1>2, <1>3

----------------------------------------------------------------------------
(* Every step                                                              *)

LEMMA SeenNext ==
    ASSUME NEW w \in Writers, NextSeen
    PROVE  IF pc'[w] = "idle" /\ job'[w] = NoJob
           THEN seenDoc' = View' /\ seenOutcome' = ResultOf(err'[w])
           ELSE UNCHANGED <<seenDoc, seenOutcome>>
BY OneWriterAssumption DEF NextSeen, BetweenCalls, Quiescent

\* The step is one of DocDb or shows nothing, and a restore that returns in it is whole.
WholeStep(w) ==
    /\ Promise!Next \/ UNCHANGED <<seenDoc, seenOutcome>>
    /\ job[w] # NoJob /\ job'[w] = NoJob => RestoresWell(w)
    /\ WholeAt(w)'

\* Between two operations all is as it was seen.
LEMMA BetweenOperations ==
    ASSUME NEW w \in Writers, NextSeen, pc'[w] = "idle", job'[w] = NoJob, Clean'
    PROVE  /\ WholeAt(w)'
           /\ seenDoc' = View' /\ seenOutcome' = ResultOf(err'[w])
<1>1. seenDoc' = View' /\ seenOutcome' = ResultOf(err'[w])
  BY SeenNext
<1>2. Untouched'
  BY <1>1, CompleteViewNext DEF Untouched, Clean
<1>3. AddAt(w)' /\ AloneAt(w)'
  BY <1>2 DEF AddAt, AloneAt, CreateLabels
<1> QED BY <1>1, <1>3, IdleCalls DEF WholeAt

LEMMA StepIsWhole ==
    ASSUME RestoreInv, FailuresTakenBack, NEW w \in Writers, WholeAt(w),
           Restore(w) \/ Operation(w), NextSeen
    PROVE  WholeStep(w)
<1> USE DEF RestoreInv
<1>1. CASE job[w] = NoJob /\ Operation(w)
  <2>1. job'[w] = NoJob /\ Step(w)
    BY <1>1 DEF Operation
  <2>2. Alone(w)
    BY <1>1, <2>1, SeenNext DEF Alone
  <2>3. AloneGoesOn(w)
    BY <2>2, AloneWhole
  <2>4. CASE /\ pc'[w] # "idle"
             /\ CreateAt(w)' /\ DeleteAt(w)' /\ AddAt(w)' /\ AloneAt(w)'
    BY <1>1, <2>1, <2>4, SeenNext DEF WholeStep, WholeAt
  <2>5. CASE pc'[w] = "idle" /\ Clean' /\ Promise!Next
    BY <1>1, <2>1, <2>5, BetweenOperations DEF WholeStep
  <2> QED BY <2>3, <2>4, <2>5 DEF AloneGoesOn
<1>2. CASE job[w] = NoJob /\ Restore(w)
  <2>1. RestoreBegin(w) /\ pc[w] = "idle"
    BY <1>2 DEF Restore, RestoreBegin, RestoreOf, RestoreCallFails, RestoreDelete, RestoreDeleted,
                RestoreCompany, RestoreVersions, RestoreCreate, RestoreCreated,
                RestoreInsert, RestoreInsertFails, RestorePut, RestorePutFails,
                RestoreDone, UndoDocument, UndoVersion, UndoDone, RestoreCrash, At, NoJob
  <2>2. Untouched
    BY <1>2, <2>1 DEF WholeAt, AloneAt
  <2>3. job'[w] # NoJob => UNCHANGED <<seenDoc, seenOutcome>>
    BY SeenNext
  <2>4. job'[w] # NoJob /\ CreateAt(w)' /\ DeleteAt(w)' /\ JobAt(w)'
    BY <2>1, <2>2, <2>3, JobBegins
  <2> QED BY <2>3, <2>4 DEF WholeStep, WholeAt
<1>3. CASE job[w] # NoJob
  <2>1. job'[w] # NoJob => UNCHANGED <<seenDoc, seenOutcome>>
    BY SeenNext
  <2>2. InJob(w)
    BY <1>3, <2>1 DEF InJob, WholeAt, JobOK
  <2>3. JobGoesOn(w)
    BY <2>2, JobWhole
  <2>4. CASE job'[w] # NoJob /\ CreateAt(w)' /\ DeleteAt(w)' /\ JobAt(w)'
    BY <2>1, <2>4 DEF WholeStep, WholeAt
  <2>5. CASE job'[w] = NoJob /\ pc'[w] = "idle" /\ Clean' /\ RestoresWell(w)
    <3>1. WholeAt(w)' /\ seenDoc' = View' /\ seenOutcome' = ResultOf(err'[w])
      BY <2>5, BetweenOperations
    <3>2. job[w].backup \in Backups /\ job[w].recreate \in BOOLEAN
      BY <2>2 DEF InJob, Job
    <3>3. Promise!Next
      BY <2>5, <3>1, <3>2, PromiseFails, PromiseRestores DEF RestoresWell, ResultOf
    <3> QED BY <2>5, <3>1, <3>3 DEF WholeStep
  <2> QED BY <2>3, <2>4, <2>5 DEF JobGoesOn
<1> QED BY <1>1, <1>2, <1>3

----------------------------------------------------------------------------
(* The inductive invariant.  The stores of a Conn that nobody calls are    *)
(* empty.                                                                  *)

AtomicInv == RestoreInv /\ WholeInv /\ (Writers = {} => Gone)

LEMMA InitAtomicInv == AtomicInit => AtomicInv
<1> SUFFICES ASSUME AtomicInit
             PROVE  AtomicInv
  OBVIOUS
<1>1. RestoreInv /\ rows = {} /\ blobs = {} /\ seenDoc = {}
  BY InitRestoreInv DEF AtomicInit, RestoreInit, Init, InitSeen, View
<1>2. ASSUME NEW w \in Writers
      PROVE  pc[w] = "idle" /\ job[w] = NoJob
  BY DEF AtomicInit, RestoreInit, Init
<1>3. Gone /\ Untouched
  BY <1>1 DEF Gone, Untouched, Clean, Complete, Referenced, ShownOf
<1>4. WholeInv
  BY <1>2, <1>3
  DEF WholeInv, WholeAt, CreateAt, DeleteAt, AddAt, AloneAt, CreateLabels
<1> QED BY <1>1, <1>3, <1>4 DEF AtomicInv

LEMMA AtomicInvStep == AtomicInv /\ FailuresTakenBack /\ [AtomicNext]_atomicVars => AtomicInv'
<1> SUFFICES ASSUME AtomicInv, FailuresTakenBack, [AtomicNext]_atomicVars
             PROVE  AtomicInv'
  OBVIOUS
<1>1. RestoreInv'
  BY RestoreInvStep DEF AtomicInv, AtomicNext, RestoreNext, atomicVars
<1>2. ASSUME NEW w \in Writers, Restore(w) \/ Operation(w), NextSeen
      PROVE  WholeInv' /\ Writers # {}
  BY <1>2, StepIsWhole, OneWriterAssumption DEF AtomicInv, WholeInv, WholeStep
<1>3. CASE UNCHANGED atomicVars
  <2>1. UNCHANGED <<rows, blobs, pc, row, inserted, todo, doomed, err, job, seenDoc>>
    BY <1>3 DEF atomicVars, restoreVars, vars, locals
  <2>2. Gone = Gone' /\ Clean = Clean' /\ Untouched = Untouched'
    BY <2>1 DEF Gone, Clean, Untouched, Complete, Referenced
  <2>3. ASSUME NEW w \in Writers
        PROVE  WholeAt(w)'
    <3>1. WholeAt(w)
      BY DEF AtomicInv, WholeInv
    <3>2. CreateAt(w)' /\ DeleteAt(w)'
      BY <2>1, <3>1 DEF WholeAt, CreateAt, DeleteAt, Referenced
    <3>3. CASE job[w] = NoJob
      <4>1. AddAt(w)' /\ AloneAt(w)'
        BY <2>1, <2>2, <3>1, <3>3 DEF WholeAt, AddAt, AloneAt, OnLatest, Complete, Referenced
      <4> QED BY <2>1, <3>2, <3>3, <4>1 DEF WholeAt
    <3>4. CASE job[w] # NoJob
      <4>1. Base(w)' = Base(w)
        BY <2>1 DEF Base
      <4>2. BaseVersions(w)' = BaseVersions(w)
        BY <4>1 DEF BaseVersions
      <4>3. Inserted(w)' = Inserted(w)
        BY <2>1, <4>2 DEF Inserted
      <4>4. StartAt(w)'
        BY <2>1, <2>2, <3>1, <3>4, <4>1 DEF WholeAt, JobAt, StartAt
      <4>5. ProgressAt(w)'
        BY <2>1, <2>2, <3>1, <3>4, <4>1, <4>2, <4>3 DEF WholeAt, JobAt, ProgressAt, Referenced
      <4>6. UndoAt(w)'
        BY <2>1, <2>2, <3>1, <3>4, <4>1 DEF WholeAt, JobAt, UndoAt, Referenced
      <4> QED BY <2>1, <3>1, <3>2, <3>4, <4>4, <4>5, <4>6 DEF WholeAt, JobAt
    <3> QED BY <3>3, <3>4
  <2> QED BY <1>1, <2>2, <2>3 DEF AtomicInv, WholeInv
<1> QED BY <1>1, <1>2, <1>3 DEF AtomicInv, AtomicNext

----------------------------------------------------------------------------
\* What each step of the one writer shows.
LEMMA AtomicStep ==
    ASSUME AtomicInv, FailuresTakenBack, [AtomicNext]_atomicVars
    PROVE  \/ UNCHANGED atomicVars
           \/ \E w \in Writers :
                /\ \A v \in Writers : v = w
                /\ Restore(w) \/ Operation(w)
                /\ WholeAt(w) /\ WholeStep(w)
                /\ job'[w] # NoJob => seenDoc' = seenDoc
<1> SUFFICES ASSUME NEW w \in Writers, Restore(w) \/ Operation(w), NextSeen
             PROVE  /\ \A v \in Writers : v = w
                    /\ WholeAt(w) /\ WholeStep(w)
                    /\ job'[w] # NoJob => seenDoc' = seenDoc
  BY DEF AtomicNext
<1> QED
  BY StepIsWhole, SeenNext, OneWriterAssumption DEF AtomicInv, WholeInv

\* For any files, versions, companies, backups and sequence of operations of one
\* writer, as long as the calls that take back a failed operation succeed:
\* CreateDocument, AddDocumentVersion, DeleteDocument, DeleteDocumentVersion and
\* RestoreDocument leave in the document store only content that a row of the
\* metadata store references, so that DocumentExists, which asks the document
\* store, agrees with the metadata store.
THEOREM NoContentOrphaned ==
    ASSUME FailuresTakenBack
    PROVE  AtomicSpec => []NoOrphanContent
<1>1. AtomicInv => NoOrphanContent
  <2> SUFFICES ASSUME AtomicInv, BetweenCalls
               PROVE  HashesOf(blobs) \subseteq UNION {HashesOf(r.files) : r \in rows}
    BY DEF NoOrphanContent
  <2>1. Referenced(blobs)
    <3>1. CASE Writers = {}
      BY <3>1 DEF AtomicInv, Gone, Referenced
    <3>2. CASE Writers # {}
      <4>1. PICK w \in Writers : pc[w] = "idle" /\ job[w] = NoJob
        BY <3>2 DEF BetweenCalls, Quiescent
      <4> QED
        BY <4>1 DEF AtomicInv, WholeInv, WholeAt, AloneAt, Untouched, Clean
    <3> QED BY <3>1, <3>2
  <2>2. ASSUME NEW f \in blobs
        PROVE  \E r \in rows : f[2] \in HashesOf(r.files)
    BY <2>1 DEF Referenced, HashesOf
  <2> QED BY <2>2 DEF HashesOf
<1> QED
  BY InitAtomicInv, AtomicInvStep, <1>1, PTL DEF AtomicSpec

\* Under the same premise, the split-store Conn implements DocDb: every operation
\* takes effect as a whole when it returns, or changes nothing that a caller can
\* read, although it calls two stores one after the other.
THEOREM StoreActsAtomically ==
    ASSUME FailuresTakenBack
    PROVE  AtomicSpec => ActsAtomically
<1>1. AtomicInit => Promise!Init
  BY DEF AtomicInit, RestoreInit, Init, InitSeen, View, Promise!Init
<1>2. AtomicInv /\ [AtomicNext]_atomicVars => [Promise!Next]_<<seenDoc, seenOutcome>>
  <2> SUFFICES ASSUME AtomicInv, [AtomicNext]_atomicVars
               PROVE  Promise!Next \/ UNCHANGED <<seenDoc, seenOutcome>>
    OBVIOUS
  <2> QED BY AtomicStep DEF WholeStep, atomicVars
<1> QED
  BY InitAtomicInv, AtomicInvStep, <1>1, <1>2, PTL DEF AtomicSpec, ActsAtomically, Promise!Spec

\* Under the same premise, RestoreDocument leaves the whole backup, merged with the
\* document that it found unless that was to be recreated, or what was there before
\* (nothing, when a recreated document had been deleted already).
THEOREM RestoresAreWhole ==
    ASSUME FailuresTakenBack
    PROVE  AtomicSpec => RestoredAsAWhole
<1> DEFINE Returned ==
        \A w \in Writers :
            RestoreReturns(w) =>
                IF err'[w] = "ok"
                THEN View' = Merged(IF job[w].recreate THEN {} ELSE seenDoc, job[w].backup)
                ELSE \/ View' = seenDoc
                     \/ job[w].recreate /\ View' = {}
<1>1. AtomicInv /\ [AtomicNext]_atomicVars => [Returned]_restoreVars
  <2> SUFFICES ASSUME AtomicInv, [AtomicNext]_atomicVars, ~UNCHANGED restoreVars
               PROVE  Returned
    OBVIOUS
  <2>1. PICK w \in Writers : (\A v \in Writers : v = w) /\ WholeStep(w)
    BY AtomicStep DEF atomicVars
  <2> QED BY <2>1 DEF WholeStep, RestoreReturns, RestoresWell
<1> QED
  BY InitAtomicInv, AtomicInvStep, <1>1, PTL DEF AtomicSpec, RestoredAsAWhole

----------------------------------------------------------------------------
(* Merges, whatever fails or crashes.                                      *)

\* A version that was seen is there, with at least the files that were seen.
Found(d) ==
    \E r \in rows :
        /\ d = [version |-> r.version, company |-> r.company, prev |-> r.prev,
                files |-> d.files]
        /\ d.files \subseteq r.files
        /\ d.files \subseteq blobs

\* A merge into a document never reaches the calls that delete the document, and it
\* takes back only versions that it inserted.
MergesOn(w) ==
    LET j == job[w]
    IN /\ j.exists /\ ~j.fresh
       /\ j.at \in {"company", "versions", "loop", "put", "undo_versions"}
       /\ \A d \in seenDoc : d.files # {} => Found(d) /\ d.version \notin j.created
       /\ \E b \in Nat : \A v \in j.created : v < b
       /\ pc[w] # "idle" =>
            /\ pc[w] \in {"delete_version_list", "delete_version_blobs"}
            /\ \A d \in seenDoc : d.files # {} => d.files \cap doomed[w] = {}

\* Without any blob the document counts as absent, and is created.
MergeAt(w) ==
    job[w] # NoJob /\ ~job[w].recreate =>
        (\A d \in seenDoc : d.files = {}) \/ MergesOn(w)

MergeInv ==
    /\ RestoreInv
    /\ BetweenCalls => seenDoc = View
    /\ \A w \in Writers : MergeAt(w)

LEMMA FoundStays ==
    ASSUME NEW d, Found(d), \A r \in rows : r.version = d.version => r \in rows',
           d.files \subseteq blobs'
    PROVE  Found(d)'
BY DEF Found

LEMMA FoundIsSeen ==
    ASSUME NEW d, Found(d)'
    PROVE  \E e \in View' : e = [d EXCEPT !.files = e.files] /\ d.files \subseteq e.files
<1>1. PICK r \in rows' :
          /\ d = [version |-> r.version, company |-> r.company, prev |-> r.prev,
                  files |-> d.files]
          /\ d.files \subseteq r.files
          /\ d.files \subseteq blobs'
  BY DEF Found
<1> DEFINE e == [version |-> r.version, company |-> r.company, prev |-> r.prev,
                 files |-> r.files \cap blobs']
<1>2. e \in View'
  BY DEF View
<1>3. e = [d EXCEPT !.files = e.files] /\ d.files \subseteq e.files
  BY <1>1
<1> QED BY <1>2, <1>3

\* A restore keeps its way.
LEMMA RestoreKeepsItsWay ==
    ASSUME RestoreInv, NEW w \in Writers, job[w] # NoJob, job'[w] # NoJob,
           Restore(w) \/ Operation(w)
    PROVE  job'[w].recreate = job[w].recreate
<1> USE DEF RestoreInv
<1>1. job[w] \in Job /\ job[w].at # "none"
  BY DEF JobOK, Job, JobLabels
<1>2. ASSUME NEW e, Return(w, e)
      PROVE  FALSE
  BY <1>2 DEF Return, JobOK
<1>3. ASSUME NEW label, GotoJob(w, label)
      PROVE  job'[w].recreate = job[w].recreate
  BY <1>1, <1>3 DEF GotoJob, JobOK, Job
<1>4. ASSUME NEW cause, RollbackJob(w, cause)
      PROVE  job'[w].recreate = job[w].recreate
  BY <1>1, <1>4 DEF RollbackJob, JobOK, Job
<1>5. CASE Operation(w)
  BY <1>5 DEF Operation
<1>6. CASE \/ RestoreCallFails(w) \/ RestoreDelete(w) \/ RestoreCompany(w) \/ RestoreCreate(w)
           \/ RestoreDone(w) \/ UndoDocument(w) \/ UndoDone(w) \/ RestoreCrash(w)
           \/ RestoreInsertFails(w) \/ RestorePutFails(w)
  BY <1>2, <1>3, <1>4, <1>6
  DEF RestoreCallFails, RestoreDelete, RestoreCompany, RestoreCreate, RestoreDone,
      UndoDocument, UndoDone, RestoreCrash, RestoreInsertFails, RestorePutFails
<1>7. CASE RestoreDeleted(w) \/ RestoreVersions(w) \/ RestoreCreated(w)
  BY <1>1, <1>2, <1>4, <1>7 DEF RestoreDeleted, RestoreVersions, RestoreCreated, JobOK, Job
<1>8. CASE RestoreInsert(w) \/ RestorePut(w) \/ UndoVersion(w)
  BY <1>1, <1>8 DEF RestoreInsert, RestorePut, UndoVersion, JobOK, Job
<1>9. ~RestoreBegin(w)
  BY <1>1 DEF RestoreBegin, RestoreOf, At
<1> QED BY <1>5, <1>6, <1>7, <1>8, <1>9 DEF Restore

\* A step of a merge loses nothing that it found.
MergeLosesNothing(w) ==
    /\ \A d \in seenDoc : d.files # {} => Found(d)'
    /\ job'[w] # NoJob => MergesOn(w)'

\* Neither the table changes nor a blob goes, and no version is noted as created.
LEMMA MergeJustGoesOn ==
    ASSUME NEW w \in Writers, MergesOn(w), job'[w] # NoJob => seenDoc' = seenDoc,
           rows' = rows, blobs \subseteq blobs', pc'[w] = "idle",
           job'[w] # NoJob =>
                /\ job'[w].exists = job[w].exists /\ job'[w].fresh = job[w].fresh
                /\ job'[w].at \in {"company", "versions", "loop", "put", "undo_versions"}
                /\ job'[w].created \subseteq job[w].created
    PROVE  MergeLosesNothing(w)
<1>1. ASSUME NEW d \in seenDoc, d.files # {}
      PROVE  Found(d)' /\ d.version \notin job[w].created
  <2>1. Found(d) /\ d.files \subseteq blobs
    BY <1>1 DEF MergesOn, Found
  <2> QED BY <1>1, <2>1, FoundStays DEF MergesOn
<1>2. ASSUME job'[w] # NoJob
      PROVE  MergesOn(w)'
  <2>1. PICK b \in Nat : \A v \in job[w].created : v < b
    BY DEF MergesOn
  <2>2. \A v \in job'[w].created : v < b
    BY <1>2, <2>1
  <2> QED BY <1>1, <1>2, <2>2 DEF MergesOn
<1> QED BY <1>1, <1>2 DEF MergeLosesNothing

LEMMA MergeInserts ==
    ASSUME RestoreInv, NEW w \in Writers, job[w] \in Job, MergesOn(w), RestoreInsert(w),
           job'[w] # NoJob => seenDoc' = seenDoc
    PROVE  MergeLosesNothing(w)
<1> DEFINE j == job[w]
           v == Min(j.left)
           new == RestoredRow(j.backup, v)
<1>1. /\ ~HasVersion(rows, new.version) /\ rows' = rows \cup {new} /\ blobs' = blobs
      /\ pc'[w] = "idle" /\ j.left # {}
      /\ job' = [job EXCEPT ![w].at = "put", ![w].created = @ \cup {v}]
  BY DEF RestoreInsert, UniqueViolation, At
<1>2. /\ job'[w].at = "put" /\ job'[w].created = j.created \cup {v}
      /\ job'[w].fresh = j.fresh /\ job'[w].exists = j.exists
  BY <1>1 DEF RestoreInv, JobOK, Job
<1>3. job'[w] # NoJob /\ seenDoc' = seenDoc
  BY <1>2, JobIsNotNone
<1>4. v \in Nat /\ new.version = v
  BY <1>1, NextVersionLeft, VersionsAssumption DEF RestoreInv, RestoredRow
<1>5. ASSUME NEW d \in seenDoc, d.files # {}
      PROVE  Found(d)' /\ d.version \notin job'[w].created
  <2>1. Found(d) /\ d.files \subseteq blobs' /\ d.version \notin j.created
    BY <1>1, <1>5 DEF MergesOn, Found
  <2>2. d.version # v
    <3>1. PICK r \in rows : d = [version |-> r.version, company |-> r.company,
                                 prev |-> r.prev, files |-> d.files]
      BY <2>1 DEF Found
    <3>2. d.version = r.version
      BY <3>1
    <3> QED BY <1>1, <1>4, <3>2 DEF HasVersion
  <2> QED BY <1>1, <1>2, <2>1, <2>2, FoundStays
<1>6. \E b \in Nat : \A u \in job'[w].created : u < b
  <2>1. PICK b \in Nat : \A u \in j.created : u < b
    BY DEF MergesOn
  <2>2. j.created \subseteq Nat
    BY VersionsAssumption DEF Job
  <2>3. b + v + 1 \in Nat /\ \A u \in job'[w].created : u < b + v + 1
    BY <1>2, <1>4, <2>1, <2>2
  <2> QED BY <2>3
<1>7. MergesOn(w)'
  BY <1>1, <1>2, <1>3, <1>5, <1>6 DEF MergesOn
<1> QED BY <1>5, <1>7 DEF MergeLosesNothing

LEMMA MergeUndoes ==
    ASSUME RestoreInv, NEW w \in Writers, job[w] \in Job, MergesOn(w), UndoVersion(w),
           job'[w] # NoJob => seenDoc' = seenDoc
    PROVE  MergeLosesNothing(w)
<1> USE DEF RestoreInv, TableInv
<1> DEFINE j == job[w]
           v == Max(j.created)
<1>1. /\ pc[w] = "idle" /\ j.at = "undo_versions" /\ j.created # {}
      /\ job' = [job EXCEPT ![w].created = @ \ {v}]
  BY DEF UndoVersion, At
<1>2. /\ job'[w].at = "undo_versions" /\ job'[w].created = j.created \ {v}
      /\ job'[w].fresh = j.fresh /\ job'[w].exists = j.exists
  BY <1>1 DEF JobOK, Job
<1>3. PICK b \in Nat : \A u \in j.created : u < b
  BY DEF MergesOn
<1>4. v \in j.created
  <2>1. j.created \subseteq Nat
    BY VersionsAssumption DEF Job
  <2> QED BY <1>1, <1>3, <2>1, MaxOfBounded
<1>5. CASE DeleteVersionRow(w) /\ rows' = WithoutVersion(rows, v)
  <2>1. PICK u \in Versions :
            /\ HasVersion(rows, u)
            /\ rows' = WithoutVersion(rows, u)
            /\ doomed' = [doomed EXCEPT ![w] = FilesWithHash(ExclusiveHashes(rows, u))]
    BY <1>5 DEF DeleteVersionRow
  <2>2. u = v
    BY <1>5, <2>1 DEF HasVersion, WithoutVersion
  <2>3. /\ pc'[w] = "delete_version_list" /\ blobs' = blobs
        /\ doomed'[w] = FilesWithHash(ExclusiveHashes(rows, v))
    BY <1>5, <2>1, <2>2 DEF DeleteVersionRow, Goto, TypeOK
  <2>4. \A r \in rows' : r.files \cap doomed'[w] = {}
    BY <1>5, <2>3, ExclusiveHashesAreExclusive DEF TypeOK
  <2>5. ASSUME NEW d \in seenDoc, d.files # {}
        PROVE  Found(d)' /\ d.version \notin j.created /\ d.files \cap doomed'[w] = {}
    <3>1. Found(d) /\ d.files \subseteq blobs' /\ d.version \notin j.created
      BY <2>3, <2>5 DEF MergesOn, Found
    <3>2. Found(d)'
      BY <1>4, <1>5, <3>1, FoundStays DEF WithoutVersion
    <3>3. \E r \in rows' : d.files \subseteq r.files
      BY <3>2 DEF Found
    <3> QED BY <2>4, <3>1, <3>2, <3>3
  <2>6. job'[w] # NoJob /\ seenDoc' = seenDoc
    BY <1>2, JobIsNotNone
  <2>7. \A u1 \in job'[w].created : u1 < b
    BY <1>2, <1>3
  <2>8. MergesOn(w)'
    BY <1>2, <2>3, <2>5, <2>6, <2>7 DEF MergesOn
  <2> QED BY <2>5, <2>8 DEF MergeLosesNothing
<1>6. CASE DeleteVersionNotFound(w) \/ Refuse(w)
  <2>1. pc'[w] = "idle" /\ rows' = rows /\ blobs' = blobs
    BY <1>6 DEF DeleteVersionNotFound, Refuse, Finish, TypeOK
  <2> QED BY <1>2, <2>1, MergeJustGoesOn
<1> QED BY <1>5, <1>6 DEF UndoVersion

LEMMA MergeCalls ==
    ASSUME RestoreInv, NEW w \in Writers, job[w] # NoJob, MergesOn(w), Operation(w),
           job'[w] # NoJob => seenDoc' = seenDoc
    PROVE  MergeLosesNothing(w)
<1> USE DEF RestoreInv, TableInv
<1>1. /\ pc[w] \in {"delete_version_list", "delete_version_blobs"}
      /\ \A d \in seenDoc : d.files # {} => d.files \cap doomed[w] = {}
      /\ job' = job /\ seenDoc' = seenDoc /\ Step(w)
  BY DEF Operation, MergesOn
<1>2. \/ DeleteVersionList(w) \/ DeleteVersionBlobs(w) \/ DeleteVersionBlobsFails(w)
      \/ Crash(w)
  BY <1>1
  DEF Step, Refuse, Create, CreateExists, CreateBegin, CreatePut, CreatePutFails,
      CreateInsert, CreateInsertExists, CreateInsertFails, CreateNotify, CreateNotifyFails,
      CreateNotifyPanics, CreateDropList, CreateDrop, CreateDropRow, Add, AddNotFound,
      AddReadLatest, AddPrepare, AddRefused, AddInsert, AddInsertExists, AddInsertFails,
      AddPut, AddPutFails, AddNotify, AddNotifyFails, AddUndoRow, AddUndoRowFails,
      AddUndoList, AddUndoBlobs, Delete, DeleteNotFound, DeleteRows, DeleteRowsLost,
      DeleteList, DeleteBlobs, DeleteBlobsFails, DeleteVersion, DeleteVersionNotFound,
      DeleteVersionRow, DeleteVersionRowLost, SetCompany, Put, PutFails, List
<1>3. /\ rows' = rows /\ blobs \ doomed[w] \subseteq blobs'
      /\ \/ pc'[w] = "idle"
         \/ pc'[w] = "delete_version_blobs" /\ doomed'[w] \subseteq doomed[w]
  <2>1. CASE DeleteVersionList(w)
    BY <2>1 DEF DeleteVersionList, List, Goto, Finish, TypeOK
  <2>2. CASE DeleteVersionBlobs(w) \/ DeleteVersionBlobsFails(w) \/ Crash(w)
    BY <2>2 DEF DeleteVersionBlobs, DeleteVersionBlobsFails, Crash, Finish, TypeOK
  <2> QED BY <1>2, <2>1, <2>2
<1>4. ASSUME NEW d \in seenDoc, d.files # {}
      PROVE  Found(d)' /\ d.version \notin job[w].created
             /\ (pc'[w] # "idle" => d.files \cap doomed'[w] = {})
  <2>1. Found(d) /\ d.files \subseteq blobs /\ d.version \notin job[w].created
    BY <1>4 DEF MergesOn, Found
  <2> QED BY <1>1, <1>3, <1>4, <2>1, FoundStays
<1>5. MergesOn(w)'
  BY <1>1, <1>3, <1>4 DEF MergesOn
<1> QED BY <1>4, <1>5 DEF MergeLosesNothing

LEMMA MergeStep ==
    ASSUME RestoreInv, NEW w \in Writers, job[w] # NoJob, MergesOn(w),
           Restore(w) \/ Operation(w), job'[w] # NoJob => seenDoc' = seenDoc
    PROVE  MergeLosesNothing(w)
<1> USE DEF RestoreInv, TableInv
<1> DEFINE j == job[w]
           ats == {"company", "versions", "loop", "put", "undo_versions"}
<1>1. j \in Job /\ j.exists /\ ~j.fresh /\ j.at \in ats
  BY DEF JobOK, MergesOn
<1>2. ASSUME NEW e, Return(w, e), UNCHANGED <<rows, blobs>>
      PROVE  MergeLosesNothing(w)
  <2>1. pc'[w] = "idle" /\ job'[w] = NoJob
    BY <1>2 DEF Return, Finish, TypeOK, JobOK
  <2> QED BY <1>2, <2>1, MergeJustGoesOn
<1>3. ASSUME rows' = rows, blobs \subseteq blobs', pc'[w] = "idle",
             job'[w].exists = j.exists, job'[w].fresh = j.fresh,
             job'[w].at \in ats, job'[w].created = j.created
      PROVE  MergeLosesNothing(w)
  BY <1>3, MergeJustGoesOn
<1>4. ASSUME NEW cause, RollbackJob(w, cause)
      PROVE  /\ job'[w].exists = j.exists /\ job'[w].fresh = j.fresh
             /\ job'[w].at \in ats /\ job'[w].created = j.created
  BY <1>1, <1>4 DEF RollbackJob, JobOK, Job
<1>5. CASE RestoreCallFails(w) \/ RestoreDone(w) \/ UndoDone(w) \/ RestoreCrash(w)
  BY <1>2, <1>5 DEF RestoreCallFails, RestoreDone, UndoDone, RestoreCrash
<1>6. CASE RestoreCompany(w) /\ job'[w] # NoJob
  <2>1. /\ GotoJob(w, "versions") /\ UNCHANGED vars /\ pc[w] = "idle"
    BY <1>6 DEF RestoreCompany, Return, At, JobOK
  <2>2. /\ job'[w].exists = j.exists /\ job'[w].fresh = j.fresh
        /\ job'[w].at \in ats /\ job'[w].created = j.created
    BY <1>1, <2>1 DEF GotoJob, JobOK, Job
  <2>3. rows' = rows /\ blobs' = blobs /\ pc'[w] = "idle"
    BY <2>1 DEF vars, locals
  <2> QED BY <1>3, <2>2, <2>3
<1>7. CASE RestoreVersions(w) /\ job'[w] # NoJob
  <2>1. /\ job' = [job EXCEPT ![w].at = "loop",
                              ![w].left = {v \in @ : ~HasVersion(rows, v)}]
        /\ UNCHANGED vars /\ pc[w] = "idle"
    BY <1>7 DEF RestoreVersions, Return, At, JobOK
  <2>2. /\ job'[w].exists = j.exists /\ job'[w].fresh = j.fresh
        /\ job'[w].at \in ats /\ job'[w].created = j.created
    BY <1>1, <2>1 DEF JobOK, Job
  <2>3. rows' = rows /\ blobs' = blobs /\ pc'[w] = "idle"
    BY <2>1 DEF vars, locals
  <2> QED BY <1>3, <2>2, <2>3
<1>8. CASE (RestoreCompany(w) \/ RestoreVersions(w)) /\ job'[w] = NoJob
  <2>1. pc[w] = "idle" /\ rows' = rows /\ blobs' = blobs /\ pc'[w] = "idle"
    BY <1>8 DEF RestoreCompany, RestoreVersions, Return, Finish, At, TypeOK, vars, locals
  <2> QED BY <1>8, <2>1, MergeJustGoesOn
<1>9. CASE RestoreInsertFails(w)
  <2>1. PICK cause : RollbackJob(w, cause)
    BY <1>9 DEF RestoreInsertFails
  <2>2. rows' = rows /\ blobs' = blobs /\ pc'[w] = "idle"
    BY <1>9 DEF RestoreInsertFails, At, vars, locals
  <2> QED BY <1>3, <1>4, <2>1, <2>2
<1>10. CASE RestorePut(w)
  <2>1. rows' = rows /\ blobs \subseteq blobs' /\ pc'[w] = "idle"
    BY <1>10 DEF RestorePut, At
  <2>2. /\ job'[w].exists = j.exists /\ job'[w].fresh = j.fresh
        /\ job'[w].at \in ats /\ job'[w].created = j.created
    <3>1. \/ job' = [job EXCEPT ![w].at = "loop", ![w].left = @ \ {Min(@)}]
          \/ job' = job
      BY <1>10 DEF RestorePut
    <3>2. CASE job' = job
      BY <1>1, <3>2
    <3>3. CASE job' = [job EXCEPT ![w].at = "loop", ![w].left = @ \ {Min(@)}]
      <4>1. job'[w] = [j EXCEPT !.at = "loop", !.left = @ \ {Min(@)}]
        BY <3>3 DEF JobOK
      <4> QED BY <1>1, <4>1 DEF Job
    <3> QED BY <3>1, <3>2, <3>3
  <2> QED BY <1>3, <2>1, <2>2
<1>11. CASE RestorePutFails(w)
  <2>1. rows' = rows /\ blobs \subseteq blobs' /\ pc'[w] = "idle" /\ RollbackJob(w, "failed")
    BY <1>11 DEF RestorePutFails, At
  <2> QED BY <1>3, <1>4, <2>1
<1>12. ~ \/ RestoreBegin(w) \/ RestoreDelete(w) \/ RestoreDeleted(w)
         \/ RestoreCreate(w) \/ RestoreCreated(w) \/ UndoDocument(w)
  BY <1>1
  DEF RestoreBegin, RestoreOf, RestoreDelete, RestoreDeleted, RestoreCreate, RestoreCreated,
      UndoDocument, At
<1> QED
  BY <1>1, <1>5, <1>6, <1>7, <1>8, <1>9, <1>10, <1>11, <1>12, MergeInserts, MergeUndoes,
     MergeCalls
  DEF Restore
LEMMA MergeBegins ==
    ASSUME RestoreInv, NEW w \in Writers, seenDoc = View, RestoreBegin(w),
           job'[w] # NoJob => seenDoc' = seenDoc
    PROVE  MergeAt(w)'
<1> USE DEF RestoreInv, TableInv
<1>1. PICK backup \in Backups, recreate \in BOOLEAN :
        job' = [job EXCEPT ![w] =
            [backup |-> backup, recreate |-> recreate, left |-> VersionsOf(backup),
             exists |-> DocumentExists(blobs), fresh |-> FALSE, created |-> {},
             cause |-> "ok",
             at |-> IF ~DocumentExists(blobs) THEN "loop"
                    ELSE IF recreate THEN "delete" ELSE "company"]]
  BY DEF RestoreBegin, RestoreOf
<1>2. /\ job'[w].recreate = recreate /\ job'[w].exists = (blobs # {})
      /\ ~job'[w].fresh /\ job'[w].created = {}
      /\ job'[w].at = IF ~(blobs # {}) THEN "loop"
                      ELSE IF recreate THEN "delete" ELSE "company"
  BY <1>1 DEF JobOK, DocumentExists
<1>3. job'[w] # NoJob /\ seenDoc' = seenDoc /\ UNCHANGED vars /\ pc'[w] = "idle"
  BY <1>2, JobIsNotNone DEF RestoreBegin, RestoreOf, At, vars, locals
<1>4. CASE blobs = {}
  <2>1. \A d \in seenDoc' : d.files = {}
    BY <1>3, <1>4 DEF View
  <2> QED BY <2>1 DEF MergeAt
<1>5. CASE blobs # {} /\ ~recreate
  <2>1. ASSUME NEW d \in seenDoc'
        PROVE  Found(d)'
    <3>1. PICK r \in rows : d = [version |-> r.version, company |-> r.company,
                                 prev |-> r.prev, files |-> r.files \cap blobs]
      BY <1>3, <2>1 DEF View
    <3>2. rows' = rows /\ blobs' = blobs
      BY <1>3 DEF vars
    <3>3. /\ d = [version |-> r.version, company |-> r.company, prev |-> r.prev,
                  files |-> d.files]
          /\ d.files \subseteq r.files /\ d.files \subseteq blobs'
      BY <3>1, <3>2
    <3> QED BY <3>2, <3>3 DEF Found
  <2>2. \E b \in Nat : \A v \in job'[w].created : v < b
    <3>1. 0 \in Nat /\ \A v \in job'[w].created : v < 0
      BY <1>2
    <3> QED BY <3>1
  <2>3. MergesOn(w)'
    BY <1>2, <1>3, <1>5, <2>1, <2>2 DEF MergesOn
  <2> QED BY <2>3 DEF MergeAt
<1>6. CASE blobs # {} /\ recreate
  BY <1>2, <1>6 DEF MergeAt
<1> QED BY <1>4, <1>5, <1>6

\* No step of a merge of w takes away what it found.
MergeKept(w) ==
    job[w] # NoJob /\ ~job[w].recreate =>
        \A d \in seenDoc : d.files # {} => \E e \in View' :
            e = [d EXCEPT !.files = e.files] /\ d.files \subseteq e.files

LEMMA MergeInvStep ==
    ASSUME MergeInv, [AtomicNext]_atomicVars
    PROVE  /\ MergeInv'
           /\ UNCHANGED restoreVars \/ \A w \in Writers : MergeKept(w)
<1> USE DEF MergeInv
<1>1. RestoreInv'
  BY RestoreInvStep DEF AtomicNext, RestoreNext, atomicVars
<1>2. ASSUME NEW w \in Writers, Restore(w) \/ Operation(w), NextSeen
      PROVE  MergeInv' /\ \A v \in Writers : MergeKept(v)
  <2>1. \A v \in Writers : v = w
    BY OneWriterAssumption
  <2>2. job'[w] # NoJob => seenDoc' = seenDoc
    BY <1>2, SeenNext
  <2>3. BetweenCalls' => seenDoc' = View'
    BY <1>2 DEF NextSeen
  <2>4. CASE job[w] = NoJob /\ job'[w] = NoJob
    BY <1>1, <2>1, <2>3, <2>4 DEF MergeAt, MergeKept
  <2>5. CASE job[w] = NoJob /\ job'[w] # NoJob
    <3>1. RestoreBegin(w)
      BY <1>2, <2>5
      DEF Operation, Restore, RestoreCallFails, RestoreDelete, RestoreDeleted,
          RestoreCompany, RestoreVersions, RestoreCreate, RestoreCreated, RestoreInsert,
          RestoreInsertFails, RestorePut, RestorePutFails, RestoreDone, UndoDocument,
          UndoVersion, UndoDone, RestoreCrash, At, NoJob
    <3>2. BetweenCalls
      BY <2>1, <2>5, <3>1 DEF BetweenCalls, Quiescent, RestoreBegin, RestoreOf, At
    <3>3. MergeAt(w)'
      BY <2>2, <3>1, <3>2, MergeBegins
    <3> QED BY <1>1, <2>1, <2>3, <2>5, <3>3 DEF MergeKept
  <2>6. CASE job[w] # NoJob /\ job[w].recreate
    <3>1. MergeAt(w)'
      BY <1>2, <2>6, RestoreKeepsItsWay DEF MergeAt
    <3> QED BY <1>1, <2>1, <2>3, <2>6, <3>1 DEF MergeKept
  <2>7. CASE job[w] # NoJob /\ ~job[w].recreate
    <3>1. CASE \A d \in seenDoc : d.files = {}
      <4>1. MergeAt(w)'
        BY <2>2, <3>1 DEF MergeAt
      <4> QED BY <1>1, <2>1, <2>3, <3>1, <4>1 DEF MergeKept
    <3>2. CASE MergesOn(w)
      <4>1. MergeLosesNothing(w)
        BY <1>2, <2>2, <2>7, <3>2, MergeStep
      <4>2. MergeAt(w)'
        BY <4>1 DEF MergeLosesNothing, MergeAt
      <4>3. MergeKept(w)
        BY <4>1, FoundIsSeen DEF MergeLosesNothing, MergeKept
      <4> QED BY <1>1, <2>1, <2>3, <4>2, <4>3
    <3> QED BY <2>7, <3>1, <3>2 DEF MergeAt
  <2> QED BY <2>4, <2>5, <2>6, <2>7
<1>3. CASE UNCHANGED atomicVars
  <2>1. UNCHANGED <<rows, blobs, pc, doomed, job, seenDoc>> /\ UNCHANGED restoreVars
    BY <1>3 DEF atomicVars, restoreVars, vars, locals
  <2>2. BetweenCalls' = BetweenCalls /\ View' = View
    BY <2>1 DEF BetweenCalls, Quiescent, View
  <2>3. ASSUME NEW w \in Writers
        PROVE  MergeAt(w)'
    <3>1. \A d \in seenDoc : Found(d) => Found(d)'
      BY <2>1 DEF Found
    <3>2. MergesOn(w) => MergesOn(w)'
      BY <2>1, <3>1 DEF MergesOn
    <3> QED BY <2>1, <3>2 DEF MergeAt
  <2> QED BY <1>1, <2>1, <2>2, <2>3
<1> QED BY <1>2, <1>3 DEF AtomicNext

\* For one writer, no step of RestoreDocument in merge mode, of the operations that
\* it calls or of its rollback changes a version that it found or takes a file from
\* it: whatever calls fail, whatever answers are lost and wherever the process dies.
THEOREM MergesKeepVersions == AtomicSpec => MergeKeepsVersions
<1>1. AtomicInit => MergeInv
  <2> SUFFICES ASSUME AtomicInit
               PROVE  MergeInv
    OBVIOUS
  <2>1. \A w \in Writers : job[w] = NoJob
    BY DEF AtomicInit, RestoreInit
  <2> QED
    BY <2>1, InitRestoreInv DEF AtomicInit, InitSeen, MergeInv, MergeAt
<1>2. MergeInv /\ [AtomicNext]_atomicVars
        => MergeInv' /\ [\A w \in Writers : MergeKept(w)]_restoreVars
  BY MergeInvStep
<1>3. AtomicSpec => [][\A w \in Writers : MergeKept(w)]_restoreVars
  BY <1>1, <1>2, PTL DEF AtomicSpec
<1> QED BY <1>3 DEF MergeKeepsVersions, MergeKept
==============================================================================
