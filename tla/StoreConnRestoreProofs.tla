----------------------- MODULE StoreConnRestoreProofs -----------------------
(***************************************************************************)
(* What restores leave of the metadata table, for every set of writers,    *)
(* files, versions, companies, backups and faults.                         *)
(***************************************************************************)
EXTENDS StoreConnRestore, StoreConnProofs

\* Where a restore can be.
JobLabels == {"delete", "deleting", "company", "versions", "loop", "creating", "put",
              "undo_document", "undone_document", "undo_versions"}

Job == [backup : Backups, recreate : BOOLEAN, left : SUBSET Versions, exists : BOOLEAN,
        fresh : BOOLEAN, created : SUBSET Versions, cause : Errors, at : JobLabels]

\* A restore has only versions of its backup left.
JobOK ==
    /\ job \in [Writers -> Job \cup {NoJob}]
    /\ \A w \in Writers : job[w] \in Job => job[w].left \subseteq VersionsOf(job[w].backup)

RestoreInv == TableInv /\ JobOK

LEMMA InitRestoreInv == RestoreInit => RestoreInv
BY InitTableInv DEF RestoreInit, RestoreInv, JobOK, NoJob, Job

\* A writer at a label runs a restore.
LEMMA AtHasJob ==
    ASSUME JobOK, NEW w \in Writers, NEW label, label # "none", At(w, label)
    PROVE  /\ job[w] \in Job /\ pc[w] = "idle" /\ job[w].at = label
           /\ job[w].left \subseteq VersionsOf(job[w].backup)
BY DEF JobOK, At, NoJob

\* The next version of a restore is one of its backup.
LEMMA NextVersionLeft ==
    ASSUME JobOK, NEW w \in Writers, job[w] \in Job, job[w].left # {}
    PROVE  /\ Min(job[w].left) \in job[w].left
           /\ Min(job[w].left) \in Versions
           /\ Min(job[w].left) \in VersionsOf(job[w].backup)
<1>1. job[w].left \subseteq Nat
  BY VersionsAssumption DEF Job
<1> QED BY <1>1, MinOfNaturals DEF JobOK, Job

\* A restored row is well formed: its versions have files, and it is chained to
\* an older version of the backup.
LEMMA RestoredRowType ==
    ASSUME NEW backup \in Backups, NEW v \in VersionsOf(backup)
    PROVE  /\ RestoredRow(backup, v) \in Row
           /\ RestoredRow(backup, v).prev < RestoredRow(backup, v).version
<1>1. /\ IsValid(backup) /\ backup.company \in Companies
      /\ VersionsOf(backup) \subseteq Versions
      /\ \A u \in VersionsOf(backup) : backup.files[u] \in FileMaps
  BY BackupsAssumption
<1>2. backup.files[v] \in FileMaps \ {{}}
  BY <1>1 DEF IsValid
<1>3. v \in Nat \ {0} /\ VersionsOf(backup) \subseteq Nat
  BY <1>1, VersionsAssumption
<1>4. Predecessor(backup, v) \in VersionsOf(backup) \cup {NoVersion}
      /\ Predecessor(backup, v) < v
  BY <1>3, PredecessorIsNewestOlder DEF NoVersion
<1>5. FilesBefore(backup, v) \in SUBSET File
  BY <1>1, <1>4 DEF FilesBefore, FileMaps
<1>6. backup.files[v] \in SUBSET File
  BY <1>2 DEF FileMaps
<1>7. /\ AddedNames(FilesBefore(backup, v), backup.files[v]) \in SUBSET Names
      /\ RemovedNames(FilesBefore(backup, v), backup.files[v]) \in SUBSET Names
      /\ ModifiedNames(FilesBefore(backup, v), backup.files[v]) \in SUBSET Names
  BY <1>5, <1>6, ChangeListsType
<1> QED
  BY <1>1, <1>2, <1>4, <1>7 DEF RestoredRow, Row

----------------------------------------------------------------------------
(* What the steps of a restore do to the variables of StoreConn: those of  *)
(* a writer, those of a call that returns, or a change of their own.       *)

\* The restore returns, and no store is changed.
Returns(w) == \E e \in Errors : Finish(w, e) /\ UNCHANGED <<rows, blobs>>

\* The restore writes, while its writer is idle in the sense of StoreConn.
Writes(w) ==
    /\ \/ \E r \in Row : /\ ~UniqueViolation(rows, r)
                         /\ r.prev < r.version
                         /\ rows' = rows \cup {r}
       \/ UNCHANGED rows
    /\ blobs' \in SUBSET File
    /\ todo' \in [Writers -> SUBSET File]
    /\ UNCHANGED <<pc, row, inserted, doomed, err>>

LEMMA RestoreEffect ==
    ASSUME RestoreInv, NEW w \in Writers, Restore(w)
    PROVE  [Next]_vars \/ Returns(w) \/ Writes(w)
<1> USE DEF RestoreInv, TableInv
<1>1. CASE \/ RestoreBegin(w) \/ RestoreCreated(w) \/ RestoreInsertFails(w)
  BY <1>1 DEF RestoreBegin, RestoreOf, RestoreCreated, RestoreInsertFails
<1>2. CASE \/ RestoreCallFails(w) \/ RestoreDone(w) \/ RestoreCrash(w)
           \/ RestoreCompany(w) \/ RestoreVersions(w)
  BY <1>2
  DEF RestoreCallFails, RestoreDone, RestoreCrash, RestoreCompany, RestoreVersions,
      Return, Returns, Errors
<1>3. CASE RestoreDeleted(w)
  <2>1. err[w] \in Errors
    BY DEF TypeOK
  <2> QED BY <1>3, <2>1 DEF RestoreDeleted, Return, Returns
<1>4. CASE UndoDone(w)
  <2>1. job[w].cause \in Errors
    BY <1>4, AtHasJob DEF UndoDone, Job
  <2> QED BY <1>4, <2>1 DEF UndoDone, Return, Returns
<1>5. CASE RestoreDelete(w) \/ UndoDocument(w)
  BY <1>5 DEF RestoreDelete, UndoDocument, Next, Step, Delete
<1>6. CASE RestoreCreate(w)
  BY <1>6 DEF RestoreCreate, Next, Step, Create
<1>7. CASE UndoVersion(w)
  BY <1>7 DEF UndoVersion, Next, Step, DeleteVersion
<1>8. CASE RestoreInsert(w)
  <2> DEFINE new == RestoredRow(job[w].backup, Min(job[w].left))
  <2>1. job[w] \in Job /\ job[w].left # {}
    BY <1>8, AtHasJob DEF RestoreInsert
  <2>2. job[w].backup \in Backups
    BY <2>1 DEF Job
  <2>3. Min(job[w].left) \in VersionsOf(job[w].backup)
    BY <2>1, NextVersionLeft
  <2>4. new \in Row /\ new.prev < new.version
    BY <2>2, <2>3, RestoredRowType
  <2>5. new.files \in SUBSET File
    BY <2>4 DEF Row, FileMaps
  <2>6. /\ ~UniqueViolation(rows, new) /\ rows' = rows \cup {new}
        /\ todo' = [todo EXCEPT ![w] = new.files]
        /\ UNCHANGED <<blobs, pc, row, inserted, doomed, err>>
    BY <1>8 DEF RestoreInsert
  <2> HIDE DEF new
  <2> QED BY <2>4, <2>5, <2>6 DEF Writes, TypeOK
<1>9. CASE RestorePut(w) \/ RestorePutFails(w)
  BY <1>9 DEF RestorePut, RestorePutFails, Writes, TypeOK
<1> QED
  BY <1>1, <1>2, <1>3, <1>4, <1>5, <1>6, <1>7, <1>8, <1>9 DEF Restore

\* As in StoreConn, the table loses rows, takes one that violates no constraint,
\* or changes the company.
LEMMA RestoreTableStep ==
    ASSUME RestoreInv, [RestoreNext]_restoreVars
    PROVE  TableStep /\ TableInv'
<1> USE DEF RestoreInv
<1>1. ASSUME [Next]_vars
      PROVE  TableStep /\ TableInv'
  BY <1>1, TableInvStep, NextTableStep DEF vars, TableInv, TableStep
<1>2. ASSUME NEW w \in Writers, Returns(w)
      PROVE  TableStep /\ TableInv'
  <2>1. TypeOK'
    BY <1>2, FinishType DEF Returns, TableInv, TypeOK
  <2>2. RowHeld'
    BY <1>2, FinishKeepsGoodRow DEF Returns, TableInv, KeepsGoodRow, RowHeld
  <2>3. rows' = rows
    BY <1>2 DEF Returns
  <2> QED BY <2>1, <2>2, <2>3 DEF TableInv, TableConsistent, TableStep
<1>3. ASSUME NEW w \in Writers, Writes(w)
      PROVE  TableStep /\ TableInv'
  <2>1. TableStep
    BY <1>3 DEF Writes, TableStep
  <2>2. TypeOK'
    BY <1>3 DEF Writes, TableInv, TypeOK
  <2>3. RowHeld'
    BY <1>3 DEF Writes, TableInv, RowHeld
  <2> QED BY <2>1, <2>2, <2>3, TableStepConsistent DEF TableInv
<1>4. ASSUME NEW w \in Writers, Operation(w)
      PROVE  [Next]_vars
  BY <1>4 DEF Operation, Next
<1>5. CASE UNCHANGED restoreVars
  BY <1>1, <1>5 DEF restoreVars
<1> QED
  BY <1>1, <1>2, <1>3, <1>4, <1>5, RestoreEffect DEF RestoreNext

----------------------------------------------------------------------------
(* A step of a restore keeps JobOK.                                        *)

\* The step of w leaves a restore of the same backup, or none.
GoesOn(w) ==
    /\ job' = [job EXCEPT ![w] = job'[w]]
    /\ job'[w] \in Job \cup {NoJob}
    /\ job'[w] \in Job => job'[w].left \subseteq VersionsOf(job'[w].backup)

LEMMA GoesOnKeepsJobs ==
    ASSUME JobOK, NEW w \in Writers, GoesOn(w)
    PROVE  JobOK'
BY DEF JobOK, GoesOn

LEMMA RestoreGoesOn ==
    ASSUME RestoreInv, NEW w \in Writers, Restore(w)
    PROVE  GoesOn(w)
<1> USE DEF RestoreInv
<1>1. NoJob \notin Job /\ NoJob.at = "none" /\ "none" \notin JobLabels
  BY DEF NoJob, Job, JobLabels
<1>2. ASSUME NEW e, Return(w, e)
      PROVE  GoesOn(w)
  BY <1>1, <1>2 DEF Return, GoesOn, JobOK
<1>3. ASSUME job[w] \in Job, NEW label \in JobLabels, GotoJob(w, label)
      PROVE  GoesOn(w)
  BY <1>3 DEF GotoJob, GoesOn, JobOK, Job
<1>4. ASSUME job[w] \in Job, NEW e \in Errors, RollbackJob(w, e)
      PROVE  GoesOn(w)
  BY <1>4 DEF RollbackJob, GoesOn, JobOK, Job, JobLabels
<1>5. CASE RestoreBegin(w)
  <2>1. PICK backup \in Backups, recreate \in BOOLEAN, exists \in BOOLEAN,
             label \in {"loop", "delete", "company"} :
          job' = [job EXCEPT ![w] =
            [backup |-> backup, recreate |-> recreate, left |-> VersionsOf(backup),
             exists |-> exists, fresh |-> FALSE, created |-> {},
             cause |-> "ok", at |-> label]]
    BY <1>5 DEF RestoreBegin, RestoreOf, DocumentExists
  <2>2. VersionsOf(backup) \subseteq Versions
    BY BackupsAssumption
  <2>3. job'[w] = [backup |-> backup, recreate |-> recreate, left |-> VersionsOf(backup),
                   exists |-> exists, fresh |-> FALSE, created |-> {},
                   cause |-> "ok", at |-> label]
    BY <2>1 DEF JobOK
  <2>4. job'[w] \in Job
    BY <2>2, <2>3 DEF Job, JobLabels, Errors
  <2>5. job' = [job EXCEPT ![w] = job'[w]]
    BY <2>1, <2>3
  <2> QED
    BY <2>2, <2>3, <2>4, <2>5 DEF GoesOn
<1>6. CASE \/ RestoreCallFails(w) \/ RestoreDone(w) \/ UndoDone(w) \/ RestoreCrash(w)
  BY <1>2, <1>6 DEF RestoreCallFails, RestoreDone, UndoDone, RestoreCrash
<1>7. CASE RestoreDelete(w) \/ UndoDocument(w) \/ RestoreCreate(w) \/ RestoreCompany(w)
  BY <1>2, <1>3, <1>7, AtHasJob
  DEF RestoreDelete, UndoDocument, RestoreCreate, RestoreCompany, JobLabels
<1>8. CASE RestoreDeleted(w)
  <2>1. job[w] \in Job
    BY <1>8, AtHasJob DEF RestoreDeleted
  <2> QED BY <1>2, <1>8, <2>1 DEF RestoreDeleted, GoesOn, JobOK, Job, JobLabels
<1>9. CASE RestoreVersions(w)
  <2>1. job[w] \in Job
    BY <1>9, AtHasJob DEF RestoreVersions
  <2> QED BY <1>2, <1>9, <2>1 DEF RestoreVersions, GoesOn, JobOK, Job, JobLabels
<1>10. CASE RestoreCreated(w)
  <2>1. job[w] \in Job /\ err[w] \in Errors
    BY <1>10, AtHasJob DEF RestoreCreated, TableInv, TypeOK
  <2>2. CASE err[w] = "ok"
    BY <1>10, <2>1, <2>2 DEF RestoreCreated, GoesOn, JobOK, Job, JobLabels
  <2>3. CASE err[w] # "ok"
    BY <1>4, <1>10, <2>1, <2>3 DEF RestoreCreated
  <2> QED BY <2>2, <2>3
<1>11. CASE RestoreInsert(w)
  <2>1. job[w] \in Job /\ job[w].left # {}
    BY <1>11, AtHasJob DEF RestoreInsert
  <2>2. Min(job[w].left) \in Versions
    BY <2>1, NextVersionLeft
  <2>3. job' = [job EXCEPT ![w].at = "put", ![w].created = @ \cup {Min(job[w].left)}]
    BY <1>11 DEF RestoreInsert
  <2> QED BY <2>1, <2>2, <2>3 DEF GoesOn, JobOK, Job, JobLabels
<1>12. CASE RestoreInsertFails(w) \/ RestorePutFails(w)
  BY <1>4, <1>12, AtHasJob DEF RestoreInsertFails, RestorePutFails, Errors
<1>13. CASE RestorePut(w)
  <2>1. job[w] \in Job
    BY <1>13, AtHasJob DEF RestorePut
  <2> QED BY <1>13, <2>1 DEF RestorePut, GoesOn, JobOK, Job, JobLabels
<1>14. CASE UndoVersion(w)
  <2>1. job[w] \in Job
    BY <1>14, AtHasJob DEF UndoVersion
  <2>2. job' = [job EXCEPT ![w].created = @ \ {Max(job[w].created)}]
    BY <1>14 DEF UndoVersion
  <2> QED BY <2>1, <2>2 DEF GoesOn, JobOK, Job
<1> QED
  BY <1>5, <1>6, <1>7, <1>8, <1>9, <1>10, <1>11, <1>12, <1>13, <1>14 DEF Restore

LEMMA RestoreInvStep ==
    RestoreInv /\ [RestoreNext]_restoreVars => RestoreInv'
<1> SUFFICES ASSUME RestoreInv, [RestoreNext]_restoreVars
             PROVE  JobOK'
  BY RestoreTableStep DEF RestoreInv
<1>1. CASE UNCHANGED job
  BY <1>1 DEF RestoreInv, JobOK
<1> QED
  BY <1>1, RestoreGoesOn, GoesOnKeepsJobs DEF RestoreNext, Operation, restoreVars, RestoreInv

----------------------------------------------------------------------------
\* Restores that race with each other, with writers of every other operation, with
\* failures of every call and with crashes leave the unique constraints and the
\* order of versions intact: their inserts go past CreateDocument and
\* AddDocumentVersion (RestoreDocument, storeconn/conn.go).
THEOREM RestoresKeepTable == RestoreSpec => [](TypeOK /\ TableConsistent)
<1>1. RestoreInv => TypeOK /\ TableConsistent
  BY DEF RestoreInv, TableInv
<1> QED
  BY InitRestoreInv, RestoreInvStep, <1>1, PTL DEF RestoreSpec

\* No restore changes a version that is there, not even one with the backup's
\* timestamp, but for its company.
THEOREM RestoresKeepVersions == RestoreSpec => VersionsImmutable
<1>1. ASSUME RestoreInv, [RestoreNext]_restoreVars
      PROVE  [\A r \in rows, q \in rows' :
                 q.version = r.version => q = [r EXCEPT !.company = q.company]]_rows
  BY <1>1, RestoreTableStep, TableStepKeepsVersions DEF RestoreInv, TableInv
<1> QED
  BY InitRestoreInv, RestoreInvStep, <1>1, PTL DEF RestoreSpec, VersionsImmutable
=============================================================================
