-------------------------- MODULE StoreConnProofs --------------------------
(***************************************************************************)
(* What holds of StoreConn for every set of writers, files, versions,      *)
(* companies, operations and faults.                                       *)
(***************************************************************************)
EXTENDS StoreConnRaces, HashedDocumentProofs

\* The writer's row is the one it read or is about to write, and a row that is
\* not yet written is well formed.
RowHeld ==
    \A w \in Writers : pc[w] \in CreateLabels \cup AddLabels =>
        row[w] \in Row /\ row[w].prev < row[w].version

TableInv == TypeOK /\ RowHeld /\ TableConsistent

LEMMA GenesisRowType ==
    ASSUME NEW v \in Versions, NEW c \in Companies, NEW files \in FileMaps \ {{}}
    PROVE  /\ GenesisRow(v, c, files) \in Row
           /\ GenesisRow(v, c, files).prev < GenesisRow(v, c, files).version
BY NamesOfType, VersionsAssumption DEF GenesisRow, Row, NoVersion, FileMaps

LEMMA NextRowType ==
    ASSUME NEW latest \in Row, NEW keys, NEW v \in Versions, NEW c \in Companies,
           NEW written \in FileMaps, NEW removed \in SUBSET Names,
           Acceptable(latest, v, written, removed)
    PROVE  /\ NextRow(latest, keys, v, c, written, removed) \in Row
           /\ NextRow(latest, keys, v, c, written, removed).prev
                < NextRow(latest, keys, v, c, written, removed).version
<1>1. CarryForward(latest.files, removed, written) \in FileMaps \ {{}}
  BY CarryForwardType DEF Row, Acceptable
<1>2. NamesOf(written) \in SUBSET Names
  BY NamesOfType DEF FileMaps
<1>3. latest.version \in Versions /\ v > latest.version
  BY DEF Row, Acceptable
<1> QED
  BY <1>1, <1>2, <1>3, VersionsAssumption DEF NextRow, Row

LEMMA WithoutVersionSubset ==
    ASSUME NEW table, NEW v
    PROVE  WithoutVersion(table, v) \subseteq table
BY DEF WithoutVersion

LEMMA FilesWithHashType ==
    ASSUME NEW hashes
    PROVE  FilesWithHash(hashes) \in SUBSET File
BY DEF FilesWithHash

\* Returning to the caller keeps the types of the local variables.
LEMMA FinishType ==
    ASSUME TypeOK, NEW w \in Writers, NEW e \in Errors, Finish(w, e)
    PROVE  /\ pc' \in [Writers -> Labels]
           /\ row' \in [Writers -> Row \cup {NoRow}]
           /\ inserted' \in [Writers -> BOOLEAN]
           /\ todo' \in [Writers -> SUBSET File]
           /\ doomed' \in [Writers -> SUBSET File]
           /\ err' \in [Writers -> Errors]
BY DEF TypeOK, Finish, Labels

LEMMA RollbackType ==
    ASSUME TypeOK, NEW w \in Writers, NEW e \in Errors, NEW ins \in BOOLEAN,
           Rollback(w, e, ins)
    PROVE  /\ pc' \in [Writers -> Labels]
           /\ row' \in [Writers -> Row \cup {NoRow}]
           /\ inserted' \in [Writers -> BOOLEAN]
           /\ todo' \in [Writers -> SUBSET File]
           /\ doomed' \in [Writers -> SUBSET File]
           /\ err' \in [Writers -> Errors]
<1>1. CASE ~RollbackDropsBlobs(e) /\ ~ins
  BY <1>1, FinishType DEF Rollback
<1>2. CASE ~(~RollbackDropsBlobs(e) /\ ~ins)
  BY <1>2 DEF Rollback, TypeOK, Goto, Labels, CreateLabels
<1> QED BY <1>1, <1>2

LEMMA InitTableInv == Init => TableInv
BY DEF Init, TableInv, TypeOK, RowHeld, TableConsistent, Labels, CreateLabels,
       AddLabels, Errors

LEMMA CreateType ==
    ASSUME TypeOK, RowHeld, NEW w \in Writers, Create(w)
    PROVE  TypeOK'
<1> USE DEF Errors, DocumentExists
<1>1. CASE CreateExists(w)
  BY <1>1, FinishType DEF CreateExists, TypeOK
<1>2. CASE CreateBegin(w)
  BY <1>2, GenesisRowType
  DEF CreateBegin, TypeOK, Goto, Labels, CreateLabels, FileMaps
<1>3. CASE CreatePut(w)
  BY <1>3 DEF CreatePut, Put, TypeOK, Goto, Labels, CreateLabels
<1>4. CASE CreatePutFails(w)
  BY <1>4, RollbackType DEF CreatePutFails, PutFails, TypeOK
<1>5. CASE CreateInsert(w)
  BY <1>5 DEF CreateInsert, TypeOK, RowHeld, Goto, Labels, CreateLabels
<1>6. CASE CreateInsertExists(w)
  BY <1>6, RollbackType DEF CreateInsertExists, TypeOK
<1>7. CASE CreateInsertFails(w)
  BY <1>7, RollbackType DEF CreateInsertFails, TypeOK, RowHeld, CreateLabels
<1>8. CASE CreateNotify(w)
  BY <1>8, FinishType DEF CreateNotify, TypeOK
<1>9. CASE CreateNotifyFails(w)
  BY <1>9, RollbackType DEF CreateNotifyFails, TypeOK
<1>10. CASE CreateNotifyPanics(w)
  BY <1>10, FinishType DEF CreateNotifyPanics, TypeOK
<1>11. CASE CreateDropList(w)
  BY <1>11 DEF CreateDropList, List, TypeOK, Goto, Labels, CreateLabels
<1>12. CASE CreateDrop(w)
  <2>1. blobs' \subseteq File /\ rows' \subseteq Row
    BY <1>12 DEF CreateDrop, TypeOK
  <2>2. CASE inserted[w]
    BY <1>12, <2>1, <2>2 DEF CreateDrop, TypeOK, Goto, Labels, CreateLabels
  <2>3. CASE ~inserted[w]
    BY <1>12, <2>1, <2>3, FinishType DEF CreateDrop, TypeOK
  <2> QED BY <2>2, <2>3
<1>13. CASE CreateDropRow(w)
  <2>1. err[w] \in Errors
    BY DEF TypeOK
  <2> QED BY <1>13, <2>1, FinishType, WithoutVersionSubset DEF CreateDropRow, TypeOK
<1> QED
  BY <1>1, <1>2, <1>3, <1>4, <1>5, <1>6, <1>7, <1>8, <1>9, <1>10, <1>11, <1>12,
     <1>13 DEF Create

LEMMA AddType ==
    ASSUME TypeOK, RowHeld, NEW w \in Writers, Add(w)
    PROVE  TypeOK'
<1> USE DEF Errors
<1>1. CASE AddNotFound(w)
  BY <1>1, FinishType DEF AddNotFound, TypeOK
<1>2. CASE AddReadLatest(w)
  BY <1>2 DEF AddReadLatest, TypeOK, Goto, Labels, AddLabels
<1>3. CASE AddPrepare(w)
  <2>1. row[w] \in Row
    BY <1>3 DEF AddPrepare, RowHeld, AddLabels
  <2>2. row' \in [Writers -> Row \cup {NoRow}] /\ todo' \in [Writers -> SUBSET File]
    BY <1>3, <2>1, NextRowType DEF AddPrepare, TypeOK, FileMaps
  <2> QED BY <1>3, <2>2 DEF AddPrepare, TypeOK, Goto, Labels, AddLabels
<1>4. CASE AddRefused(w)
  BY <1>4, FinishType DEF AddRefused, TypeOK
<1>5. CASE AddInsert(w)
  BY <1>5 DEF AddInsert, TypeOK, RowHeld, Goto, Labels, AddLabels
<1>6. CASE AddInsertExists(w)
  BY <1>6, FinishType DEF AddInsertExists, TypeOK
<1>7. CASE AddInsertFails(w)
  BY <1>7, FinishType DEF AddInsertFails, TypeOK, RowHeld, AddLabels
<1>8. CASE AddPut(w)
  BY <1>8 DEF AddPut, Put, TypeOK, Goto, Labels, AddLabels
<1>9. CASE AddPutFails(w)
  BY <1>9 DEF AddPutFails, PutFails, AddUndo, TypeOK, Goto, Labels, AddLabels
<1>10. CASE AddNotify(w)
  BY <1>10, FinishType DEF AddNotify, TypeOK
<1>11. CASE AddNotifyFails(w)
  BY <1>11 DEF AddNotifyFails, AddUndo, TypeOK, Goto, Labels, AddLabels
<1>12. CASE AddUndoRow(w)
  <2>1. rows' \subseteq Row /\ blobs' \subseteq File
    BY <1>12, WithoutVersionSubset DEF AddUndoRow, TypeOK
  <2>2. CASE ExclusiveHashes(rows, row[w].version) = {}
    BY <1>12, <2>1, <2>2, FinishType DEF AddUndoRow, TypeOK
  <2>3. CASE ExclusiveHashes(rows, row[w].version) # {}
    <3>1. FilesWithHash(ExclusiveHashes(rows, row[w].version)) \in SUBSET File
      BY FilesWithHashType
    <3>2. /\ pc' = [pc EXCEPT ![w] = "add_undo_list"]
          /\ inserted' = [inserted EXCEPT ![w] = FALSE]
          /\ doomed' = [doomed EXCEPT ![w] =
                            FilesWithHash(ExclusiveHashes(rows, row[w].version))]
          /\ UNCHANGED <<row, todo, err>>
      BY <1>12, <2>3 DEF AddUndoRow, Goto
    <3>3. pc' \in [Writers -> Labels]
      BY <3>2 DEF TypeOK, Labels, AddLabels
    <3>4. inserted' \in [Writers -> BOOLEAN] /\ doomed' \in [Writers -> SUBSET File]
      BY <3>1, <3>2 DEF TypeOK
    <3> QED BY <2>1, <3>2, <3>3, <3>4 DEF TypeOK
  <2> QED BY <2>2, <2>3
<1>13. CASE AddUndoRowFails(w)
  BY <1>13, FinishType, WithoutVersionSubset DEF AddUndoRowFails, TypeOK
<1>14. CASE AddUndoList(w)
  BY <1>14 DEF AddUndoList, List, TypeOK, Goto, Labels, AddLabels
<1>15. CASE AddUndoBlobs(w)
  BY <1>15, FinishType DEF AddUndoBlobs, TypeOK
<1> QED
  BY <1>1, <1>2, <1>3, <1>4, <1>5, <1>6, <1>7, <1>8, <1>9, <1>10, <1>11, <1>12,
     <1>13, <1>14, <1>15 DEF Add

LEMMA DeletesType ==
    ASSUME TypeOK, NEW w \in Writers, Delete(w) \/ DeleteVersion(w)
    PROVE  TypeOK'
<1> USE DEF Errors
<1>1. CASE DeleteNotFound(w)
  BY <1>1, FinishType DEF DeleteNotFound, TypeOK
<1>2. CASE DeleteRows(w)
  BY <1>2 DEF DeleteRows, TypeOK, Goto, Labels, DeleteLabels
<1>3. CASE DeleteRowsLost(w)
  BY <1>3, FinishType DEF DeleteRowsLost, TypeOK
<1>4. CASE DeleteList(w)
  BY <1>4 DEF DeleteList, List, TypeOK, Goto, Labels, DeleteLabels
<1>5. CASE DeleteBlobs(w)
  BY <1>5, FinishType DEF DeleteBlobs, TypeOK
<1>6. CASE DeleteBlobsFails(w)
  BY <1>6, FinishType DEF DeleteBlobsFails, TypeOK
<1>7. CASE DeleteVersionNotFound(w)
  BY <1>7, FinishType DEF DeleteVersionNotFound, TypeOK
<1>8. CASE DeleteVersionRow(w)
  BY <1>8, WithoutVersionSubset, FilesWithHashType
  DEF DeleteVersionRow, TypeOK, Goto, Labels, DeleteLabels
<1>9. CASE DeleteVersionRowLost(w)
  BY <1>9, FinishType, WithoutVersionSubset DEF DeleteVersionRowLost, TypeOK
<1>10. CASE DeleteVersionList(w) /\ blobs = {}
  BY <1>10, FinishType DEF DeleteVersionList, TypeOK
<1>11. CASE DeleteVersionList(w) /\ blobs # {}
  BY <1>11 DEF DeleteVersionList, List, TypeOK, Goto, Labels, DeleteLabels
<1>12. CASE DeleteVersionBlobs(w)
  BY <1>12, FinishType DEF DeleteVersionBlobs, TypeOK
<1>13. CASE DeleteVersionBlobsFails(w)
  BY <1>13, FinishType DEF DeleteVersionBlobsFails, TypeOK
<1> QED
  BY <1>1, <1>2, <1>3, <1>4, <1>5, <1>6, <1>7, <1>8, <1>9, <1>10, <1>11, <1>12,
     <1>13 DEF Delete, DeleteVersion

LEMMA WithCompanyType ==
    ASSUME NEW table \in SUBSET Row, NEW c \in Companies
    PROVE  WithCompany(table, c) \in SUBSET Row
BY DEF WithCompany, Row

LEMMA TypeStep ==
    TypeOK /\ RowHeld /\ [Next]_vars => TypeOK'
<1> SUFFICES ASSUME TypeOK, RowHeld, [Next]_vars
             PROVE  TypeOK'
  OBVIOUS
<1> USE DEF Errors
<1>1. ASSUME NEW w \in Writers, Refuse(w)
      PROVE  TypeOK'
  BY <1>1, FinishType DEF Refuse, TypeOK
<1>2. ASSUME NEW w \in Writers, SetCompany(w)
      PROVE  TypeOK'
  BY <1>2, FinishType, WithCompanyType DEF SetCompany, TypeOK
<1>3. ASSUME NEW w \in Writers, Crash(w)
      PROVE  TypeOK'
  BY <1>3, FinishType DEF Crash, TypeOK
<1>4. CASE UNCHANGED vars
  BY <1>4 DEF vars, locals, TypeOK
<1> QED
  BY <1>1, <1>2, <1>3, <1>4, CreateType, AddType, DeletesType DEF Next, Step

----------------------------------------------------------------------------
(* RowHeld is preserved: a step of writer w leaves the rows the others     *)
(* hold, and brings w to a call that needs a row only with a good one.     *)

\* What a step of w does that returns, keeps its row, or takes a good row.
KeepsGoodRow(w) ==
    /\ \A v \in Writers \ {w} : pc'[v] = pc[v] /\ row'[v] = row[v]
    /\ \/ pc'[w] \notin CreateLabels \cup AddLabels
       \/ row'[w] = row[w] /\ pc[w] \in CreateLabels \cup AddLabels
       \/ row'[w] \in Row /\ row'[w].prev < row'[w].version

LEMMA FinishKeepsGoodRow ==
    ASSUME TypeOK, NEW w \in Writers, NEW e, Finish(w, e)
    PROVE  KeepsGoodRow(w)
BY DEF Finish, KeepsGoodRow, TypeOK, CreateLabels, AddLabels

LEMMA RollbackKeepsGoodRow ==
    ASSUME TypeOK, NEW w \in Writers, NEW e, NEW ins \in BOOLEAN, Rollback(w, e, ins),
           pc[w] \in CreateLabels
    PROVE  KeepsGoodRow(w)
<1>1. CASE ~RollbackDropsBlobs(e) /\ ~ins
  BY <1>1, FinishKeepsGoodRow DEF Rollback
<1>2. CASE ~(~RollbackDropsBlobs(e) /\ ~ins)
  BY <1>2 DEF Rollback, KeepsGoodRow, TypeOK, Goto
<1> QED BY <1>1, <1>2

LEMMA CreateKeepsGoodRow ==
    ASSUME TypeOK, NEW w \in Writers, Create(w)
    PROVE  KeepsGoodRow(w)
<1>1. CASE CreateExists(w) \/ CreateNotify(w) \/ CreateNotifyPanics(w) \/ CreateDropRow(w)
  BY <1>1, FinishKeepsGoodRow
  DEF CreateExists, CreateNotify, CreateNotifyPanics, CreateDropRow
<1>2. CASE CreateBegin(w)
  BY <1>2, GenesisRowType DEF CreateBegin, TypeOK, Goto, KeepsGoodRow
<1>3. CASE CreatePut(w) \/ CreateInsert(w) \/ CreateDropList(w)
  BY <1>3
  DEF CreatePut, Put, CreateInsert, CreateDropList, List, TypeOK, Goto, KeepsGoodRow,
      CreateLabels
<1>4. CASE CreatePutFails(w) \/ CreateInsertExists(w) \/ CreateInsertFails(w)
             \/ CreateNotifyFails(w)
  BY <1>4, RollbackKeepsGoodRow
  DEF CreatePutFails, PutFails, CreateInsertExists, CreateInsertFails,
      CreateNotifyFails, CreateLabels
<1>5. CASE CreateDrop(w)
  <2>1. CASE inserted[w]
    BY <1>5, <2>1 DEF CreateDrop, TypeOK, Goto, KeepsGoodRow, CreateLabels
  <2>2. CASE ~inserted[w]
    BY <1>5, <2>2, FinishKeepsGoodRow DEF CreateDrop
  <2> QED BY <2>1, <2>2
<1> QED
  BY <1>1, <1>2, <1>3, <1>4, <1>5 DEF Create

LEMMA AddKeepsGoodRow ==
    ASSUME TypeOK, RowHeld, TableConsistent, NEW w \in Writers, Add(w)
    PROVE  KeepsGoodRow(w)
<1>1. CASE \/ AddNotFound(w) \/ AddRefused(w) \/ AddInsertExists(w) \/ AddInsertFails(w)
           \/ AddNotify(w) \/ AddUndoRowFails(w) \/ AddUndoBlobs(w)
  BY <1>1, FinishKeepsGoodRow
  DEF AddNotFound, AddRefused, AddInsertExists, AddInsertFails, AddNotify,
      AddUndoRowFails, AddUndoBlobs
<1>2. CASE AddReadLatest(w)
  BY <1>2 DEF AddReadLatest, TypeOK, Goto, KeepsGoodRow, TableConsistent
<1>3. CASE AddPrepare(w)
  <2>1. row[w] \in Row
    BY <1>3 DEF AddPrepare, RowHeld, AddLabels
  <2> QED
    BY <1>3, <2>1, NextRowType DEF AddPrepare, TypeOK, Goto, KeepsGoodRow
<1>4. CASE AddInsert(w) \/ AddPut(w) \/ AddUndoList(w)
  BY <1>4
  DEF AddInsert, AddPut, Put, AddUndoList, List, TypeOK, Goto, KeepsGoodRow, AddLabels
<1>5. CASE AddPutFails(w) \/ AddNotifyFails(w)
  BY <1>5
  DEF AddPutFails, PutFails, AddNotifyFails, AddUndo, TypeOK, Goto, KeepsGoodRow,
      AddLabels
<1>6. CASE AddUndoRow(w)
  <2>1. CASE ExclusiveHashes(rows, row[w].version) = {}
    BY <1>6, <2>1, FinishKeepsGoodRow DEF AddUndoRow
  <2>2. CASE ExclusiveHashes(rows, row[w].version) # {}
    BY <1>6, <2>2 DEF AddUndoRow, TypeOK, Goto, KeepsGoodRow, AddLabels
  <2> QED BY <2>1, <2>2
<1> QED
  BY <1>1, <1>2, <1>3, <1>4, <1>5, <1>6 DEF Add

LEMMA DeletesKeepGoodRow ==
    ASSUME TypeOK, NEW w \in Writers, Delete(w) \/ DeleteVersion(w)
    PROVE  KeepsGoodRow(w)
<1>1. CASE \/ DeleteNotFound(w) \/ DeleteRowsLost(w) \/ DeleteBlobs(w)
           \/ DeleteBlobsFails(w) \/ DeleteVersionNotFound(w)
           \/ DeleteVersionRowLost(w) \/ (DeleteVersionList(w) /\ blobs = {})
           \/ DeleteVersionBlobs(w) \/ DeleteVersionBlobsFails(w)
  BY <1>1, FinishKeepsGoodRow
  DEF DeleteNotFound, DeleteRowsLost, DeleteBlobs, DeleteBlobsFails,
      DeleteVersionNotFound, DeleteVersionRowLost, DeleteVersionList,
      DeleteVersionBlobs, DeleteVersionBlobsFails
<1>2. CASE \/ DeleteRows(w) \/ DeleteList(w) \/ DeleteVersionRow(w)
           \/ (DeleteVersionList(w) /\ blobs # {})
  BY <1>2
  DEF DeleteRows, DeleteList, DeleteVersionRow, DeleteVersionList, List, TypeOK, Goto,
      KeepsGoodRow, CreateLabels, AddLabels
<1> QED
  BY <1>1, <1>2 DEF Delete, DeleteVersion

LEMMA RowHeldStep ==
    TableInv /\ [Next]_vars => RowHeld'
<1> SUFFICES ASSUME TableInv, [Next]_vars
             PROVE  RowHeld'
  OBVIOUS
<1> USE DEF TableInv
<1>1. ASSUME NEW w \in Writers, KeepsGoodRow(w)
      PROVE  RowHeld'
  BY <1>1 DEF KeepsGoodRow, RowHeld
<1>2. ASSUME NEW w \in Writers, Refuse(w) \/ SetCompany(w) \/ Crash(w)
      PROVE  RowHeld'
  BY <1>1, <1>2, FinishKeepsGoodRow DEF Refuse, SetCompany, Crash
<1>3. CASE UNCHANGED vars
  BY <1>3 DEF vars, locals, RowHeld
<1> QED
  BY <1>1, <1>2, <1>3, CreateKeepsGoodRow, AddKeepsGoodRow, DeletesKeepGoodRow DEF Next, Step

----------------------------------------------------------------------------
(* The table changes only by losing rows, by taking one that violates no   *)
(* constraint, or by a change of company.                                  *)

TableStep ==
    \/ rows' \subseteq rows
    \/ \E r \in Row : /\ ~UniqueViolation(rows, r)
                      /\ r.prev < r.version
                      /\ rows' = rows \cup {r}
    \/ \E c \in Companies : rows' = WithCompany(rows, c)

LEMMA CreateTableStep ==
    ASSUME RowHeld, NEW w \in Writers, Create(w)
    PROVE  TableStep
<1>1. CASE CreateInsert(w) \/ CreateInsertFails(w)
  BY <1>1 DEF CreateInsert, CreateInsertFails, RowHeld, TableStep, CreateLabels
<1>2. CASE CreateDropRow(w)
  BY <1>2, WithoutVersionSubset DEF CreateDropRow, TableStep
<1> QED
  BY <1>1, <1>2
  DEF Create, CreateExists, CreateBegin, CreatePut, Put, CreatePutFails, PutFails,
      CreateInsertExists, CreateNotify, CreateNotifyFails, CreateNotifyPanics,
      CreateDropList, List, CreateDrop, TableStep

LEMMA AddTableStep ==
    ASSUME RowHeld, NEW w \in Writers, Add(w)
    PROVE  TableStep
<1>1. CASE AddInsert(w) \/ AddInsertFails(w)
  BY <1>1 DEF AddInsert, AddInsertFails, RowHeld, TableStep, AddLabels
<1>2. CASE AddUndoRow(w) \/ AddUndoRowFails(w)
  BY <1>2, WithoutVersionSubset DEF AddUndoRow, AddUndoRowFails, TableStep
<1> QED
  BY <1>1, <1>2
  DEF Add, AddNotFound, AddReadLatest, AddPrepare, AddRefused, AddInsertExists, AddPut,
      Put, AddPutFails, PutFails, AddNotify, AddNotifyFails, AddUndoList, List,
      AddUndoBlobs, TableStep

LEMMA DeletesTableStep ==
    ASSUME NEW w \in Writers, Delete(w) \/ DeleteVersion(w)
    PROVE  TableStep
<1>1. CASE DeleteVersionRow(w) \/ DeleteVersionRowLost(w)
  BY <1>1, WithoutVersionSubset DEF DeleteVersionRow, DeleteVersionRowLost, TableStep
<1> QED
  BY <1>1
  DEF Delete, DeleteVersion, DeleteNotFound, DeleteRows, DeleteRowsLost, DeleteList,
      List, DeleteBlobs, DeleteBlobsFails, DeleteVersionNotFound,
      DeleteVersionList, DeleteVersionBlobs,
      DeleteVersionBlobsFails, TableStep

LEMMA NextTableStep ==
    ASSUME RowHeld, Next
    PROVE  TableStep
<1>1. ASSUME NEW w \in Writers, Refuse(w) \/ SetCompany(w) \/ Crash(w)
      PROVE  TableStep
  BY <1>1 DEF Refuse, SetCompany, Crash, TableStep
<1> QED
  BY <1>1, CreateTableStep, AddTableStep, DeletesTableStep DEF Next, Step

LEMMA TableStepConsistent ==
    ASSUME TypeOK, TableConsistent, TableStep
    PROVE  TableConsistent'
<1> USE DEF TableConsistent
<1>1. CASE rows' \subseteq rows
  BY <1>1
<1>2. ASSUME NEW r \in Row, ~UniqueViolation(rows, r), r.prev < r.version,
             rows' = rows \cup {r}
      PROVE  TableConsistent'
  BY <1>2 DEF UniqueViolation, HasVersion, IsGenesis, Row
<1>3. ASSUME NEW c \in Companies, rows' = WithCompany(rows, c)
      PROVE  TableConsistent'
  BY <1>3 DEF WithCompany, IsGenesis, TypeOK, Row
<1> QED
  BY <1>1, <1>2, <1>3 DEF TableStep

LEMMA TableStepKeepsVersions ==
    ASSUME TypeOK, TableConsistent, TableStep,
           NEW r \in rows, NEW q \in rows', q.version = r.version
    PROVE  q = [r EXCEPT !.company = q.company]
<1>1. r \in Row /\ (q \in rows => q = r)
  BY DEF TypeOK, TableConsistent
<1>2. q = r => q = [r EXCEPT !.company = q.company]
  BY <1>1 DEF Row
<1>3. CASE q \in rows
  BY <1>1, <1>2, <1>3
<1>4. ASSUME NEW s \in Row, ~UniqueViolation(rows, s), rows' = rows \cup {s},
             q \notin rows
      PROVE  FALSE
  BY <1>4 DEF UniqueViolation, HasVersion
<1>5. ASSUME NEW c \in Companies, rows' = WithCompany(rows, c)
      PROVE  q = [r EXCEPT !.company = q.company]
  <2>1. PICK s \in rows : q = [s EXCEPT !.company = c]
    BY <1>5 DEF WithCompany
  <2>2. s = r
    BY <2>1 DEF TypeOK, TableConsistent, Row
  <2> QED
    BY <1>1, <2>1, <2>2 DEF Row
<1> QED
  BY <1>3, <1>4, <1>5 DEF TableStep

LEMMA TableInvStep ==
    TableInv /\ [Next]_vars => TableInv'
<1> SUFFICES ASSUME TableInv, [Next]_vars
             PROVE  TableConsistent'
  BY TypeStep, RowHeldStep DEF TableInv
<1>1. CASE UNCHANGED vars
  BY <1>1 DEF vars, TableInv, TableConsistent
<1> QED
  BY <1>1, NextTableStep, TableStepConsistent DEF TableInv

\* Every reachable state is well typed and satisfies the constraints of the
\* metadata table.
THEOREM TableInvariant == Spec => [](TypeOK /\ TableConsistent)
<1>1. TableInv => TypeOK /\ TableConsistent
  BY DEF TableInv
<1> QED
  BY InitTableInv, TableInvStep, <1>1, PTL DEF Spec

\* What the functions of storeconn/conn.go keep between two calls has its types
\* whatever fails and whoever races; rows and object keys are of the schema.
THEOREM StoreTypesCorrect == Spec => []TypeOK
BY TableInvariant, PTL

\* No step of any writer changes a committed version but for its company.
THEOREM VersionsStayTheSame == Spec => VersionsImmutable
<1>1. ASSUME TableInv, [Next]_vars
      PROVE  [\A r \in rows, q \in rows' :
                 q.version = r.version => q = [r EXCEPT !.company = q.company]]_rows
  BY <1>1, NextTableStep, TableStepKeepsVersions DEF vars, TableInv
<1> QED
  BY InitTableInv, TableInvStep, <1>1, PTL DEF Spec, VersionsImmutable

----------------------------------------------------------------------------
(* One writer never loses content: whatever fails and wherever it dies,    *)
(* short of the faults in ContentLosingFaults, every settled version keeps *)
(* all its blobs.  For every number of files, versions and companies, and  *)
(* every choice of operations.                                             *)


OneWriter == \E w : Writers = {w}

NoContentLosingFault == Faults \cap ContentLosingFaults = {}

\* Every row has its blobs, but for the one that the writer may take back.
OtherRowsPresent(w) ==
    \A r \in rows : r.files \subseteq blobs \/ (inserted[w] /\ r = row[w])

\* What the writer relies on at each of its calls.
AtCreate(w) ==
    /\ pc[w] = "create_put" =>
         ~inserted[w] /\ rows = {} /\ row[w].files \subseteq blobs \cup todo[w]
    /\ pc[w] = "create_insert" =>
         ~inserted[w] /\ rows = {} /\ row[w].files \subseteq blobs
    /\ pc[w] = "create_notify" => rows = {row[w]} /\ row[w].files \subseteq blobs
    /\ pc[w] \in {"create_drop_list", "create_drop"} =>
         /\ rows \subseteq {row[w]}
         /\ row[w] \in rows => inserted[w] /\ row[w].files \subseteq blobs
    /\ pc[w] = "create_drop_row" => rows \subseteq {row[w]}

AtAdd(w) ==
    /\ pc[w] = "add_prepare" => ~inserted[w] /\ row[w] \in rows
    /\ pc[w] = "add_insert" =>
         ~inserted[w] /\ row[w].files \subseteq blobs \cup todo[w]
    /\ pc[w] = "add_put" => row[w] \in rows /\ row[w].files \subseteq blobs \cup todo[w]
    /\ pc[w] = "add_notify" => row[w] \in rows /\ row[w].files \subseteq blobs
    /\ pc[w] = "add_undo_row" => row[w] \in rows

AtDelete(w) ==
    /\ pc[w] \in {"add_undo_list", "add_undo_blobs", "delete_version_list",
                  "delete_version_blobs"} =>
         ~inserted[w] /\ \A r \in rows : r.files \cap doomed[w] = {}
    /\ pc[w] \in {"delete_list", "delete_blobs"} => ~inserted[w] /\ rows = {}
    /\ pc[w] = "idle" => ~inserted[w]

ContentInv ==
    \A w \in Writers :
        OtherRowsPresent(w) /\ AtCreate(w) /\ AtAdd(w) /\ AtDelete(w)

LEMMA InitContentInv == Init => ContentInv
BY DEF Init, ContentInv, OtherRowsPresent, AtCreate, AtAdd, AtDelete

LEMMA ContentInvImpliesContentPresent ==
    ASSUME OneWriter, ContentInv
    PROVE  ContentPresent
BY DEF OneWriter, ContentInv, OtherRowsPresent, ContentPresent, Settled

\* Blobs of hashes that only version v references serve no other version.
LEMMA ExclusiveHashesAreExclusive ==
    ASSUME NEW table \in SUBSET Row, NEW v, NEW r \in WithoutVersion(table, v)
    PROVE  r.files \cap FilesWithHash(ExclusiveHashes(table, v)) = {}
BY DEF WithoutVersion, FilesWithHash, ExclusiveHashes, HashesOf, Row

\* The writer may return to its caller once every row has its blobs.
LEMMA FinishContent ==
    ASSUME OneWriter, TypeOK, NEW w \in Writers, NEW e, Finish(w, e),
           \A r \in rows' : r.files \subseteq blobs'
    PROVE  ContentInv'
BY DEF OneWriter, TypeOK, Finish, ContentInv, OtherRowsPresent, AtCreate, AtAdd, AtDelete

\* A failed create may start its rollback while the table holds at most the
\* row it inserted, with its blobs.
LEMMA RollbackContent ==
    ASSUME OneWriter, TypeOK, NEW w \in Writers, NEW ins \in BOOLEAN, NEW e,
           Rollback(w, e, ins), e = "failed" \/ ins,
           rows' \subseteq {row[w]},
           row[w] \in rows' => ins /\ row[w].files \subseteq blobs'
    PROVE  ContentInv'
<1>1. RollbackDropsBlobs("failed")
  BY DEF RollbackDropsBlobs
<1> QED
  BY <1>1 DEF Rollback, Goto, OneWriter, TypeOK, ContentInv, OtherRowsPresent, AtCreate,
      AtAdd, AtDelete

LEMMA CreateContent ==
    ASSUME OneWriter, NoContentLosingFault, TableInv, ContentInv,
           NEW w \in Writers, Create(w)
    PROVE  ContentInv'
<1> DEFINE Here == OtherRowsPresent(w)' /\ AtCreate(w)' /\ AtAdd(w)' /\ AtDelete(w)'
<1> USE DEF TableInv
<1>1. Here => ContentInv'
  BY DEF OneWriter, ContentInv
<1>2. OtherRowsPresent(w) /\ AtCreate(w) /\ AtAdd(w) /\ AtDelete(w)
  BY DEF ContentInv
<1>3. CASE CreateExists(w)
  BY <1>2, <1>3, FinishContent DEF CreateExists, OtherRowsPresent, AtDelete
<1>4. CASE CreateBegin(w)
  <2>1. rows = {}
    BY <1>2, <1>4
    DEF CreateBegin, DocumentExists, OtherRowsPresent, AtDelete, TableConsistent
  <2> QED
    BY <1>1, <1>2, <1>4, <2>1
    DEF CreateBegin, Goto, GenesisRow, TypeOK, OtherRowsPresent, AtCreate, AtAdd, AtDelete
<1>5. CASE CreatePut(w)
  BY <1>1, <1>2, <1>5
  DEF CreatePut, Put, Goto, TypeOK, OtherRowsPresent, AtCreate, AtAdd, AtDelete
<1>6. CASE CreatePutFails(w)
  BY <1>2, <1>6, RollbackContent DEF CreatePutFails, PutFails, AtCreate
<1>7. CASE CreateInsert(w)
  BY <1>1, <1>2, <1>7
  DEF CreateInsert, Goto, TypeOK, OtherRowsPresent, AtCreate, AtAdd, AtDelete
<1>8. CASE CreateInsertExists(w)
  BY <1>2, <1>8 DEF CreateInsertExists, UniqueViolation, HasVersion, AtCreate
<1>9. CASE CreateInsertFails(w)
  <2>1. ~May("lost", "create_insert")
    BY DEF NoContentLosingFault, ContentLosingFaults, May
  <2> QED
    BY <1>2, <1>9, <2>1, RollbackContent DEF CreateInsertFails, AtCreate
<1>10. CASE CreateNotify(w) \/ CreateNotifyPanics(w)
  BY <1>2, <1>10, FinishContent DEF CreateNotify, CreateNotifyPanics, AtCreate
<1>11. CASE CreateNotifyFails(w)
  BY <1>2, <1>11, RollbackContent DEF CreateNotifyFails, AtCreate
<1>12. CASE CreateDropList(w)
  BY <1>1, <1>2, <1>12
  DEF CreateDropList, List, Goto, TypeOK, OtherRowsPresent, AtCreate, AtAdd, AtDelete
<1>13. CASE CreateDrop(w)
  <2>1. CASE inserted[w]
    BY <1>1, <1>2, <1>13, <2>1
    DEF CreateDrop, Goto, TypeOK, OtherRowsPresent, AtCreate, AtAdd, AtDelete
  <2>2. CASE ~inserted[w]
    BY <1>2, <1>13, <2>2, FinishContent DEF CreateDrop, AtCreate
  <2> QED BY <2>1, <2>2
<1>14. CASE CreateDropRow(w)
  <2>1. ~May("fails", "create_drop_row")
    BY DEF NoContentLosingFault, ContentLosingFaults, May
  <2>2. rows' = {}
    BY <1>2, <1>14, <2>1 DEF CreateDropRow, WithoutVersion, AtCreate
  <2> QED BY <1>14, <2>2, FinishContent DEF CreateDropRow
<1> QED
  BY <1>3, <1>4, <1>5, <1>6, <1>7, <1>8, <1>9, <1>10, <1>11, <1>12, <1>13, <1>14
  DEF Create

LEMMA AddContent ==
    ASSUME OneWriter, NoContentLosingFault, TableInv, ContentInv,
           NEW w \in Writers, Add(w)
    PROVE  ContentInv'
<1> DEFINE Here == OtherRowsPresent(w)' /\ AtCreate(w)' /\ AtAdd(w)' /\ AtDelete(w)'
<1> USE DEF TableInv
<1>1. Here => ContentInv'
  BY DEF OneWriter, ContentInv
<1>2. OtherRowsPresent(w) /\ AtCreate(w) /\ AtAdd(w) /\ AtDelete(w)
  BY DEF ContentInv
<1>3. CASE AddNotFound(w) \/ AddRefused(w) \/ AddInsertExists(w)
  BY <1>2, <1>3, FinishContent
  DEF AddNotFound, AddRefused, AddInsertExists, OtherRowsPresent, AtAdd, AtDelete
<1>4. CASE AddReadLatest(w)
  BY <1>1, <1>2, <1>4
  DEF AddReadLatest, Goto, TypeOK, OtherRowsPresent, AtCreate, AtAdd, AtDelete
<1>5. CASE AddPrepare(w)
  <2>1. row[w].files \subseteq blobs
    BY <1>2, <1>5 DEF AddPrepare, OtherRowsPresent, AtAdd
  <2>2. row'[w].files \subseteq row[w].files \cup todo'[w]
    BY <1>5 DEF AddPrepare, NextRow, CarryForward, TypeOK
  <2> QED
    BY <1>1, <1>2, <1>5, <2>1, <2>2
    DEF AddPrepare, Goto, TypeOK, OtherRowsPresent, AtCreate, AtAdd, AtDelete
<1>6. CASE AddInsert(w)
  BY <1>1, <1>2, <1>6
  DEF AddInsert, Goto, TypeOK, OtherRowsPresent, AtCreate, AtAdd, AtDelete
<1>7. CASE AddInsertFails(w)
  <2>1. ~May("lost", "add_insert")
    BY DEF NoContentLosingFault, ContentLosingFaults, May
  <2> QED
    BY <1>2, <1>7, <2>1, FinishContent DEF AddInsertFails, OtherRowsPresent, AtAdd
<1>8. CASE AddPut(w)
  BY <1>1, <1>2, <1>8
  DEF AddPut, Put, Goto, TypeOK, OtherRowsPresent, AtCreate, AtAdd, AtDelete
<1>9. CASE AddPutFails(w) \/ AddNotifyFails(w)
  BY <1>1, <1>2, <1>9
  DEF AddPutFails, PutFails, AddNotifyFails, AddUndo, Goto, TypeOK, OtherRowsPresent,
      AtCreate, AtAdd, AtDelete
<1>10. CASE AddNotify(w)
  BY <1>2, <1>10, FinishContent DEF AddNotify, OtherRowsPresent, AtAdd
<1>11. \A r \in WithoutVersion(rows, row[w].version) : r.files \subseteq blobs
  BY <1>2 DEF WithoutVersion, OtherRowsPresent
<1>12. CASE AddUndoRow(w)
  <2>1. CASE ExclusiveHashes(rows, row[w].version) = {}
    BY <1>11, <1>12, <2>1, FinishContent DEF AddUndoRow
  <2>2. CASE ExclusiveHashes(rows, row[w].version) # {}
    <3>1. \A r \in rows' : r.files \cap doomed'[w] = {}
      BY <1>12, <2>2, ExclusiveHashesAreExclusive DEF AddUndoRow, TypeOK
    <3> QED
      BY <1>1, <1>11, <1>12, <2>2, <3>1
      DEF AddUndoRow, Goto, TypeOK, OtherRowsPresent, AtCreate, AtAdd, AtDelete
  <2> QED BY <2>1, <2>2
<1>13. CASE AddUndoRowFails(w)
  <2>1. ~May("fails", "add_undo_row")
    BY DEF NoContentLosingFault, ContentLosingFaults, May
  <2> QED
    BY <1>2, <1>11, <1>13, <2>1, FinishContent DEF AddUndoRowFails, HasVersion, AtAdd
<1>14. CASE AddUndoList(w)
  BY <1>1, <1>2, <1>14
  DEF AddUndoList, List, Goto, TypeOK, OtherRowsPresent, AtCreate, AtAdd, AtDelete
<1>15. CASE AddUndoBlobs(w)
  <2>1. \E keys \in SUBSET doomed[w] : blobs' = blobs \ keys
    BY <1>15 DEF AddUndoBlobs, Deletable
  <2> QED
    BY <1>2, <1>15, <2>1, FinishContent DEF AddUndoBlobs, OtherRowsPresent, AtDelete
<1> QED
  BY <1>3, <1>4, <1>5, <1>6, <1>7, <1>8, <1>9, <1>10, <1>12, <1>13, <1>14, <1>15 DEF Add

LEMMA DeletesContent ==
    ASSUME OneWriter, TableInv, ContentInv, NEW w \in Writers,
           Delete(w) \/ DeleteVersion(w)
    PROVE  ContentInv'
<1> DEFINE Here == OtherRowsPresent(w)' /\ AtCreate(w)' /\ AtAdd(w)' /\ AtDelete(w)'
<1> USE DEF TableInv
<1>1. Here => ContentInv'
  BY DEF OneWriter, ContentInv
<1>2. OtherRowsPresent(w) /\ AtCreate(w) /\ AtAdd(w) /\ AtDelete(w)
  BY DEF ContentInv
<1>3. CASE DeleteNotFound(w) \/ DeleteRowsLost(w) \/ DeleteBlobs(w) \/ DeleteBlobsFails(w)
  BY <1>2, <1>3, FinishContent
  DEF DeleteNotFound, DeleteRowsLost, DeleteBlobs, DeleteBlobsFails, AtDelete
<1>4. CASE DeleteRows(w) \/ DeleteList(w)
  BY <1>1, <1>2, <1>4
  DEF DeleteRows, DeleteList, List, Goto, TypeOK, OtherRowsPresent, AtCreate, AtAdd,
      AtDelete
<1>5. CASE DeleteVersionNotFound(w) \/ (DeleteVersionList(w) /\ blobs = {})
  BY <1>2, <1>5, FinishContent
  DEF DeleteVersionNotFound, DeleteVersionList, OtherRowsPresent, AtDelete
<1>6. CASE DeleteVersionRow(w)
  <2>1. PICK v \in Versions :
            /\ rows' = WithoutVersion(rows, v)
            /\ doomed' = [doomed EXCEPT ![w] = FilesWithHash(ExclusiveHashes(rows, v))]
    BY <1>6 DEF DeleteVersionRow
  <2>2. \A r \in rows' : r.files \cap doomed'[w] = {}
    BY <2>1, ExclusiveHashesAreExclusive DEF TypeOK
  <2> QED
    BY <1>1, <1>2, <1>6, <2>1, <2>2, WithoutVersionSubset
    DEF DeleteVersionRow, Goto, TypeOK, OtherRowsPresent, AtCreate, AtAdd, AtDelete
<1>7. CASE DeleteVersionRowLost(w)
  BY <1>2, <1>7, WithoutVersionSubset, FinishContent
  DEF DeleteVersionRowLost, OtherRowsPresent, AtDelete
<1>8. CASE DeleteVersionList(w) /\ blobs # {}
  BY <1>1, <1>2, <1>8
  DEF DeleteVersionList, List, Goto, TypeOK, OtherRowsPresent, AtCreate, AtAdd, AtDelete
<1>9. CASE DeleteVersionBlobs(w) \/ DeleteVersionBlobsFails(w)
  BY <1>2, <1>9, FinishContent
  DEF DeleteVersionBlobs, DeleteVersionBlobsFails, OtherRowsPresent, AtDelete
<1> QED
  BY <1>3, <1>4, <1>5, <1>6, <1>7, <1>8, <1>9 DEF Delete, DeleteVersion

LEMMA CrashContent ==
    ASSUME OneWriter, NoContentLosingFault, TableInv, ContentInv,
           NEW w \in Writers, Crash(w)
    PROVE  ContentInv'
<1>1. OtherRowsPresent(w) /\ AtCreate(w) /\ AtAdd(w) /\ AtDelete(w)
  BY DEF ContentInv
<1>2. pc[w] \notin {"create_drop_row", "add_undo_row", "add_put"}
  BY DEF Crash, NoContentLosingFault, ContentLosingFaults, May
<1>3. pc[w] \in Labels \ {"idle"}
  BY DEF Crash, TableInv, TypeOK
<1>4. \A r \in rows : r.files \subseteq blobs
  BY <1>1, <1>2, <1>3
  DEF OtherRowsPresent, AtCreate, AtAdd, AtDelete, Labels, CreateLabels, AddLabels,
      DeleteLabels
<1> QED
  BY <1>4, FinishContent DEF Crash, TableInv

\* A single writer, whatever fails and wherever it dies except as listed in
\* ContentLosingFaults, leaves every settled version all its blobs.
THEOREM ContentIsKept ==
    ASSUME OneWriter, NoContentLosingFault
    PROVE  Spec => []ContentPresent
<1>1. TableInv /\ ContentInv /\ [Next]_vars => ContentInv'
  <2> SUFFICES ASSUME TableInv, ContentInv, [Next]_vars
               PROVE  ContentInv'
    OBVIOUS
  <2>1. ASSUME NEW w \in Writers, Refuse(w) \/ SetCompany(w)
        PROVE  ContentInv'
    <3>1. \A r \in rows : r.files \subseteq blobs
      BY <2>1 DEF ContentInv, OtherRowsPresent, AtDelete, Refuse, SetCompany
    <3>2. \A r \in rows' : r.files \subseteq blobs
      BY <2>1, <3>1 DEF Refuse, SetCompany, WithCompany, TableInv, TypeOK, Row
    <3> QED
      BY <2>1, <3>2, FinishContent DEF Refuse, SetCompany, TableInv
  <2>2. CASE UNCHANGED vars
    BY <2>2 DEF vars, locals, ContentInv, OtherRowsPresent, AtCreate, AtAdd, AtDelete
  <2> QED
    BY <2>1, <2>2, CreateContent, AddContent, DeletesContent, CrashContent DEF Next, Step
<1>2. TableInv /\ [Next]_vars => TableInv'
  BY TableInvStep
<1>3. ContentInv => ContentPresent
  BY ContentInvImpliesContentPresent
<1> QED
  BY InitTableInv, InitContentInv, <1>1, <1>2, <1>3, PTL DEF Spec

----------------------------------------------------------------------------
(* Any number of concurrent writers that only create and add: a rollback   *)
(* takes back the row of its own operation and no other, so that losing a  *)
(* race for a version costs the winner nothing.                            *)


OnlyGrowing == Ops \subseteq {"create", "add"}

\* The calls a writer makes only between its insert and the end of its work.
OwnerLabels == {"create_notify", "create_drop_row", "add_put", "add_notify",
                "add_undo_row"}

\* A writer that inserted its row still finds it in the table, and no other
\* writer claims the same version.
OwnInv ==
    /\ \A w \in Writers :
        /\ pc[w] \notin DeleteLabels
        /\ pc[w] \in OwnerLabels => inserted[w]
        /\ inserted[w] => /\ row[w] \in rows
                          /\ pc[w] \in OwnerLabels \cup {"create_drop_list", "create_drop"}
    /\ \A v, w \in Writers :
        inserted[v] /\ inserted[w] /\ row[v].version = row[w].version => v = w

\* What a step of w does to its claim.
ReleasesNothing(w) ==
    /\ \A v \in Writers \ {w} :
        pc'[v] = pc[v] /\ inserted'[v] = inserted[v] /\ row'[v] = row[v]
    /\ pc'[w] \notin DeleteLabels
    /\ pc'[w] \in OwnerLabels => inserted'[w]

Unclaimed(w) == ReleasesNothing(w) /\ ~inserted'[w] /\ rows \subseteq rows'

Kept(w) ==
    /\ ReleasesNothing(w)
    /\ row'[w] = row[w] /\ inserted'[w] = inserted[w] /\ rows' = rows
    /\ inserted[w] => pc'[w] \in OwnerLabels \cup {"create_drop_list", "create_drop"}

Claimed(w) ==
    /\ ReleasesNothing(w)
    /\ ~HasVersion(rows, row[w].version)
    /\ rows' = rows \cup {row[w]}
    /\ row'[w] = row[w] /\ inserted'[w] /\ pc'[w] \in OwnerLabels

TakenBack(w) ==
    /\ ReleasesNothing(w)
    /\ inserted[w] /\ ~inserted'[w] /\ pc'[w] # pc[w]
    /\ rows' = WithoutVersion(rows, row[w].version)

OwnStep(w) == Unclaimed(w) \/ Kept(w) \/ Claimed(w) \/ TakenBack(w)

LEMMA FinishReleasesNothing ==
    ASSUME TypeOK, NEW w \in Writers, NEW e, Finish(w, e)
    PROVE  ReleasesNothing(w) /\ ~inserted'[w] /\ pc'[w] = "idle"
BY DEF Finish, ReleasesNothing, TypeOK, OwnerLabels, DeleteLabels

LEMMA RollbackOwnStep ==
    ASSUME TypeOK, NEW w \in Writers, NEW e, NEW ins \in BOOLEAN, Rollback(w, e, ins),
           inserted[w] = ins,
           rows' = rows \/ (~ins /\ rows \subseteq rows')
    PROVE  OwnStep(w)
<1>1. CASE ~RollbackDropsBlobs(e) /\ ~ins
  BY <1>1, FinishReleasesNothing DEF Rollback, OwnStep, Unclaimed
<1>2. CASE RollbackDropsBlobs(e) \/ ins
  BY <1>2
  DEF Rollback, Goto, TypeOK, OwnStep, Kept, Unclaimed, ReleasesNothing, OwnerLabels,
      DeleteLabels
<1> QED BY <1>1, <1>2

LEMMA CreateOwnStep ==
    ASSUME TypeOK, OwnInv, NEW w \in Writers, Create(w)
    PROVE  OwnStep(w)
<1> USE DEF OwnerLabels, DeleteLabels
<1>1. CASE CreateExists(w) \/ CreateNotify(w) \/ CreateNotifyPanics(w)
  BY <1>1, FinishReleasesNothing
  DEF CreateExists, CreateNotify, CreateNotifyPanics, OwnStep, Unclaimed
<1>2. CASE CreateBegin(w)
  BY <1>2 DEF CreateBegin, Goto, TypeOK, OwnInv, OwnStep, Unclaimed, ReleasesNothing
<1>3. CASE CreatePut(w) \/ CreateDropList(w)
  BY <1>3
  DEF CreatePut, Put, CreateDropList, List, Goto, TypeOK, OwnInv, OwnStep, Kept,
      ReleasesNothing
<1>4. CASE CreatePutFails(w) \/ CreateInsertExists(w) \/ CreateInsertFails(w)
  <2>1. ~inserted[w]
    BY <1>4 DEF CreatePutFails, PutFails, CreateInsertExists, CreateInsertFails, OwnInv
  <2> QED
    BY <1>4, <2>1, RollbackOwnStep
    DEF CreatePutFails, PutFails, CreateInsertExists, CreateInsertFails, TypeOK
<1>5. CASE CreateInsert(w)
  BY <1>5
  DEF CreateInsert, Goto, UniqueViolation, TypeOK, OwnStep, Claimed, ReleasesNothing
<1>6. CASE CreateNotifyFails(w)
  <2>1. inserted[w] = TRUE
    BY <1>6 DEF CreateNotifyFails, OwnInv, TypeOK
  <2> QED
    BY <1>6, <2>1, RollbackOwnStep DEF CreateNotifyFails
<1>7. CASE CreateDrop(w)
  <2>1. CASE inserted[w]
    BY <1>7, <2>1 DEF CreateDrop, Goto, TypeOK, OwnStep, Kept, ReleasesNothing
  <2>2. CASE ~inserted[w]
    BY <1>7, <2>2, FinishReleasesNothing DEF CreateDrop, OwnStep, Unclaimed
  <2> QED BY <2>1, <2>2
<1>8. CASE CreateDropRow(w)
  BY <1>8, FinishReleasesNothing
  DEF CreateDropRow, OwnInv, OwnStep, TakenBack, Unclaimed
<1> QED
  BY <1>1, <1>2, <1>3, <1>4, <1>5, <1>6, <1>7, <1>8 DEF Create

LEMMA AddOwnStep ==
    ASSUME TypeOK, OwnInv, NEW w \in Writers, Add(w)
    PROVE  OwnStep(w)
<1> USE DEF OwnerLabels, DeleteLabels
<1>1. CASE \/ AddNotFound(w) \/ AddRefused(w) \/ AddInsertExists(w) \/ AddInsertFails(w)
           \/ AddNotify(w) \/ AddUndoBlobs(w)
  BY <1>1, FinishReleasesNothing
  DEF AddNotFound, AddRefused, AddInsertExists, AddInsertFails, AddNotify, AddUndoBlobs,
      OwnStep, Unclaimed
<1>2. CASE AddReadLatest(w) \/ AddPrepare(w)
  BY <1>2
  DEF AddReadLatest, AddPrepare, Goto, TypeOK, OwnInv, OwnStep, Unclaimed,
      ReleasesNothing
<1>3. CASE AddInsert(w)
  BY <1>3 DEF AddInsert, Goto, UniqueViolation, TypeOK, OwnStep, Claimed, ReleasesNothing
<1>4. CASE AddPut(w) \/ AddUndoList(w)
  BY <1>4
  DEF AddPut, Put, AddUndoList, List, Goto, TypeOK, OwnInv, OwnStep, Kept,
      ReleasesNothing
<1>5. CASE AddPutFails(w) \/ AddNotifyFails(w)
  BY <1>5
  DEF AddPutFails, PutFails, AddNotifyFails, AddUndo, Goto, TypeOK, OwnInv, OwnStep, Kept,
      ReleasesNothing
<1>6. CASE AddUndoRow(w)
  <2>1. CASE ExclusiveHashes(rows, row[w].version) = {}
    BY <1>6, <2>1, FinishReleasesNothing DEF AddUndoRow, OwnInv, OwnStep, TakenBack
  <2>2. CASE ExclusiveHashes(rows, row[w].version) # {}
    BY <1>6, <2>2
    DEF AddUndoRow, Goto, TypeOK, OwnInv, OwnStep, TakenBack, ReleasesNothing
  <2> QED BY <2>1, <2>2
<1>7. CASE AddUndoRowFails(w)
  BY <1>7, FinishReleasesNothing
  DEF AddUndoRowFails, OwnInv, OwnStep, Unclaimed, TakenBack
<1> QED
  BY <1>1, <1>2, <1>3, <1>4, <1>5, <1>6, <1>7 DEF Add

LEMMA NextOwnStep ==
    ASSUME OnlyGrowing, TypeOK, OwnInv, Next
    PROVE  \E w \in Writers : OwnStep(w)
<1>1. ASSUME NEW w \in Writers, Refuse(w) \/ Crash(w)
      PROVE  OwnStep(w)
  BY <1>1, FinishReleasesNothing DEF Refuse, Crash, OwnStep, Unclaimed
<1>2. ASSUME NEW w \in Writers, Delete(w) \/ DeleteVersion(w) \/ SetCompany(w)
      PROVE  FALSE
  <2>1. Ops \cap {"delete", "deleteVersion", "setCompany"} = {}
    BY DEF OnlyGrowing
  <2>2. pc[w] \notin DeleteLabels
    BY DEF OwnInv
  <2> QED
    BY <1>2, <2>1, <2>2
    DEF Delete, DeleteNotFound, DeleteRows, DeleteRowsLost, DeleteList, List, DeleteBlobs,
        DeleteBlobsFails, DeleteVersion, DeleteVersionNotFound, DeleteVersionRow,
        DeleteVersionRowLost, DeleteVersionList,
        DeleteVersionBlobs, DeleteVersionBlobsFails, SetCompany, DeleteLabels
<1> QED
  BY <1>1, <1>2, CreateOwnStep, AddOwnStep DEF Next, Step

LEMMA OwnInvStep ==
    ASSUME OnlyGrowing, TableInv, OwnInv, [Next]_vars
    PROVE  OwnInv'
<1>1. ASSUME NEW w \in Writers, Unclaimed(w)
      PROVE  OwnInv'
  BY <1>1 DEF Unclaimed, ReleasesNothing, OwnInv
<1>2. ASSUME NEW w \in Writers, Kept(w)
      PROVE  OwnInv'
  BY <1>2 DEF Kept, ReleasesNothing, OwnInv
<1>3. ASSUME NEW w \in Writers, Claimed(w)
      PROVE  OwnInv'
  BY <1>3 DEF Claimed, ReleasesNothing, OwnInv, HasVersion
<1>4. ASSUME NEW w \in Writers, TakenBack(w)
      PROVE  OwnInv'
  BY <1>4 DEF TakenBack, ReleasesNothing, OwnInv, WithoutVersion
<1>5. CASE UNCHANGED vars
  BY <1>5 DEF vars, locals, OwnInv
<1> QED
  BY <1>1, <1>2, <1>3, <1>4, <1>5, NextOwnStep DEF OwnStep, TableInv

\* With any number of writers that create and add, and any faults, a row only
\* leaves the table by the rollback of the operation that inserted it.
THEOREM RollbacksTakeOwnRows ==
    ASSUME OnlyGrowing
    PROVE  Spec => RollbackTakesOwnRow
<1>1. Init => OwnInv
  BY DEF Init, OwnInv, DeleteLabels, OwnerLabels
<1>2. TableInv /\ OwnInv /\ [Next]_vars => OwnInv'
  BY OwnInvStep
<1>3. TableInv /\ [Next]_vars => TableInv'
  BY TableInvStep
<1>4. ASSUME TableInv, OwnInv, [Next]_vars
      PROVE  [\A r \in rows : HasVersion(rows', r.version) \/
                 \E w \in Writers : inserted[w] /\ row[w] = r /\ pc'[w] # pc[w]]_vars
  <2> SUFFICES ASSUME Next, NEW r \in rows, ~HasVersion(rows', r.version)
               PROVE  \E w \in Writers : inserted[w] /\ row[w] = r /\ pc'[w] # pc[w]
    BY <1>4
  <2>1. PICK w \in Writers : OwnStep(w)
    BY <1>4, NextOwnStep DEF TableInv
  <2>2. TakenBack(w)
    BY <2>1 DEF OwnStep, Unclaimed, Kept, Claimed, HasVersion
  <2>3. row[w] \in rows /\ r.version = row[w].version
    BY <1>4, <2>2 DEF TakenBack, OwnInv, HasVersion, WithoutVersion
  <2> QED
    BY <1>4, <2>2, <2>3 DEF TakenBack, TableInv, TableConsistent
<1> QED
  BY InitTableInv, <1>1, <1>2, <1>3, <1>4, PTL DEF Spec, RollbackTakesOwnRow

----------------------------------------------------------------------------
(* Any number of concurrent writers that only create and add: until an     *)
(* operation fails, what a version lacks is on its way to it.              *)


\* The calls of a rollback up to the delete of content.
UndoLabels == {"create_drop_list", "create_drop",
               "add_undo_row", "add_undo_list", "add_undo_blobs"}

\* The calls that a writer makes when it has no files to put, or has put them all.
PutLabels == {"idle", "create_insert", "create_notify", "create_drop_list", "create_drop",
              "create_drop_row", "add_prepare", "add_notify"}

\* Where a writer has put everything, and that only a failure takes content back.
PhaseOf(label, files, e) ==
    /\ label \in PutLabels => files = {}
    /\ label \in UndoLabels => e = "failed"

PhaseInv == \A w \in Writers : PhaseOf(pc[w], todo[w], err[w])

\* A step of w that leaves the other writers alone and keeps its own phase.
PhaseStep(w) ==
    /\ \A v \in Writers \ {w} :
        pc'[v] = pc[v] /\ todo'[v] = todo[v] /\ err'[v] = err[v]
    /\ PhaseOf(pc'[w], todo'[w], err'[w])

\* A call that returns is in no phase.
LEMMA FinishPhase ==
    ASSUME TypeOK, NEW w \in Writers, NEW e, Finish(w, e)
    PROVE  PhaseStep(w)
BY DEF Finish, TypeOK, PhaseStep, PhaseOf, PutLabels, UndoLabels

\* The rollback of CreateDocument begins only after a failure.
LEMMA RollbackPhase ==
    ASSUME TypeOK, NEW w \in Writers, NEW ins \in BOOLEAN, NEW e,
           Rollback(w, e, ins), e \in {"failed", "exists"}
    PROVE  PhaseStep(w)
<1>1. CASE e = "exists"
  <2>1. CASE ~ins
    BY <1>1, <2>1, FinishPhase DEF Rollback, RollbackDropsBlobs
  <2>2. CASE ins
    BY <1>1, <2>2
    DEF Rollback, RollbackDropsBlobs, Goto, TypeOK, PhaseStep, PhaseOf, PutLabels, UndoLabels
  <2> QED BY <2>1, <2>2
<1>2. CASE e = "failed"
  BY <1>2
  DEF Rollback, RollbackDropsBlobs, Goto, TypeOK, PhaseStep, PhaseOf, PutLabels, UndoLabels
<1> QED BY <1>1, <1>2

\* The calls of CreateDocument, one after the other.
LEMMA CreatePhase ==
    ASSUME TypeOK, PhaseInv, NEW w \in Writers, Create(w)
    PROVE  PhaseStep(w)
<1> USE DEF PutLabels, UndoLabels
<1>1. CASE CreateExists(w) \/ CreateNotify(w) \/ CreateNotifyPanics(w) \/ CreateDropRow(w)
  BY <1>1, FinishPhase DEF CreateExists, CreateNotify, CreateNotifyPanics, CreateDropRow
<1>2. CASE CreateBegin(w)
  BY <1>2 DEF CreateBegin, Goto, TypeOK, PhaseStep, PhaseOf
<1>3. CASE CreatePut(w)
  BY <1>3 DEF CreatePut, Put, Goto, TypeOK, PhaseStep, PhaseOf
<1>4. CASE CreatePutFails(w) \/ CreateInsertExists(w) \/ CreateInsertFails(w)
           \/ CreateNotifyFails(w)
  BY <1>4, RollbackPhase
  DEF CreatePutFails, CreateInsertExists, CreateInsertFails, CreateNotifyFails
<1>5. CASE CreateInsert(w)
  BY <1>5 DEF CreateInsert, Goto, TypeOK, PhaseInv, PhaseStep, PhaseOf
<1>6. CASE CreateDropList(w)
  BY <1>6 DEF CreateDropList, List, Goto, TypeOK, PhaseInv, PhaseStep, PhaseOf
<1>7. CASE CreateDrop(w)
  <2>1. CASE inserted[w]
    BY <1>7, <2>1 DEF CreateDrop, Goto, TypeOK, PhaseInv, PhaseStep, PhaseOf
  <2>2. CASE ~inserted[w]
    BY <1>7, <2>2, FinishPhase DEF CreateDrop
  <2> QED BY <2>1, <2>2
<1> QED
  BY <1>1, <1>2, <1>3, <1>4, <1>5, <1>6, <1>7 DEF Create

\* The calls of AddDocumentVersion, one after the other.
LEMMA AddPhase ==
    ASSUME TypeOK, PhaseInv, NEW w \in Writers, Add(w)
    PROVE  PhaseStep(w)
<1> USE DEF PutLabels, UndoLabels
<1>1. CASE \/ AddNotFound(w) \/ AddRefused(w) \/ AddInsertExists(w) \/ AddInsertFails(w)
           \/ AddNotify(w) \/ AddUndoRowFails(w) \/ AddUndoBlobs(w)
  BY <1>1, FinishPhase
  DEF AddNotFound, AddRefused, AddInsertExists, AddInsertFails, AddNotify,
      AddUndoRowFails, AddUndoBlobs
<1>2. CASE AddReadLatest(w) \/ AddPrepare(w)
  BY <1>2 DEF AddReadLatest, AddPrepare, Goto, TypeOK, PhaseInv, PhaseStep, PhaseOf
<1>3. CASE AddInsert(w)
  BY <1>3 DEF AddInsert, Goto, TypeOK, PhaseStep, PhaseOf
<1>4. CASE AddPut(w)
  BY <1>4 DEF AddPut, Put, Goto, TypeOK, PhaseStep, PhaseOf
<1>5. CASE AddPutFails(w) \/ AddNotifyFails(w)
  BY <1>5
  DEF AddPutFails, PutFails, AddNotifyFails, AddUndo, Goto, TypeOK, PhaseStep, PhaseOf
<1>6. CASE AddUndoRow(w)
  <2>1. CASE ExclusiveHashes(rows, row[w].version) = {}
    BY <1>6, <2>1, FinishPhase DEF AddUndoRow
  <2>2. CASE ExclusiveHashes(rows, row[w].version) # {}
    BY <1>6, <2>2 DEF AddUndoRow, Goto, TypeOK, PhaseInv, PhaseStep, PhaseOf
  <2> QED BY <2>1, <2>2
<1>7. CASE AddUndoList(w)
  BY <1>7 DEF AddUndoList, List, Goto, TypeOK, PhaseInv, PhaseStep, PhaseOf
<1> QED
  BY <1>1, <1>2, <1>3, <1>4, <1>5, <1>6, <1>7 DEF Add

\* Writers that only create and add take the steps of these two.
LEMMA GrowingNext ==
    ASSUME OnlyGrowing, OwnInv, Next
    PROVE  \E w \in Writers : Refuse(w) \/ Crash(w) \/ Create(w) \/ Add(w)
<1>1. ASSUME NEW w \in Writers, Delete(w) \/ DeleteVersion(w) \/ SetCompany(w)
      PROVE  FALSE
  <2>1. Ops \cap {"delete", "deleteVersion", "setCompany"} = {}
    BY DEF OnlyGrowing
  <2>2. pc[w] \notin DeleteLabels
    BY DEF OwnInv
  <2> QED
    BY <1>1, <2>1, <2>2
    DEF Delete, DeleteNotFound, DeleteRows, DeleteRowsLost, DeleteList, List, DeleteBlobs,
        DeleteBlobsFails, DeleteVersion, DeleteVersionNotFound, DeleteVersionRow,
        DeleteVersionRowLost, DeleteVersionList,
        DeleteVersionBlobs, DeleteVersionBlobsFails, SetCompany, DeleteLabels
<1> QED
  BY <1>1 DEF Next, Step

\* Every step keeps the phases.
LEMMA PhaseInvStep ==
    ASSUME OnlyGrowing, TypeOK, OwnInv, PhaseInv, [Next]_vars
    PROVE  PhaseInv'
<1>1. ASSUME NEW w \in Writers, Refuse(w) \/ Crash(w) \/ Create(w) \/ Add(w)
      PROVE  PhaseStep(w)
  BY <1>1, FinishPhase, CreatePhase, AddPhase DEF Refuse, Crash
<1>2. CASE Next
  <2>1. PICK w \in Writers : PhaseStep(w)
    BY <1>1, <1>2, GrowingNext
  <2> QED
    BY <2>1 DEF PhaseInv, PhaseStep
<1>3. CASE UNCHANGED vars
  BY <1>3 DEF vars, locals, PhaseInv
<1> QED BY <1>2, <1>3

----------------------------------------------------------------------------
\* What w has promised to put into a committed version.
Owed(w) == IF inserted[w] THEN todo[w] ELSE {}

\* What a step of w does to the content of the document: it pays or keeps what it
\* owes, and what it commits or holds is provided for.
Delivers(w) ==
    /\ \A v \in Writers \ {w} :
        row'[v] = row[v] /\ inserted'[v] = inserted[v] /\ todo'[v] = todo[v]
    /\ blobs \subseteq blobs'
    /\ Owed(w) \subseteq blobs' \cup Owed(w)'
    /\ \/ rows' \subseteq rows
       \/ rows' = rows \cup {row[w]} /\ row[w] # NoRow /\ todo[w] \subseteq Owed(w)'
    /\ \/ row'[w] = NoRow
       \/ row'[w] \in rows
       \/ row'[w].files \subseteq todo'[w]
       \/ row[w] # NoRow /\ row'[w].files \subseteq row[w].files \cup todo'[w]
                         /\ todo[w] \subseteq blobs' \cup todo'[w]

\* Such a step takes away no content.
LEMMA DeliversProvides ==
    ASSUME Provided, NEW w \in Writers, Delivers(w)
    PROVE  Provided'
<1>1. blobs \cup Coming \subseteq blobs' \cup Coming'
  <2> SUFFICES ASSUME NEW v \in Writers, inserted[v], NEW f \in todo[v]
               PROVE  f \in blobs' \cup Coming'
    BY DEF Coming, Delivers
  <2>1. CASE v = w
    BY <2>1 DEF Delivers, Owed, Coming
  <2>2. CASE v # w
    BY <2>2 DEF Delivers, Coming
  <2> QED BY <2>1, <2>2
<1>2. Owed(w)' \subseteq Coming'
  BY DEF Owed, Coming
<1>3. ASSUME NEW r \in rows'
      PROVE  r.files \subseteq blobs' \cup Coming'
  <2>1. CASE r \in rows
    BY <1>1, <2>1 DEF Provided
  <2>2. CASE r = row[w] /\ row[w] # NoRow /\ todo[w] \subseteq Owed(w)'
    BY <1>1, <1>2, <2>2 DEF Provided
  <2> QED BY <1>3, <2>1, <2>2 DEF Delivers
<1>4. ASSUME NEW v \in Writers, row'[v] # NoRow
      PROVE  row'[v].files \subseteq blobs' \cup Coming' \cup todo'[v]
  <2>1. CASE v # w
    BY <1>1, <1>4, <2>1 DEF Delivers, Provided
  <2>2. CASE v = w
    BY <1>1, <1>4, <2>2 DEF Delivers, Provided
  <2> QED BY <2>1, <2>2
<1> QED
  BY <1>3, <1>4 DEF Provided

\* A call that returns and owes nothing delivers.
LEMMA FinishDelivers ==
    ASSUME TypeOK, NEW w \in Writers, NEW e, Finish(w, e), rows' \subseteq rows,
           UNCHANGED blobs, Owed(w) = {}
    PROVE  Delivers(w)
BY DEF Finish, TypeOK, Delivers

\* The calls of CreateDocument, none of which fails.
LEMMA CreateDelivers ==
    ASSUME TableInv, OwnInv, PhaseInv, Unfailing, StaysUnfailing,
           NEW w \in Writers, Create(w)
    PROVE  Delivers(w)
<1>1. TypeOK /\ PhaseOf(pc[w], todo[w], err[w])
  BY DEF TableInv, PhaseInv
<1>2. CASE CreateExists(w) \/ CreateNotify(w) \/ CreateNotifyPanics(w)
  <2>1. Owed(w) = {}
    BY <1>1, <1>2
    DEF CreateExists, CreateNotify, CreateNotifyPanics, Owed, OwnInv, OwnerLabels,
        PhaseOf, PutLabels
  <2> QED
    BY <1>1, <1>2, <2>1, FinishDelivers DEF CreateExists, CreateNotify, CreateNotifyPanics
<1>3. CASE CreateBegin(w)
  <2>1. ~inserted[w] /\ ~inserted'[w]
    BY <1>3 DEF CreateBegin, OwnInv, OwnerLabels
  <2> QED
    BY <1>1, <1>3, <2>1 DEF CreateBegin, GenesisRow, TypeOK, Delivers, Owed
<1>4. CASE CreatePut(w)
  <2>1. row[w] # NoRow
    BY <1>4, VersionsAssumption
    DEF CreatePut, Put, TableInv, RowHeld, CreateLabels, Row, NoRow, NoVersion
  <2> QED
    BY <1>1, <1>4, <2>1 DEF CreatePut, Put, TypeOK, Delivers, Owed
<1>5. CASE CreateInsert(w)
  <2>1. row[w] # NoRow /\ todo[w] = {}
    BY <1>1, <1>5, VersionsAssumption
    DEF CreateInsert, TableInv, RowHeld, CreateLabels, Row, NoRow, NoVersion, PhaseOf,
        PutLabels
  <2> QED
    BY <1>1, <1>5, <2>1 DEF CreateInsert, TypeOK, Delivers, Owed
<1>6. CASE CreateInsertExists(w)
  <2>1. Owed(w) = {}
    BY <1>6 DEF CreateInsertExists, Owed, OwnInv, OwnerLabels
  <2> QED
    BY <1>1, <1>6, <2>1, FinishDelivers DEF CreateInsertExists, Rollback, RollbackDropsBlobs
<1>7. CASE CreatePutFails(w) \/ CreateInsertFails(w)
  <2>1. err'[w] = "failed" /\ pc[w] # "idle"
    BY <1>1, <1>7
    DEF CreatePutFails, PutFails, CreateInsertFails, Rollback, Finish, TypeOK
  <2> QED BY <2>1 DEF StaysUnfailing
<1>8. CASE CreateNotifyFails(w)
  <2>1. Owed(w) = {} /\ UNCHANGED <<rows, blobs>>
    BY <1>1, <1>8 DEF CreateNotifyFails, Owed, PhaseOf, PutLabels
  <2>2. CASE Rollback(w, "failed", TRUE)
    <3>1. err'[w] = "failed" /\ pc[w] # "idle"
      BY <1>1, <1>8, <2>2 DEF CreateNotifyFails, Rollback, RollbackDropsBlobs, TypeOK
    <3> QED BY <3>1 DEF StaysUnfailing
  <2>3. CASE Rollback(w, "exists", TRUE)
    <3>1. /\ row' = row
          /\ inserted' = [inserted EXCEPT ![w] = TRUE]
          /\ todo' = [todo EXCEPT ![w] = {}]
      BY <2>3 DEF Rollback, RollbackDropsBlobs
    <3>2. row[w] \in rows
      BY <1>8 DEF CreateNotifyFails, OwnInv, OwnerLabels
    <3> QED
      BY <1>1, <2>1, <3>1, <3>2 DEF TypeOK, Delivers
  <2> QED BY <1>8, <2>2, <2>3 DEF CreateNotifyFails
<1>9. CASE CreateDropList(w) \/ CreateDrop(w)
  BY <1>1, <1>9
  DEF CreateDropList, List, CreateDrop, PhaseOf, UndoLabels, Unfailing
<1>10. CASE CreateDropRow(w)
  <2>1. Owed(w) = {}
    BY <1>1, <1>10 DEF CreateDropRow, Owed, PhaseOf, PutLabels
  <2>2. rows' \subseteq rows
    BY <1>10 DEF CreateDropRow, WithoutVersion
  <2> QED
    BY <1>1, <1>10, <2>1, <2>2, FinishDelivers DEF CreateDropRow
<1> QED
  BY <1>2, <1>3, <1>4, <1>5, <1>6, <1>7, <1>8, <1>9, <1>10 DEF Create

\* The calls of AddDocumentVersion, none of which fails.
LEMMA AddDelivers ==
    ASSUME TableInv, OwnInv, PhaseInv, Unfailing, StaysUnfailing,
           NEW w \in Writers, Add(w)
    PROVE  Delivers(w)
<1>1. TypeOK /\ PhaseOf(pc[w], todo[w], err[w])
  BY DEF TableInv, PhaseInv
<1>2. CASE AddNotFound(w) \/ AddRefused(w) \/ AddInsertExists(w) \/ AddNotify(w)
  <2>1. Owed(w) = {}
    BY <1>1, <1>2
    DEF AddNotFound, AddRefused, AddInsertExists, AddNotify, Owed, OwnInv, OwnerLabels,
        PhaseOf, PutLabels
  <2> QED
    BY <1>1, <1>2, <2>1, FinishDelivers
    DEF AddNotFound, AddRefused, AddInsertExists, AddNotify
<1>3. CASE AddReadLatest(w)
  <2>1. ~inserted[w] /\ ~inserted'[w]
    BY <1>3 DEF AddReadLatest, OwnInv, OwnerLabels
  <2> QED
    BY <1>1, <1>3, <2>1 DEF AddReadLatest, TypeOK, Delivers, Owed
<1>4. CASE AddPrepare(w)
  <2>1. ~inserted[w] /\ ~inserted'[w]
    BY <1>4 DEF AddPrepare, OwnInv, OwnerLabels
  <2>2. row[w] # NoRow
    BY <1>4, VersionsAssumption
    DEF AddPrepare, TableInv, RowHeld, AddLabels, Row, NoRow, NoVersion
  <2>3. row'[w].files \subseteq row[w].files \cup todo'[w]
    BY <1>1, <1>4 DEF AddPrepare, NextRow, CarryForward, TypeOK
  <2> QED
    BY <1>1, <1>4, <2>1, <2>2, <2>3
    DEF AddPrepare, TypeOK, Delivers, Owed, PhaseOf, PutLabels
<1>5. CASE AddInsert(w)
  <2>1. row[w] # NoRow
    BY <1>5, VersionsAssumption
    DEF AddInsert, TableInv, RowHeld, AddLabels, Row, NoRow, NoVersion
  <2> QED
    BY <1>1, <1>5, <2>1 DEF AddInsert, TypeOK, Delivers, Owed
<1>6. CASE AddPut(w)
  <2>1. row[w] # NoRow
    BY <1>6, VersionsAssumption
    DEF AddPut, Put, TableInv, RowHeld, AddLabels, Row, NoRow, NoVersion
  <2> QED
    BY <1>1, <1>6, <2>1 DEF AddPut, Put, TypeOK, Delivers, Owed
<1>7. CASE AddInsertFails(w) \/ AddPutFails(w) \/ AddNotifyFails(w)
  <2>1. err'[w] = "failed" /\ pc[w] # "idle"
    BY <1>1, <1>7
    DEF AddInsertFails, AddPutFails, PutFails, AddNotifyFails, AddUndo, Finish, TypeOK
  <2> QED BY <2>1 DEF StaysUnfailing
<1>8. CASE AddUndoRow(w) \/ AddUndoRowFails(w) \/ AddUndoList(w) \/ AddUndoBlobs(w)
  BY <1>1, <1>8
  DEF AddUndoRow, AddUndoRowFails, AddUndoList, List, AddUndoBlobs, PhaseOf, UndoLabels,
      Unfailing
<1> QED
  BY <1>2, <1>3, <1>4, <1>5, <1>6, <1>7, <1>8 DEF Add

\* A step without a failure takes away no content.
LEMMA ArrivesStep ==
    ASSUME OnlyGrowing, TableInv, OwnInv, PhaseInv, Unfailing, StaysUnfailing, Provided, Next
    PROVE  Provided'
<1>1. PICK w \in Writers : Refuse(w) \/ Crash(w) \/ Create(w) \/ Add(w)
  BY GrowingNext
<1>2. CASE Refuse(w)
  <2>1. Owed(w) = {}
    BY <1>2 DEF Refuse, Owed, OwnInv, OwnerLabels
  <2> QED
    BY <1>2, <2>1, FinishDelivers, DeliversProvides DEF Refuse, TableInv
<1>3. CASE Crash(w)
  BY <1>3 DEF Crash, Finish, TableInv, TypeOK, StaysUnfailing
<1>4. CASE Create(w) \/ Add(w)
  BY <1>4, CreateDelivers, AddDelivers, DeliversProvides
<1> QED BY <1>1, <1>2, <1>3, <1>4

\* With any number of writers that create and add, and any faults, a step of
\* CreateDocument or AddDocumentVersion that does not fail takes away no content that
\* a version has or that is on its way to it, if no running operation has failed.
THEOREM ContentKeepsArriving ==
    ASSUME OnlyGrowing
    PROVE  Spec => ContentArrives
<1>1. Init => OwnInv /\ PhaseInv
  BY DEF Init, OwnInv, DeleteLabels, OwnerLabels, PhaseInv, PhaseOf, PutLabels, UndoLabels
<1>2. TableInv /\ OwnInv /\ PhaseInv /\ [Next]_vars => OwnInv' /\ PhaseInv'
  BY OwnInvStep, PhaseInvStep DEF TableInv
<1>3. TableInv /\ [Next]_vars => TableInv'
  BY TableInvStep
<1>4. TableInv /\ OwnInv /\ PhaseInv /\ [Next]_vars
        => [Unfailing /\ StaysUnfailing /\ Provided => Provided']_vars
  BY ArrivesStep
<1> QED
  BY InitTableInv, <1>1, <1>2, <1>3, <1>4, PTL DEF Spec, ContentArrives

=============================================================================
