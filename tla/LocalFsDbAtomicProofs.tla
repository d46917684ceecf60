------------------------ MODULE LocalFsDbAtomicProofs ------------------------
(***************************************************************************)
(* The local file system Conn implements DocDb as long as what fails is a  *)
(* call that a rollback follows, no call of a rollback or a removal fails, *)
(* and the process lives, for every set of goroutines, files, versions,    *)
(* companies and backups.                                                  *)
(***************************************************************************)
EXTENDS LocalFsDbProofs

----------------------------------------------------------------------------
(* Whole operations: an operation does all that it is to do, or takes back *)
(* all that it did.                                                        *)

\* The calls of setDocumentCompanyID, also where AddDocumentVersion makes or undoes
\* its change with it.
CompanyLabels == {"set_unmark", "set_company", "set_mark"}

\* What fails is a call of setDocumentCompanyID, or one that a deferred rollback
\* follows.  The calls of a rollback or a removal do not fail, nor those with which
\* RestoreDocument makes the document, before its rollback is registered; the
\* process does not die.
FailuresRolledBack ==
    Faults \subseteq {"fails"} \X
        (CompanyLabels \cup {"make_dirs", "write_company", "make_marker", "make_dir",
                             "write_file", "write_info", "notify", "restore_next"})

\* No call of setDocumentCompanyID fails: the company is not half-changed.
CompanyChangesSucceed == \A label \in CompanyLabels : ~May("fails", label)

\* The versions that could be read before the operation.
Old == {d.version : d \in seenDoc}

\* The directories of the versions in S are listed and complete.
Tidy(S) ==
    \A v \in DOMAIN dirs \cap S : v \in DOMAIN infos /\ dirs[v] = infos[v].files

\* The document has a company, and no marker but for that company; that one it may
\* lack only after a change of the company that failed.
Marked ==
    /\ docDir /\ companyId \in Companies /\ markers \subseteq {companyId}
    /\ CompanyChangesSucceed => companyId \in markers

Unmarked == docDir /\ companyId \in Companies /\ markers = {}

NoVersions == DOMAIN dirs = {} /\ DOMAIN infos = {}

\* The version v can be read, with this content.
ReadsAs(v, c, prev, files) ==
    /\ v \in Listed
    /\ dirs[v] = files
    /\ infos[v].company = c /\ infos[v].prev = prev /\ infos[v].files = files

\* No operation is under way.
QuietOK ==
    /\ Tidy(Versions)
    /\ IF docDir THEN Marked /\ Listed # {} ELSE markers = {}

CreateAt(w) ==
    LET o == op[w]
        v == o.version
        at == pc[w]
    IN /\ seenDoc = {} /\ o.written # {}
       /\ at = "make_dirs" => ~docDir /\ markers = {} /\ o.todo = o.written
       /\ at \in {"write_company", "make_marker"} => markers = {}
       /\ at = "make_marker" => companyId = o.company
       /\ at \in {"write_company", "make_marker", "write_file", "write_info"} =>
            DOMAIN dirs = {v} /\ DOMAIN infos = {} /\ dirs[v] \cup o.todo = o.written
       /\ at \in {"write_file", "write_info", "notify"} => Marked /\ companyId = o.company
       /\ at = "notify" =>
            /\ DOMAIN dirs = {v}
            /\ ReadsAs(v, o.company, NoVersion, o.written)
       /\ at \in {"remove_doc", "undo_marker"} =>
            err[w] # "ok" /\ markers \subseteq {o.company}
       /\ at = "undo_marker" => ~docDir

\* setDocumentCompanyID moves the marker.
MarkerAt(w) ==
    /\ pc[w] \in {"set_company", "set_mark"} => Unmarked
    /\ pc[w] = "set_mark" => companyId = op[w].target
    /\ pc[w] \notin {"set_company", "set_mark"} => Marked

AddAt(w) ==
    LET o == op[w]
        v == o.version
        at == pc[w]
    IN /\ MarkerAt(w)
       /\ o.prev \in Old /\ (\A u \in Old : u <= o.prev) /\ o.prev < v
       /\ DOMAIN dirs \subseteq Old \cup {v}
       /\ Tidy(Versions \ {v})
       /\ at \in {"set_unmark", "set_company", "set_mark", "notify"} =>
            v \in DOMAIN dirs /\ ReadsAs(v, o.company, o.prev, dirs[v])
       /\ at \in {"remove_dir", "remove_info"} => err[w] # "ok"
       /\ at = "remove_info" => v \notin DOMAIN dirs

DeleteAt(w) ==
    /\ seenDoc # {}
    /\ pc[w] = "remove_marker" => Marked
    /\ pc[w] = "remove_doc" => markers = {}

DeleteVersionAt(w) ==
    LET v == op[w].version
        at == pc[w]
    IN /\ v \in Old
       /\ DOMAIN dirs \subseteq Old
       /\ Tidy(Versions \ {v})
       /\ at # "remove_doc" => Marked
       /\ at = "remove_doc" => markers = {}
       /\ at # "remove_dir" => v \notin DOMAIN dirs

\* The versions of the document that the restore leaves as they are.
Base(w) == IF op[w].existed THEN Old ELSE {}

\* A restore has written the versions in "saved", and is writing another one at
\* most; it has those in "left" to go.
ProgressAt(w) ==
    LET o == op[w]
    IN /\ Marked /\ companyId = o.company
       /\ o.left \cup o.created = VersionsOf(o.backup) \ Base(w)
       /\ o.left \cap o.created = {}
       /\ DOMAIN dirs = Base(w) \cup o.created
       /\ \A u \in o.saved : ReadsAs(u, o.company, Predecessor(o.backup, u), o.backup.files[u])
       /\ IF pc[w] = "restore_next" THEN o.saved = o.created
          ELSE /\ o.version \notin o.saved
               /\ o.created = o.saved \cup {o.version}
               /\ dirs[o.version] \cup o.todo = o.backup.files[o.version]
               /\ o.written = o.backup.files[o.version]
               /\ o.prev = Predecessor(o.backup, o.version)

RestoreAt(w) ==
    LET o == op[w]
        at == pc[w]
    IN /\ o.company = o.backup.company
       /\ o.existed => seenDoc # {}
       /\ ~o.existed /\ ~o.recreate => seenDoc = {}
       /\ at \in DocLabels => ~o.existed
       /\ at = "remove_marker" =>
            /\ Marked /\ err[w] = "ok"
            /\ seenDoc = View /\ Tidy(Versions) /\ Listed # {}
       /\ at \in {"remove_doc", "restore_dir", "restore_company", "restore_marker"} =>
            markers = {}
       /\ (at = "remove_doc" /\ err[w] = "ok") \/
          at \in {"remove_marker", "restore_dir", "restore_company", "restore_marker"} =>
            o.left = VersionsOf(o.backup) /\ o.created = {} /\ o.saved = {}
       /\ at \in {"remove_marker", "remove_doc"} /\ err[w] = "ok" => o.recreate
       /\ at = "restore_dir" => ~docDir
       /\ at \in {"restore_company", "restore_marker"} => docDir /\ NoVersions
       /\ at = "restore_marker" => companyId = o.company
       /\ at \in {"restore_next", "write_file", "write_info"} => ProgressAt(w)
       /\ at \in {"undo_dirs", "undo_infos", "undo_marker"} =>
            /\ err[w] # "ok"
            /\ Marked /\ companyId = o.company
            /\ DOMAIN dirs \subseteq Base(w) \cup o.created
       /\ at \in {"undo_infos", "undo_marker"} => o.created = {}
       /\ at \notin DocLabels => Tidy(Versions \ o.created)

WholeAt(w) ==
    /\ op[w].kind \in Ops
    /\ op[w].kind = "create" => CreateAt(w)
    /\ op[w].kind = "add" => AddAt(w)
    /\ op[w].kind = "setCompany" => MarkerAt(w) /\ Tidy(Versions) /\ Listed # {}
    /\ op[w].kind = "delete" => DeleteAt(w)
    /\ op[w].kind = "deleteVersion" => DeleteVersionAt(w)
    /\ op[w].kind = "restore" => RestoreAt(w)

WholeInv ==
    /\ lock = NoWriter => QuietOK
    /\ \A w \in Writers : lock = w => WholeAt(w)

----------------------------------------------------------------------------
(* Steps of DocDb                                                          *)

LEMMA PromiseFails ==
    ASSUME seenDoc' = seenDoc, seenOutcome' = "failed"
    PROVE  Promise!Next
BY DEF Promise!Next, Promise!Fail

LEMMA PromiseCreates ==
    ASSUME NEW v \in Versions, NEW c \in Companies, NEW files \in FileMaps, files # {},
           seenDoc = {}, seenOutcome' = "ok",
           seenDoc' = {[version |-> v, company |-> c, prev |-> NoVersion, files |-> files]}
    PROVE  Promise!Next
<1>1. Promise!CreateDocument(v, c, files)
  BY DEF Promise!CreateDocument, Promise!NoVersion, NoVersion
<1>2. files \in Promise!FileMaps \ {{}}
  BY DEF FileMaps, IsFileMap, File, Promise!FileMaps, Promise!IsFileMap, Promise!File
<1> QED BY <1>1, <1>2 DEF Promise!Next

\* A new version with the files F writes them all and removes the others.
LEMMA PromiseAdds ==
    ASSUME NEW v \in Versions, NEW c \in Companies, NEW files \in FileMaps, files # {},
           NEW latest \in seenDoc, \A d \in seenDoc : d.version <= latest.version,
           \A d \in seenDoc : d.version < v, latest.files \subseteq File,
           seenOutcome' = "ok",
           seenDoc' = seenDoc \cup
               {[version |-> v, company |-> c, prev |-> latest.version, files |-> files]}
    PROVE  Promise!Next
<1>1. files \in Promise!FileMaps
  BY DEF FileMaps, IsFileMap, File, Promise!FileMaps, Promise!IsFileMap, Promise!File
<1>2. Promise!CarryForward(latest.files, Names, files) = files
  BY DEF Promise!CarryForward, File
<1>3. Promise!AddDocumentVersion(v, c, files, Names)
  BY <1>2 DEF Promise!AddDocumentVersion, Promise!IsNewest
<1> QED BY <1>1, <1>3 DEF Promise!Next

LEMMA PromiseDeletes ==
    ASSUME seenDoc # {}, seenDoc' = {}, seenOutcome' \in {"ok", "failed"}
    PROVE  Promise!Next
BY DEF Promise!Next, Promise!DeleteDocument

LEMMA PromiseDeletesVersion ==
    ASSUME NEW v \in Versions, v \in Old, seenOutcome' \in {"ok", "failed"},
           seenDoc' = {d \in seenDoc : d.version # v}
    PROVE  Promise!Next
BY DEF Promise!Next, Promise!DeleteDocumentVersion, Old

LEMMA MergedIsPromised ==
    ASSUME NEW docs, NEW backup
    PROVE  Promise!Merged(docs, backup) = Merged(docs, backup)
BY DEF Promise!Merged, Promise!Restored, Promise!VersionsOf, Promise!Predecessor,
       Promise!NoVersion, Promise!Max, Merged, Restored, VersionsOf, Predecessor,
       NoVersion, Max

LEMMA PromiseRestores ==
    ASSUME NEW backup \in Backups, NEW recreate \in BOOLEAN,
           \/ /\ seenDoc' = Merged(IF recreate THEN {} ELSE seenDoc, backup)
              /\ seenOutcome' = "ok"
           \/ recreate /\ seenDoc' = {} /\ seenOutcome' = "failed"
    PROVE  Promise!Next
<1>1. Promise!RestoreDocument(backup, recreate)
  BY MergedIsPromised DEF Promise!RestoreDocument
<1> QED BY <1>1 DEF Promise!Next

----------------------------------------------------------------------------
(* Views                                                                   *)

\* A version that can be read is seen as what it reads.
LEMMA ReadIsSeen ==
    ASSUME NEW v, NEW c, NEW prev, NEW files, ReadsAs(v, c, prev, files)'
    PROVE  [version |-> v, company |-> c, prev |-> prev, files |-> files] \in View'
BY DEF ReadsAs, View

\* A view has one entry per listed version.
LEMMA ViewIs ==
    ASSUME NEW S, S \subseteq View', \A v \in Listed' : \E d \in S : d.version = v
    PROVE  View' = S
<1> DEFINE Entry(v) == [version |-> v, company |-> infos'[v].company,
                        prev |-> infos'[v].prev, files |-> infos'[v].files \cap dirs'[v]]
<1>1. View' = {Entry(v) : v \in Listed'}
  BY DEF View
<1>2. \A v : Entry(v).version = v
  OBVIOUS
<1> HIDE DEF Entry
<1>3. ASSUME NEW e \in View'
      PROVE  e \in S
  <2>1. PICK v \in Listed' : e = Entry(v)
    BY <1>1
  <2>2. PICK d \in S : d.version = v
    BY <2>1
  <2>3. PICK u \in Listed' : d = Entry(u)
    BY <1>1
  <2> QED BY <1>2, <2>1, <2>2, <2>3
<1> QED BY <1>3

\* No listed version: nothing can be read.
LEMMA NothingSeen ==
    ASSUME DOMAIN dirs' = {}
    PROVE  View' = {}
BY DEF View, Listed

\* What could be read before, and nothing else, can still be read.
LEMMA SeenAgain ==
    ASSUME seenDoc \subseteq View', Listed' \subseteq Old
    PROVE  View' = seenDoc
BY ViewIs DEF Old

\* Which faults there are.
LEMMA FaultFacts ==
    ASSUME FailuresRolledBack, NEW label
    PROVE  /\ ~May("crash", label) /\ ~May("unlisted", label)
           /\ May("fails", label) =>
                label \in {"set_unmark", "set_company", "set_mark", "make_dirs",
                           "write_company", "make_marker", "make_dir", "write_file",
                           "write_info", "notify", "restore_next"}
BY DEF FailuresRolledBack, CompanyLabels, May

----------------------------------------------------------------------------
(* Each call of an operation.                                              *)

\* The step of w leaves its operation in order; or the operation is over, and has
\* made a step of DocDb, which does not know SetDocumentCompanyID of this Conn.
WholeStep(w) ==
    IF lock' = NoWriter
    THEN QuietOK' /\ (op[w].kind = "setCompany" \/ Promise!Next)
    ELSE WholeAt(w)'

\* The calls of the running operations.
LEMMA CallsOf ==
    ASSUME LocalInv, FailuresRolledBack, NEW w \in Writers, lock = w, Step(w)
    PROVE  /\ Makes(op[w], pc[w]) /\ pc[w] \in Labels /\ op[w] \in Operations
           /\ op[w].kind = "create" =>
                \/ MakeDirs(w) \/ MakeDirsFails(w) \/ WriteCompany(w) \/ MakeMarker(w)
                \/ CreateFails(w) \/ WriteFile(w) \/ WriteFileFails(w) \/ WriteFileDone(w)
                \/ WriteInfo(w) \/ WriteInfoFails(w) \/ Notify(w) \/ NotifyFails(w)
                \/ RemoveEntry(w) \/ RemoveDoc(w) \/ UndoMarker(w)
           /\ op[w].kind = "add" =>
                \/ MakeDir(w) \/ MakeDirExists(w) \/ WriteFile(w) \/ WriteFileFails(w)
                \/ WriteFileDone(w) \/ WriteInfo(w) \/ WriteInfoRefused(w)
                \/ WriteInfoFails(w) \/ Notify(w) \/ NotifyFails(w) \/ SetUnmark(w)
                \/ SetCompanyId(w) \/ SetMark(w) \/ SetFails(w) \/ RemoveDir(w)
                \/ RemoveInfo(w)
           /\ op[w].kind = "setCompany" =>
                \/ SetUnmark(w) \/ SetCompanyId(w) \/ SetMark(w) \/ SetFails(w)
           /\ op[w].kind = "delete" => RemoveMarker(w) \/ RemoveEntry(w) \/ RemoveDoc(w)
           /\ op[w].kind = "deleteVersion" =>
                \/ RemoveDir(w) \/ RemoveInfo(w) \/ RemoveMarker(w) \/ RemoveEntry(w)
                \/ RemoveDoc(w)
           /\ op[w].kind = "restore" =>
                \/ RemoveMarker(w) \/ RemoveEntry(w) \/ RemoveDoc(w) \/ RestoreDir(w)
                \/ WriteCompany(w) \/ MakeMarker(w) \/ RestoreVersion(w)
                \/ RestoreVersionFails(w) \/ RestoreDone(w) \/ WriteFile(w)
                \/ WriteFileFails(w) \/ WriteFileDone(w) \/ WriteInfo(w)
                \/ WriteInfoFails(w) \/ UndoDirs(w) \/ UndoInfos(w) \/ UndoMarker(w)
<1>1. Makes(op[w], pc[w]) /\ pc[w] \in Labels /\ pc[w] # "idle" /\ op[w] \in Operations
  BY KindAt DEF LocalInv, ControlOK, Makes, Operations
<1>2. \A label : ~May("crash", label) /\
        (May("fails", label) =>
            label \in {"set_unmark", "set_company", "set_mark", "make_dirs",
                       "write_company", "make_marker", "make_dir", "write_file",
                       "write_info", "notify", "restore_next"})
  BY FaultFacts
<1>3. ~Free(w)
  BY <1>1 DEF Free
<1>4. Create(w) => op[w].kind \in {"create", "restore"} /\
        \/ MakeDirs(w) \/ MakeDirsFails(w) \/ WriteCompany(w) \/ MakeMarker(w)
        \/ CreateFails(w)
  BY <1>1, <1>3, KindAt DEF Create, CreateExists, CreateBegin, Refuse, Begin, MakeDirs,
     MakeDirsFails, WriteCompany, MakeMarker, CreateFails
<1>5. op[w].kind = "restore" =>
        ~MakeDirs(w) /\ ~MakeDirsFails(w) /\ ~CreateFails(w) /\ ~WriteInfoRefused(w)
  BY <1>1, KindAt DEF MakeDirs, MakeDirsFails, CreateFails, WriteInfoRefused, IsRefusedInfo
<1>6. op[w].kind = "create" => ~WriteInfoRefused(w)
  BY DEF WriteInfoRefused, IsRefusedInfo
<1>7. WriteVersion(w) => /\ op[w].kind \in {"create", "add", "restore"}
                         /\ op[w].kind = "restore" => ~Notify(w) /\ ~NotifyFails(w)
  <2>1. WriteVersion(w) => pc[w] \in {"write_file", "write_info", "notify"}
    BY DEF WriteVersion, WriteFile, WriteFileFails, WriteFileDone, WriteInfo,
           WriteInfoRefused, WriteInfoFails, Notify, NotifyFails
  <2>2. Notify(w) \/ NotifyFails(w) => pc[w] = "notify"
    BY DEF Notify, NotifyFails
  <2> QED BY <1>1, <2>1, <2>2, KindAt
<1>8. Add(w) => op[w].kind = "add" /\ (MakeDir(w) \/ MakeDirExists(w))
  BY <1>1, <1>3, KindAt DEF Add, AddNotFound, AddRefused, AddBegin, Refuse, Begin, MakeDir,
     MakeDirExists
<1>9. SetCompany(w) => /\ op[w].kind \in {"add", "setCompany"}
                       /\ SetUnmark(w) \/ SetCompanyId(w) \/ SetMark(w) \/ SetFails(w)
  BY <1>1, <1>2, <1>3, KindAt DEF SetCompany, SetBegin, SetNotFound, Refuse, Begin, SetUnmark,
     SetCompanyId, SetMark, SetFails
<1>10. Remove(w) => \/ RemoveMarker(w) \/ RemoveEntry(w) \/ RemoveDoc(w) \/ RemoveDir(w)
                    \/ RemoveInfo(w) \/ UndoMarker(w)
  BY <1>2, <1>3 DEF Remove, DeleteNotFound, DeleteBegin, DeleteVersionNotFound,
     DeleteVersionBegin, Refuse, Begin, RemoveMarkerFails, RemoveDocFails, RemoveDirFails
<1>11. /\ RemoveMarker(w) => op[w].kind \in {"delete", "deleteVersion", "restore"}
       /\ RemoveEntry(w) \/ RemoveDoc(w) =>
            op[w].kind \in {"create", "delete", "deleteVersion", "restore"}
       /\ RemoveDir(w) \/ RemoveInfo(w) => op[w].kind \in {"add", "deleteVersion"}
       /\ UndoMarker(w) => op[w].kind \in {"create", "restore"}
  BY <1>1, KindAt DEF RemoveMarker, RemoveEntry, RemoveDoc, RemoveDir, RemoveInfo, UndoMarker
<1>12. Restore(w) => /\ op[w].kind = "restore"
                     /\ \/ RestoreDir(w) \/ RestoreVersion(w) \/ RestoreVersionFails(w)
                        \/ RestoreDone(w) \/ UndoDirs(w) \/ UndoInfos(w)
  BY <1>1, <1>2, <1>3, KindAt DEF Restore, RestoreBegin, Refuse, Begin, RestoreDir,
     RestoreDirFails, RestoreVersion, RestoreVersionFails, RestoreDone, UndoDirs, UndoInfos
<1>13. ~Crash(w)
  BY <1>2 DEF Crash
<1>14. \/ Create(w) \/ WriteVersion(w) \/ Add(w) \/ SetCompany(w) \/ Remove(w) \/ Restore(w)
  BY <1>13 DEF Step
<1> HIDE DEF Create, Add, SetCompany, Remove, Restore
<1>15. WriteVersion(w) =>
        \/ WriteFile(w) \/ WriteFileFails(w) \/ WriteFileDone(w) \/ WriteInfo(w)
        \/ WriteInfoRefused(w) \/ WriteInfoFails(w) \/ Notify(w) \/ NotifyFails(w)
  BY DEF WriteVersion
<1> QED
  BY <1>1, <1>4, <1>5, <1>6, <1>7, <1>8, <1>9, <1>10, <1>11, <1>12, <1>14, <1>15, Zenon

\* What a step of w that goes on, or ends, does to the variables of w.
LEMMA ControlFacts ==
    ASSUME ControlOK, NEW w \in Writers, lock = w
    PROVE  /\ \A label : Goto(w, label) =>
                lock' = w /\ pc'[w] = label /\ op'[w] = op[w] /\ err'[w] = err[w]
           /\ \A e, label : GotoAfter(w, e, label) =>
                /\ lock' = w /\ pc'[w] = label /\ op'[w] = op[w]
                /\ err'[w] = IF err[w] = "ok" THEN e ELSE err[w]
           /\ \A e : Return(w, e) => lock' = NoWriter /\ err'[w] = e
           /\ lock # NoWriter
           /\ err[w] \in Results
BY NamesAssumption DEF ControlOK, Goto, GotoAfter, Return

\* A step with which the operation goes on leaves what was seen; one with which it
\* ends shows what can be read now.
LEMMA SeenFacts ==
    ASSUME NEW w, NextSeen(w)
    PROVE  /\ lock' # NoWriter => seenDoc' = seenDoc /\ Old' = Old
           /\ lock' = NoWriter => seenDoc' = View' /\ seenOutcome' = ResultOf(err'[w])
BY DEF NextSeen, seen, Old

\* An operation that ends with what it found makes the step Fail of DocDb.
LEMMA FailsWhole ==
    ASSUME NEW w, NextSeen(w), lock' = NoWriter, err'[w] # "ok", QuietOK', View' = seenDoc
    PROVE  WholeStep(w)
<1>1. seenDoc' = seenDoc /\ seenOutcome' = "failed"
  BY SeenFacts DEF ResultOf
<1> QED BY <1>1, PromiseFails DEF WholeStep

\* Without a document nothing is marked and nothing can be read.
LEMMA GoneQuiet ==
    ASSUME LocalInv', ~docDir', markers' = {}
    PROVE  QuietOK' /\ View' = {}
<1>1. DOMAIN dirs' = {}
  BY DEF LocalInv, DiskOK
<1> QED BY <1>1, NothingSeen DEF QuietOK, Tidy

\* A file that is still to be written has a name that no file in place has.
LEMMA NewFileKeeps ==
    ASSUME NEW files, NEW todo, files \cup todo \in FileMaps, NEW f \in todo
    PROVE  CarryForward(files, {}, {f}) \cup (todo \ {f}) = files \cup todo
<1>1. \A g \in files : g[1] = f[1] => g = f
  BY DEF FileMaps, IsFileMap
<1>2. CarryForward(files, {}, {f}) = {g \in files : g[1] # f[1]} \cup {f}
  BY DEF CarryForward, NamesOf
<1> QED BY <1>1, <1>2

\* CreateDocument.
LEMMA CreateWhole ==
    ASSUME LocalInv, LocalInv', FailuresRolledBack, NEW w \in Writers, lock = w, WholeAt(w),
           op[w].kind = "create", Step(w), NextSeen(w)
    PROVE  WholeStep(w)
<1> DEFINE o == op[w]
<1>0. PICK v, c, files : v = o.version /\ c = o.company /\ files = o.written
  OBVIOUS
<1>1. /\ CreateAt(w) /\ o.kind \in Ops /\ Makes(o, pc[w]) /\ o \in CreateOp
      /\ ControlOK /\ DiskOK /\ WritingAt(w)
  BY CallsOf, KindFacts DEF WholeAt, LocalInv, WritingOK
<1>2. /\ v \in Versions /\ c \in Companies /\ o.prev = NoVersion /\ files \in FileMaps
  BY <1>0, <1>1 DEF CreateOp
<1>3. /\ lock' # NoWriter => seenDoc' = seenDoc
      /\ lock' = NoWriter => seenDoc' = View' /\ seenOutcome' = ResultOf(err'[w])
  BY SeenFacts
<1>4. ASSUME op'[w] = o, lock' = w, CreateAt(w)'
      PROVE  WholeStep(w)
  BY <1>1, <1>4, ControlFacts DEF WholeAt, WholeStep
<1>5. ASSUME NEW e, Rollback(w, e), e # "ok", markers' \subseteq {o.company}
      PROVE  WholeStep(w)
  <2>1. lock' = w /\ op'[w] = o /\ pc'[w] = "remove_doc" /\ err'[w] # "ok"
    BY <1>1, <1>5, ControlFacts DEF Rollback
  <2>2. CreateAt(w)'
    BY <1>1, <1>3, <1>5, <2>1, ControlFacts DEF CreateAt
  <2> QED BY <1>4, <2>1, <2>2
<1>6. CASE MakeDirs(w)
  <2>1. lock' = w /\ op'[w] = o /\ pc'[w] = "write_company"
    BY <1>0, <1>1, <1>6, ControlFacts DEF MakeDirs
  <2>2. DOMAIN dirs = {} /\ DOMAIN infos = {} /\ markers = {} /\ o.todo = o.written
    BY <1>0, <1>1, <1>6 DEF MakeDirs, CreateAt, DiskOK
  <2>3. DOMAIN dirs' = {v} /\ dirs'[v] = {} /\ DOMAIN infos' = {} /\ markers' = {}
    BY <1>0, <1>6, <2>2 DEF MakeDirs, With
  <2>4. CreateAt(w)'
    BY <1>0, <1>1, <1>3, <2>1, <2>2, <2>3, ControlFacts DEF CreateAt
  <2> QED BY <1>4, <2>1, <2>4
<1>7. CASE MakeDirsFails(w)
  <2>1. markers' = {}
    BY <1>0, <1>1, <1>7 DEF MakeDirsFails, CreateAt
  <2> QED BY <1>5, <1>7, <2>1 DEF MakeDirsFails
<1>8. CASE WriteCompany(w)
  <2>1. pc[w] = "write_company" /\ lock' = w /\ op'[w] = o /\ pc'[w] = "make_marker"
    BY <1>0, <1>1, <1>8, KindAt, ControlFacts DEF WriteCompany
  <2>2. CreateAt(w)'
    BY <1>0, <1>1, <1>3, <1>8, <2>1, ControlFacts DEF CreateAt, WriteCompany
  <2> QED BY <1>4, <2>1, <2>2
<1>9. CASE MakeMarker(w)
  <2>1. pc[w] = "make_marker" /\ lock' = w /\ op'[w] = o /\ pc'[w] = "write_file"
    BY <1>0, <1>1, <1>9, KindAt, ControlFacts DEF MakeMarker
  <2>2. docDir' /\ companyId' = o.company /\ markers' = {o.company}
    BY <1>0, <1>1, <1>9, <2>1 DEF MakeMarker, CreateAt, LocalInv, StartOK, StartAt, WritingLabels
  <2>3. CreateAt(w)'
    BY <1>0, <1>1, <1>2, <1>3, <1>9, <2>1, <2>2, ControlFacts DEF CreateAt, MakeMarker, Marked
  <2> QED BY <1>4, <2>1, <2>3
<1>10. CASE CreateFails(w)
  <2>1. markers' \subseteq {o.company}
    BY <1>0, <1>1, <1>10 DEF CreateFails, CreateAt
  <2> QED BY <1>5, <1>10, <2>1 DEF CreateFails
<1>11. CASE WriteFile(w)
  <2>1. PICK f \in o.todo :
          /\ dirs' = WithFile(v, f)
          /\ op' = [op EXCEPT ![w].todo = @ \ {f}]
    BY <1>0, <1>11 DEF WriteFile
  <2>2. /\ pc[w] = "write_file" /\ pc' = pc /\ lock' = lock /\ UNCHANGED <<docDir, infos,
           companyId, markers>>
        /\ op'[w] = [o EXCEPT !.todo = @ \ {f}]
    BY <1>0, <1>1, <1>11, <2>1 DEF WriteFile, ControlOK
  <2>3. op'[w].kind = "create" /\ op'[w].version = v /\ op'[w].todo = o.todo \ {f}
        /\ op'[w].written = o.written /\ op'[w].company = o.company
    BY <1>0, <1>1, <2>2 DEF CreateOp
  <2>4. DOMAIN dirs' = {v} /\ dirs'[v] = CarryForward(dirs[v], {}, {f})
    BY <1>0, <1>1, <2>1, <2>2 DEF CreateAt, WithFile
  <2>5. dirs'[v] \cup op'[w].todo = o.written
    <3>1. dirs[v] \cup o.todo = files
      BY <1>0, <1>1, <2>2 DEF CreateAt
    <3> QED BY <1>0, <1>2, <2>1, <2>3, <2>4, <3>1, NewFileKeeps
  <2>6. CreateAt(w)'
    BY <1>0, <1>1, <1>3, <2>2, <2>3, <2>4, <2>5, ControlFacts DEF CreateAt, Marked
  <2> QED BY <1>0, <1>1, <2>2, <2>3, <2>6, ControlFacts DEF WholeStep, WholeAt
<1>12. CASE WriteFileFails(w)
  <2>1. markers' \subseteq {o.company}
    BY <1>0, <1>1, <1>12 DEF WriteFileFails, CreateAt, Marked
  <2> QED BY <1>5, <1>12, <2>1 DEF WriteFileFails
<1>13. CASE WriteFileDone(w)
  <2>1. pc[w] = "write_file" /\ lock' = w /\ op'[w] = o /\ pc'[w] = "write_info"
        /\ UNCHANGED disk
    BY <1>0, <1>1, <1>13, ControlFacts DEF WriteFileDone
  <2>2. CreateAt(w)'
    BY <1>0, <1>1, <1>3, <2>1, ControlFacts DEF CreateAt, disk, Marked
  <2> QED BY <1>4, <2>1, <2>2
<1>14. CASE WriteInfo(w)
  <2>1. pc[w] = "write_info" /\ lock' = w /\ op'[w] = o /\ pc'[w] = "notify"
        /\ infos' = Written(o) /\ UNCHANGED <<docDir, dirs, companyId, markers>>
    BY <1>1, <1>14, ControlFacts DEF WriteInfo
  <2>2. dirs[v] = files /\ DOMAIN dirs = {v}
    BY <1>0, <1>1, <2>1 DEF CreateAt, WritingAt, WritingLabels
  <2>3. infos'[v] = NewInfo(c, NoVersion, files) /\ v \in DOMAIN infos'
    BY <1>0, <1>2, <2>1, <2>2 DEF Written, With, FilesIn
  <2>4. ReadsAs(v, c, NoVersion, files)'
    BY <2>1, <2>2, <2>3 DEF ReadsAs, Listed, NewInfo
  <2>5. CreateAt(w)'
    BY <1>0, <1>1, <1>3, <2>1, <2>2, <2>4, ControlFacts DEF CreateAt, Marked, ReadsAs
  <2> QED BY <1>4, <2>1, <2>5
<1>15. CASE WriteInfoFails(w)
  <2>1. markers' \subseteq {o.company}
    BY <1>1, <1>15 DEF WriteInfoFails, CreateAt, Marked
  <2> QED BY <1>5, <1>15, <2>1 DEF WriteInfoFails
<1>16. CASE Notify(w)
  <2>1. lock' = NoWriter /\ err'[w] = "ok" /\ UNCHANGED disk /\ pc[w] = "notify"
    BY <1>1, <1>16, ControlFacts DEF Notify
  <2>2. Marked /\ DOMAIN dirs = {v} /\ ReadsAs(v, c, NoVersion, files) /\ files # {}
    BY <1>0, <1>1, <2>1 DEF CreateAt
  <2>3. Marked' /\ DOMAIN dirs' = {v} /\ ReadsAs(v, c, NoVersion, files)'
    BY <2>1, <2>2 DEF Marked, ReadsAs, Listed, disk
  <2>4. QuietOK'
    BY <2>3 DEF QuietOK, Tidy, Marked, ReadsAs, Listed
  <2> DEFINE new == [version |-> v, company |-> c, prev |-> NoVersion, files |-> files]
  <2>5. new \in View' /\ Listed' \subseteq {v}
    BY <2>3, ReadIsSeen DEF Listed
  <2>6. View' = {new}
    <3>1. new.version = v
      OBVIOUS
    <3> HIDE DEF new
    <3>2. {new} \subseteq View' /\ \A u \in Listed' : \E d \in {new} : d.version = u
      BY <2>5, <3>1
    <3> QED BY <3>2, ViewIs
  <2>7. Promise!Next
    BY <1>1, <1>2, <1>3, <2>1, <2>2, <2>6, PromiseCreates DEF CreateAt, ResultOf
  <2> QED BY <2>1, <2>4, <2>7 DEF WholeStep
<1>17. CASE NotifyFails(w)
  <2>1. markers' \subseteq {o.company} /\ Rollback(w, "failed")
    BY <1>1, <1>17 DEF NotifyFails, CreateAt, Marked, disk
  <2> QED BY <1>5, <2>1
<1>18. CASE RemoveEntry(w)
  <2>1. pc[w] = "remove_doc" /\ UNCHANGED <<markers, control>>
    BY <1>18 DEF RemoveEntry
  <2>2. CreateAt(w)'
    BY <1>1, <1>3, <2>1, ControlFacts DEF CreateAt, control
  <2> QED BY <1>4, <2>1, <2>2 DEF control
<1>19. CASE RemoveDoc(w)
  <2>1. /\ pc[w] = "remove_doc" /\ lock' = w /\ op'[w] = o /\ pc'[w] = "undo_marker"
        /\ err'[w] = err[w] /\ ~docDir' /\ markers' = markers
    BY <1>1, <1>19, ControlFacts DEF RemoveDoc, AfterRemoveDoc
  <2>2. CreateAt(w)'
    BY <1>1, <1>3, <2>1, ControlFacts DEF CreateAt
  <2> QED BY <1>4, <2>1, <2>2
<1>20. CASE UndoMarker(w)
  <2>1. pc[w] = "undo_marker" /\ lock' = NoWriter /\ err'[w] = err[w] /\ docDir' = docDir
        /\ markers' = markers \ {o.company}
    BY <1>1, <1>20, FaultFacts, ControlFacts DEF UndoMarker
  <2>2. ~docDir' /\ markers' = {} /\ err'[w] # "ok" /\ seenDoc = {}
    BY <1>1, <2>1 DEF CreateAt
  <2> QED BY <2>1, <2>2, GoneQuiet, FailsWhole
<1> QED
  BY <1>6, <1>7, <1>8, <1>9, <1>10, <1>11, <1>12, <1>13, <1>14, <1>15, <1>16, <1>17,
     <1>18, <1>19, <1>20, CallsOf

\* setDocumentCompanyID takes the old marker, writes company.id, and makes the new one.
LEMMA MarkerMoves ==
    ASSUME LocalInv, NEW w \in Writers, lock = w, MarkerAt(w), Makes(op[w], pc[w]),
           SetUnmark(w) \/ SetCompanyId(w) \/ SetMark(w)
    PROVE  /\ UNCHANGED <<docDir, dirs, infos>>
           /\ pc[w] \in {"set_unmark", "set_company", "set_mark"}
           /\ \/ Goto(w, "set_company") /\ Unmarked'
              \/ Goto(w, "set_mark") /\ Unmarked' /\ companyId' = op[w].target
              \/ SetDone(w) /\ Marked'
<1>1. pc[w] \in {"set_unmark", "set_company", "set_mark"} => op[w].target \in Companies
  BY DEF Makes, AddOp, SetCompanyOp
<1> QED
  BY <1>1 DEF SetUnmark, SetCompanyId, SetMark, MarkerAt, Marked, Unmarked

\* When a call of it fails, the company may have changed without its marker.
LEMMA CompanyHalfSet ==
    ASSUME LocalInv, NEW w \in Writers, lock = w, MarkerAt(w), Makes(op[w], pc[w]),
           SetFails(w)
    PROVE  /\ UNCHANGED <<docDir, dirs, infos>>
           /\ Rollback(w, "failed") /\ Marked'
<1>1. op[w].target \in Companies
  BY DEF Makes, AddOp, SetCompanyOp, SetFails
<1>2. pc[w] \in {"set_unmark", "set_company", "set_mark"} /\ (Marked \/ Unmarked)
  BY DEF SetFails, MarkerAt
<1>3. companyId \in Companies /\ companyId # NoCompany /\ docDir
  BY <1>2, NamesAssumption DEF Marked, Unmarked
<1>4. ~CompanyChangesSucceed
  BY <1>2, <1>3 DEF SetFails, CompanyChangesSucceed, CompanyLabels
<1>5. markers' \subseteq {companyId'} /\ companyId' \in Companies
  BY <1>1, <1>2, <1>3 DEF SetFails, MarkerAt, Marked, Unmarked
<1> QED BY <1>3, <1>4, <1>5 DEF SetFails, Marked, CompanyChangesSucceed

\* What was seen before is still listed.
LEMMA OldListed ==
    ASSUME seenDoc \subseteq View'
    PROVE  Old \subseteq Listed'
BY DEF Old, View

\* Versions that are seen are naturals, with files.
LEMMA SeenTypes ==
    ASSUME DiskOK, NEW d \in View
    PROVE  d.version \in Versions /\ d.version \in Nat /\ d.files \subseteq File
BY VersionsAssumption DEF DiskOK, View, Listed, FileMaps

\* A step that changes the directory and info of v only leaves the others tidy.
LEMMA TidyBut ==
    ASSUME NEW v, Tidy(Versions \ {v}), OnlyAt(v), DOMAIN dirs' \subseteq DOMAIN dirs \cup {v}
    PROVE  Tidy(Versions \ {v})'
BY DEF Tidy, OnlyAt

\* SetDocumentCompanyID.
LEMMA SetCompanyWhole ==
    ASSUME LocalInv, FailuresRolledBack, NEW w \in Writers, lock = w, WholeAt(w),
           op[w].kind = "setCompany", Step(w), NextSeen(w)
    PROVE  WholeStep(w)
<1>1. Makes(op[w], pc[w]) /\ ControlOK /\ DiskOK
  BY CallsOf DEF LocalInv
<1>2. /\ MarkerAt(w) /\ Tidy(Versions) /\ Listed # {} /\ op[w].kind \in Ops
      /\ pc[w] \in {"set_unmark", "set_company", "set_mark"}
  BY <1>1, KindFacts, CallsOf DEF WholeAt, Makes
<1>4. SetUnmark(w) \/ SetCompanyId(w) \/ SetMark(w) \/ SetFails(w)
  BY CallsOf
<1>5. UNCHANGED <<docDir, dirs, infos>>
  BY <1>1, <1>2, <1>4, MarkerMoves, CompanyHalfSet
<1>6. Tidy(Versions)' /\ Listed' # {}
  BY <1>2, <1>5 DEF Tidy, Listed
<1>7. CASE SetDone(w) /\ Marked'
  <2>1. Return(w, "ok")
    BY <1>7 DEF SetDone
  <2> QED BY <1>1, <1>6, <1>7, <2>1, ControlFacts DEF WholeStep, QuietOK, Marked
<1>8. CASE \/ Goto(w, "set_company") /\ Unmarked'
           \/ Goto(w, "set_mark") /\ Unmarked' /\ companyId' = op[w].target
  <2>1. lock' # NoWriter /\ op'[w] = op[w] /\ pc'[w] \in {"set_company", "set_mark"}
    BY <1>1, <1>8, ControlFacts
  <2>2. MarkerAt(w)'
    BY <1>1, <1>8, <2>1, ControlFacts DEF MarkerAt
  <2> QED BY <1>2, <1>6, <2>1, <2>2 DEF WholeStep, WholeAt
<1>9. CASE SetFails(w)
  <2>1. Rollback(w, "failed") /\ Marked'
    BY <1>1, <1>2, <1>9, CompanyHalfSet
  <2>2. Return(w, "failed")
    BY <2>1 DEF Rollback
  <2> QED BY <1>1, <1>6, <2>1, <2>2, ControlFacts DEF WholeStep, QuietOK, Marked
<1> QED BY <1>1, <1>2, <1>4, <1>7, <1>8, <1>9, MarkerMoves

\* AddDocumentVersion.
LEMMA AddWhole ==
    ASSUME LocalInv, LocalInv', FailuresRolledBack, NEW w \in Writers, lock = w, WholeAt(w),
           KeepAt(w), op[w].kind = "add", Step(w), NextSeen(w)
    PROVE  WholeStep(w)
<1> DEFINE o == op[w]
<1>0. PICK v, c, p : v = o.version /\ c = o.company /\ p = o.prev
  OBVIOUS
<1>1. /\ AddAt(w) /\ o.kind \in Ops /\ Makes(o, pc[w]) /\ o \in AddOp
      /\ ControlOK /\ DiskOK /\ WritingAt(w) /\ MarkerAt(w)
  BY CallsOf, KindFacts DEF WholeAt, LocalInv, WritingOK, AddAt
<1>2. v \in Versions /\ c \in Companies /\ p \in Versions
  BY <1>0, <1>1 DEF AddOp
<1>3. /\ lock' # NoWriter => seenDoc' = seenDoc /\ Old' = Old
      /\ lock' = NoWriter => seenDoc' = View' /\ seenOutcome' = ResultOf(err'[w])
  BY SeenFacts
<1>4. seenDoc \subseteq View /\ seenDoc \subseteq View'
  <2>1. \A d \in seenDoc : d \in View /\ d.version \notin Mine(w)
    BY DEF KeepAt, Spared
  <2> QED BY <2>1, StepLeaves, LeavesView DEF KeepAt
<1>5. /\ p \in Old /\ (\A u \in Old : u <= p) /\ p < v
      /\ DOMAIN dirs \subseteq Old \cup {v} /\ Tidy(Versions \ {v})
  BY <1>0, <1>1 DEF AddAt
<1>6. \A d \in seenDoc : d.version \in Nat /\ d.version < v
  <2>1. \A d \in seenDoc : d.version \in Nat /\ d.version <= p
    BY <1>1, <1>4, <1>5, SeenTypes DEF Old
  <2> QED BY <1>2, <1>5, <2>1, VersionsAssumption
<1>7. ASSUME op'[w] = o, lock' = w, AddAt(w)'
      PROVE  WholeStep(w)
  BY <1>1, <1>7, ControlFacts DEF WholeAt, WholeStep
\* Steps on the directory and the info of the new version.
<1>8. ASSUME UNCHANGED <<docDir, companyId, markers>>, OnlyAt(v), Marked,
             DOMAIN dirs' \subseteq DOMAIN dirs \cup {v}
      PROVE  Marked' /\ DOMAIN dirs' \subseteq Old \cup {v} /\ Tidy(Versions \ {v})'
  BY <1>5, <1>8, TidyBut DEF Marked
\* An add whose version is written goes on.
<1>8a. ASSUME op'[w] = o, lock' = w, MarkerAt(w)', v \in DOMAIN dirs',
              pc'[w] \in {"set_unmark", "set_company", "set_mark", "notify"},
              ReadsAs(v, c, p, dirs[v])', Tidy(Versions \ {v})',
              DOMAIN dirs' \subseteq Old \cup {v}
       PROVE  AddAt(w)'
  <2>1. Old' = Old /\ op'[w].version = v /\ op'[w].prev = p /\ op'[w].company = c
    BY <1>0, <1>1, <1>3, <1>8a, ControlFacts
  <2> QED BY <1>5, <1>8a, <2>1 DEF AddAt
<1>9. ASSUME NEW e, Rollback(w, e), e # "ok", Marked', Tidy(Versions \ {v})',
             DOMAIN dirs' \subseteq Old \cup {v}
      PROVE  WholeStep(w)
  <2>1. lock' = w /\ op'[w] = o /\ pc'[w] = "remove_dir" /\ err'[w] # "ok"
    BY <1>1, <1>9, ControlFacts DEF Rollback
  <2>2. AddAt(w)'
    BY <1>0, <1>1, <1>3, <1>5, <1>9, <2>1, ControlFacts DEF AddAt, MarkerAt, Tidy
  <2> QED BY <1>7, <2>1, <2>2
<1>10. pc[w] \notin {"set_company", "set_mark"} => Marked
  BY <1>1 DEF MarkerAt
<1>11. CASE MakeDir(w)
  <2>1. lock' = w /\ op'[w] = o /\ pc'[w] = "write_file" /\ Marked
    BY <1>1, <1>10, <1>11, ControlFacts DEF MakeDir
  <2>2. OnlyAt(v) /\ DOMAIN dirs' = DOMAIN dirs \cup {v}
    BY <1>0, <1>11, OnlyAtCases DEF MakeDir, With
  <2>3. Marked' /\ DOMAIN dirs' \subseteq Old \cup {v} /\ Tidy(Versions \ {v})'
    BY <1>8, <1>11, <2>1, <2>2 DEF MakeDir
  <2>4. AddAt(w)'
    BY <1>0, <1>1, <1>3, <1>5, <2>1, <2>3, ControlFacts DEF AddAt, MarkerAt, Tidy
  <2> QED BY <1>7, <2>1, <2>4
<1>12. CASE MakeDirExists(w)
  <2>1. Marked /\ UNCHANGED disk
    BY <1>10, <1>12 DEF MakeDirExists
  <2>2. Marked' /\ DOMAIN dirs' \subseteq Old \cup {v} /\ Tidy(Versions \ {v})'
    BY <1>5, <2>1 DEF Marked, Tidy, disk
  <2> QED BY <1>9, <1>12, <2>2 DEF MakeDirExists
<1>13. CASE WriteFile(w)
  <2>1. PICK f \in o.todo :
          /\ dirs' = WithFile(v, f)
          /\ op' = [op EXCEPT ![w].todo = @ \ {f}]
    BY <1>0, <1>13 DEF WriteFile
  <2>2. /\ pc[w] = "write_file" /\ pc' = pc /\ lock' = w /\ Marked
        /\ UNCHANGED <<docDir, infos, companyId, markers>>
        /\ op'[w] = [o EXCEPT !.todo = @ \ {f}]
    BY <1>1, <1>10, <1>13, <2>1 DEF WriteFile, ControlOK
  <2>3. /\ op'[w].kind = "add" /\ op'[w].version = v /\ op'[w].prev = p
    BY <1>0, <1>1, <2>2 DEF AddOp
  <2>4. OnlyAt(v) /\ DOMAIN dirs' = DOMAIN dirs
    BY <2>1, <2>2, OnlyAtCases DEF WithFile
  <2>5. Marked' /\ DOMAIN dirs' \subseteq Old \cup {v} /\ Tidy(Versions \ {v})'
    BY <1>8, <2>2, <2>4
  <2>6. AddAt(w)'
    BY <1>1, <1>3, <1>5, <2>2, <2>3, <2>5, ControlFacts DEF AddAt, MarkerAt, Tidy
  <2> QED BY <1>1, <2>2, <2>3, <2>6, ControlFacts DEF WholeStep, WholeAt
<1>14. CASE WriteFileFails(w)
  <2>1. OnlyAt(v) /\ DOMAIN dirs' = DOMAIN dirs
    <3>1. dirs' = dirs \/ \E f : dirs' = WithFile(v, f)
      BY <1>0, <1>14 DEF WriteFileFails
    <3> QED BY <1>14, <3>1, OnlyAtCases DEF WriteFileFails, WithFile
  <2> QED BY <1>8, <1>9, <1>10, <1>14, <2>1 DEF WriteFileFails
<1>15. CASE WriteFileDone(w)
  <2>1. Marked /\ lock' = w /\ op'[w] = o /\ pc'[w] = "write_info" /\ UNCHANGED disk
    BY <1>1, <1>10, <1>15, ControlFacts DEF WriteFileDone
  <2>2. AddAt(w)'
    BY <1>1, <1>3, <2>1, ControlFacts DEF AddAt, MarkerAt, Marked, Tidy, disk
  <2> QED BY <1>7, <2>1, <2>2
<1>16. CASE WriteInfo(w)
  <2>1. /\ lock' = w /\ op'[w] = o /\ pc'[w] \in {"notify", "set_unmark"}
        /\ infos' = Written(o) /\ UNCHANGED <<docDir, dirs, companyId, markers>>
        /\ pc[w] = "write_info" /\ Marked
    BY <1>1, <1>10, <1>16, ControlFacts DEF WriteInfo
  <2>2. v \in DOMAIN dirs
    BY <1>0, <1>1, <2>1 DEF WritingAt, WritingLabels
  <2>3. infos'[v] = NewInfo(c, p, dirs[v]) /\ v \in DOMAIN infos'
    BY <1>0, <2>1, <2>2 DEF Written, With, FilesIn
  <2>4. OnlyAt(v)
    BY <1>0, <2>1, OnlyAtCases DEF Written
  <2>5. Marked' /\ DOMAIN dirs' \subseteq Old \cup {v} /\ Tidy(Versions \ {v})'
    BY <1>8, <2>1, <2>4
  <2>6. AddAt(w)'
    <3>1. ReadsAs(v, c, p, dirs[v])'
      BY <2>1, <2>2, <2>3 DEF ReadsAs, Listed, NewInfo
    <3>2. MarkerAt(w)'
      BY <2>1, <2>5 DEF MarkerAt
    <3> QED BY <1>8a, <2>1, <2>2, <2>5, <3>1, <3>2
  <2> QED BY <1>7, <2>1, <2>6
<1>17. CASE WriteInfoRefused(w)
  <2>1. Marked /\ UNCHANGED disk
    BY <1>10, <1>17 DEF WriteInfoRefused
  <2>2. Marked' /\ DOMAIN dirs' \subseteq Old \cup {v} /\ Tidy(Versions \ {v})'
    BY <1>5, <2>1 DEF Marked, Tidy, disk
  <2>3. \E e \in {"failed", "noChanges"} : Rollback(w, e)
    BY <1>17 DEF WriteInfoRefused
  <2> QED BY <1>9, <2>2, <2>3
<1>18. CASE WriteInfoFails(w)
  <2>1. OnlyAt(v) /\ dirs' = dirs
    <3>1. infos' = infos \/ \E info : infos' = With(infos, v, info)
      BY <1>0, <1>18 DEF WriteInfoFails, Written
    <3> QED BY <1>18, <3>1, OnlyAtCases DEF WriteInfoFails
  <2> QED BY <1>8, <1>9, <1>10, <1>18, <2>1 DEF WriteInfoFails
<1>19. CASE Notify(w)
  <2>1. lock' = NoWriter /\ err'[w] = "ok" /\ UNCHANGED disk /\ pc[w] = "notify"
    BY <1>1, <1>19, ControlFacts DEF Notify
  <2>2. PICK files : files = dirs[v]
    OBVIOUS
  <2>3. Marked /\ ReadsAs(v, c, p, files)
    BY <1>0, <1>1, <1>10, <2>1, <2>2 DEF AddAt
  <2>4. files \in FileMaps /\ files # {}
    <3>1. v \in DOMAIN dirs /\ v \in DOMAIN infos /\ infos[v].files = files
      BY <2>3 DEF ReadsAs, Listed
    <3> QED BY <2>2, <3>1 DEF LocalInv, DiskOK, VersionsComplete
  <2>5. Marked' /\ ReadsAs(v, c, p, files)' /\ Tidy(Versions \ {v})'
        /\ DOMAIN dirs' \subseteq Old \cup {v}
    BY <1>5, <2>1, <2>3 DEF Marked, ReadsAs, Listed, Tidy, disk
  <2>6. QuietOK'
    BY <2>5 DEF QuietOK, Tidy, Marked, ReadsAs, Listed
  <2> DEFINE new == [version |-> v, company |-> c, prev |-> p, files |-> files]
  <2>7. new \in View' /\ Listed' \subseteq Old \cup {v} /\ new.version = v
    BY <2>5, ReadIsSeen DEF Listed
  <2> HIDE DEF new
  <2>8. \A u \in Listed' : \E d \in seenDoc \cup {new} : d.version = u
    BY <2>7 DEF Old
  <2>9. View' = seenDoc \cup {new}
    <3>1. seenDoc \cup {new} \subseteq View'
      BY <1>4, <2>7
    <3> QED BY <2>8, <3>1, ViewIs
  <2>10. PICK latest \in seenDoc : latest.version = p
    BY <1>5 DEF Old
  <2>11. latest.files \subseteq File /\ \A d \in seenDoc : d.version <= latest.version
    BY <1>1, <1>4, <1>5, <2>10, SeenTypes DEF Old
  <2>12. seenOutcome' = "ok" /\ seenDoc' = seenDoc \cup
           {[version |-> v, company |-> c, prev |-> latest.version, files |-> files]}
    BY <1>3, <2>1, <2>9, <2>10 DEF ResultOf, new
  <2>13. Promise!Next
    BY <1>2, <1>6, <2>4, <2>11, <2>12, PromiseAdds
  <2> QED BY <2>1, <2>6, <2>13 DEF WholeStep
<1>20. CASE NotifyFails(w)
  <2>1. pc[w] = "notify" /\ Marked /\ UNCHANGED disk
    BY <1>10, <1>20 DEF NotifyFails
  <2>2. Marked' /\ DOMAIN dirs' \subseteq Old \cup {v} /\ Tidy(Versions \ {v})'
    BY <1>5, <2>1 DEF Marked, Tidy, disk
  <2>3. CASE Rollback(w, "failed")
    BY <1>9, <2>2, <2>3
  <2>4. CASE /\ pc' = [pc EXCEPT ![w] = "set_unmark"]
             /\ op' = [op EXCEPT ![w].target = o.base]
             /\ UNCHANGED lock
    <3>1. op'[w] = [o EXCEPT !.target = o.base] /\ pc'[w] = "set_unmark" /\ lock' = w
      BY <1>1, <2>4 DEF ControlOK
    <3>2. /\ op'[w].kind = "add" /\ op'[w].version = v /\ op'[w].company = c
          /\ op'[w].prev = p
      BY <1>0, <1>1, <3>1 DEF AddOp
    <3>3. v \in DOMAIN dirs /\ ReadsAs(v, c, p, dirs[v])
      BY <1>0, <1>1, <2>1 DEF AddAt
    <3>4. v \in DOMAIN dirs' /\ dirs'[v] = dirs[v] /\ v \in Listed'
          /\ infos'[v].company = c /\ infos'[v].prev = p /\ infos'[v].files = dirs'[v]
      BY <2>1, <3>3 DEF ReadsAs, Listed, disk
    <3>5. AddAt(w)'
      BY <1>1, <1>3, <1>5, <2>2, <3>1, <3>2, <3>4, ControlFacts
      DEF AddAt, MarkerAt, Tidy, ReadsAs
    <3> QED BY <1>1, <3>1, <3>2, <3>5, ControlFacts DEF WholeStep, WholeAt
  <2> QED BY <1>20, <2>3, <2>4 DEF NotifyFails
<1>21. CASE SetUnmark(w) \/ SetCompanyId(w) \/ SetMark(w)
  <2>1. /\ UNCHANGED <<docDir, dirs, infos>>
        /\ pc[w] \in {"set_unmark", "set_company", "set_mark"}
    BY <1>1, <1>21, MarkerMoves
  <2>2. v \in DOMAIN dirs /\ ReadsAs(v, c, p, dirs[v])
    BY <1>0, <1>1, <2>1 DEF AddAt
  <2>3. v \in DOMAIN dirs' /\ dirs'[v] = dirs[v] /\ v \in Listed'
        /\ infos'[v].company = c /\ infos'[v].prev = p /\ infos'[v].files = dirs'[v]
    BY <2>1, <2>2 DEF ReadsAs, Listed
  <2>4. Tidy(Versions \ {v})' /\ DOMAIN dirs' \subseteq Old \cup {v}
    BY <1>5, <2>1 DEF Tidy
  <2>5. CASE SetDone(w) /\ Marked'
    <3>1. /\ lock' = w /\ op'[w] = o /\ err'[w] = err[w]
          /\ pc'[w] = IF err[w] = "ok" THEN "notify" ELSE "remove_dir"
      BY <1>1, <2>5, ControlFacts DEF SetDone
    <3>2. AddAt(w)'
      <4>1. CASE err[w] = "ok"
        <5>1. ReadsAs(v, c, p, dirs[v])'
          BY <2>3 DEF ReadsAs
        <5>2. MarkerAt(w)'
          BY <2>5, <3>1, <4>1 DEF MarkerAt
        <5> QED BY <1>8a, <2>3, <2>4, <3>1, <4>1, <5>1, <5>2
      <4>2. CASE err[w] # "ok"
        BY <1>0, <1>1, <1>3, <1>5, <2>4, <2>5, <3>1, <4>2, ControlFacts
        DEF AddAt, MarkerAt
      <4> QED BY <4>1, <4>2
    <3> QED BY <1>7, <3>1, <3>2
  <2>6. CASE \/ Goto(w, "set_company") /\ Unmarked'
             \/ Goto(w, "set_mark") /\ Unmarked' /\ companyId' = op[w].target
    <3>1. /\ lock' = w /\ op'[w] = o /\ pc'[w] \in {"set_company", "set_mark"}
      BY <1>1, <2>6, ControlFacts
    <3>2. MarkerAt(w)'
      BY <1>1, <2>6, <3>1, ControlFacts DEF MarkerAt
    <3>3. AddAt(w)'
      BY <1>0, <1>1, <1>3, <1>5, <2>3, <2>4, <3>1, <3>2, ControlFacts
      DEF AddAt, Tidy, ReadsAs
    <3> QED BY <1>7, <3>1, <3>3
  <2> QED BY <1>1, <1>21, <2>5, <2>6, MarkerMoves
<1>22. CASE SetFails(w)
  <2>1. UNCHANGED <<docDir, dirs, infos>> /\ Rollback(w, "failed") /\ Marked'
    BY <1>1, <1>22, CompanyHalfSet
  <2>2. Tidy(Versions \ {v})' /\ DOMAIN dirs' \subseteq Old \cup {v}
    BY <1>5, <2>1 DEF Tidy
  <2> QED BY <1>9, <2>1, <2>2
<1>23. CASE RemoveDir(w)
  <2>1. pc[w] = "remove_dir" /\ Marked /\ UNCHANGED <<docDir, infos, companyId, markers>>
        /\ err[w] # "ok"
    BY <1>1, <1>10, <1>23 DEF RemoveDir, AddAt
  <2>2. OnlyAt(v) /\ DOMAIN dirs' \subseteq DOMAIN dirs
    <3>1. CASE dirs' = Without(dirs, v)
      BY <2>1, <3>1, OnlyAtCases DEF Without, Restrict
    <3>2. CASE \E f : dirs' = [dirs EXCEPT ![v] = @ \ {f}]
      BY <2>1, <3>2, OnlyAtCases
    <3> QED BY <1>0, <1>23, <3>1, <3>2 DEF RemoveDir
  <2>3. Marked' /\ DOMAIN dirs' \subseteq Old \cup {v} /\ Tidy(Versions \ {v})'
    BY <1>8, <2>1, <2>2
  <2>4. /\ lock' = w /\ op'[w] = o /\ err'[w] = err[w]
        /\ \/ pc'[w] = "remove_dir"
           \/ pc'[w] = "remove_info" /\ v \notin DOMAIN dirs'
    BY <1>0, <1>1, <1>23, ControlFacts DEF RemoveDir, control, Without, Restrict
  <2>5. AddAt(w)'
    BY <1>0, <1>1, <1>3, <1>5, <2>1, <2>3, <2>4, ControlFacts DEF AddAt, MarkerAt, Tidy
  <2> QED BY <1>7, <2>4, <2>5
<1>24. CASE RemoveInfo(w)
  <2>1. /\ pc[w] = "remove_info" /\ Marked /\ infos' = Without(infos, v)
        /\ UNCHANGED <<docDir, dirs, companyId, markers>>
        /\ lock' = NoWriter /\ err'[w] = err[w]
    BY <1>0, <1>1, <1>10, <1>24, FaultFacts, ControlFacts DEF RemoveInfo
  <2>2. err[w] # "ok" /\ v \notin DOMAIN dirs
    BY <1>0, <1>1, <2>1 DEF AddAt
  <2>3. OnlyAt(v)
    BY <2>1, OnlyAtCases
  <2>4. Marked' /\ DOMAIN dirs' \subseteq Old \cup {v} /\ Tidy(Versions \ {v})'
    BY <1>8, <2>1, <2>3
  <2>5. v \notin DOMAIN dirs' /\ Listed' \subseteq Old
    BY <2>1, <2>2, <2>4 DEF Listed
  <2>6. Tidy(Versions)' /\ Listed' # {}
    BY <1>4, <1>5, <2>4, <2>5, OldListed DEF Tidy
  <2>7. View' = seenDoc
    BY <1>4, <2>5, SeenAgain
  <2> QED BY <2>1, <2>2, <2>4, <2>6, <2>7, FailsWhole DEF QuietOK, Marked
<1> QED
  BY <1>11, <1>12, <1>13, <1>14, <1>15, <1>16, <1>17, <1>18, <1>19, <1>20, <1>21, <1>22,
     <1>23, <1>24, CallsOf

\* DeleteDocument.
LEMMA DeleteWhole ==
    ASSUME LocalInv, LocalInv', FailuresRolledBack, NEW w \in Writers, lock = w, WholeAt(w),
           op[w].kind = "delete", Step(w), NextSeen(w)
    PROVE  WholeStep(w)
<1>1. /\ DeleteAt(w) /\ op[w].kind \in Ops /\ Makes(op[w], pc[w]) /\ ControlOK
  BY CallsOf DEF WholeAt, LocalInv
<1>2. lock' # NoWriter => seenDoc' = seenDoc
  BY SeenFacts
<1>3. ASSUME op'[w] = op[w], lock' = w, DeleteAt(w)'
      PROVE  WholeStep(w)
  BY <1>1, <1>3, ControlFacts DEF WholeAt, WholeStep
<1>4. CASE RemoveMarker(w)
  <2>1. Marked /\ pc[w] = "remove_marker" /\ markers' = markers \ {companyId}
    BY <1>1, <1>4 DEF RemoveMarker, DeleteAt
  <2>2. lock' = w /\ op'[w] = op[w] /\ pc'[w] = "remove_doc" /\ markers' = {}
    <3>1. Goto(w, "remove_doc") \/ GotoAfter(w, "failed", "remove_doc")
      BY <1>4 DEF RemoveMarker
    <3> QED BY <1>1, <2>1, <3>1, ControlFacts DEF Marked
  <2>3. DeleteAt(w)'
    BY <1>1, <1>2, <2>2, ControlFacts DEF DeleteAt
  <2> QED BY <1>3, <2>2, <2>3
<1>5. CASE RemoveEntry(w)
  <2>1. pc[w] = "remove_doc" /\ UNCHANGED <<markers, control>>
    BY <1>5 DEF RemoveEntry
  <2>2. DeleteAt(w)'
    BY <1>1, <1>2, <2>1, ControlFacts DEF DeleteAt, control
  <2> QED BY <1>3, <2>1, <2>2 DEF control
<1>6. CASE RemoveDoc(w)
  <2>1. /\ lock' = NoWriter /\ err'[w] = err[w] /\ ~docDir' /\ markers' = {}
        /\ err'[w] \in Results
    BY <1>1, <1>6, ControlFacts DEF RemoveDoc, AfterRemoveDoc, DeleteAt
  <2>2. QuietOK' /\ View' = {}
    BY <2>1, GoneQuiet
  <2>3. seenDoc # {} /\ seenDoc' = {} /\ seenOutcome' \in {"ok", "failed"}
    BY <1>1, <2>1, <2>2, SeenFacts DEF DeleteAt, ResultOf
  <2> QED BY <2>1, <2>2, <2>3, PromiseDeletes DEF WholeStep
<1> QED BY <1>4, <1>5, <1>6, CallsOf

\* DeleteDocumentVersion, which removes the document with its last version.
LEMMA DeleteVersionWhole ==
    ASSUME LocalInv, LocalInv', FailuresRolledBack, NEW w \in Writers, lock = w, WholeAt(w),
           KeepAt(w), op[w].kind = "deleteVersion", Step(w), NextSeen(w)
    PROVE  WholeStep(w)
<1> DEFINE o == op[w]
<1>0. PICK v : v = o.version
  OBVIOUS
<1>1. /\ DeleteVersionAt(w) /\ o.kind \in Ops /\ Makes(o, pc[w]) /\ o \in DeleteVersionOp
      /\ ControlOK /\ DiskOK
  BY CallsOf, KindFacts DEF WholeAt, LocalInv
<1>2. v \in Versions
  BY <1>0, <1>1 DEF DeleteVersionOp
<1>3. /\ lock' # NoWriter => seenDoc' = seenDoc /\ Old' = Old
      /\ lock' = NoWriter => seenDoc' = View' /\ seenOutcome' = ResultOf(err'[w])
  BY SeenFacts
<1>4. v \in Old /\ DOMAIN dirs \subseteq Old /\ Tidy(Versions \ {v})
  BY <1>0, <1>1 DEF DeleteVersionAt
<1>5. \A d \in seenDoc : d.version # v => d \in View' /\ d \in Spared(w)
  <2>1. \A d \in seenDoc : d.version # v => d \in Spared(w)
    BY <1>0 DEF Spared
  <2>2. \A d \in Spared(w) : d \in View /\ d.version \notin Mine(w)
    BY DEF KeepAt
  <2> QED BY <2>1, <2>2, StepLeaves, LeavesView DEF KeepAt
<1>6. pc[w] \in DocLabels => \A d \in seenDoc : d.version = v
  <2>1. pc[w] \in DocLabels => Mine(w) = Versions
    BY AllMine
  <2>2. \A d \in View : d.version \in Versions
    BY <1>1, SeenTypes
  <2> QED BY <1>5, <2>1, <2>2 DEF KeepAt
<1>7. ASSUME op'[w] = o, lock' = w, DeleteVersionAt(w)'
      PROVE  WholeStep(w)
  BY <1>1, <1>7, ControlFacts DEF WholeAt, WholeStep
<1>8. ASSUME UNCHANGED <<docDir, companyId, markers>>, OnlyAt(v), Marked,
             DOMAIN dirs' \subseteq DOMAIN dirs
      PROVE  Marked' /\ DOMAIN dirs' \subseteq Old /\ Tidy(Versions \ {v})'
  BY <1>4, <1>8, TidyBut DEF Marked
<1>9. CASE RemoveDir(w)
  <2>1. /\ pc[w] = "remove_dir" /\ Marked
        /\ UNCHANGED <<docDir, infos, companyId, markers>>
    BY <1>1, <1>9 DEF RemoveDir, DeleteVersionAt
  <2>2. OnlyAt(v) /\ DOMAIN dirs' \subseteq DOMAIN dirs
    <3>1. CASE dirs' = Without(dirs, v)
      BY <2>1, <3>1, OnlyAtCases DEF Without, Restrict
    <3>2. CASE \E f : dirs' = [dirs EXCEPT ![v] = @ \ {f}]
      BY <2>1, <3>2, OnlyAtCases
    <3> QED BY <1>0, <1>9, <3>1, <3>2 DEF RemoveDir
  <2>3. Marked' /\ DOMAIN dirs' \subseteq Old /\ Tidy(Versions \ {v})'
    BY <1>8, <2>1, <2>2
  <2>4. /\ lock' = w /\ op'[w] = o
        /\ \/ pc'[w] = "remove_dir"
           \/ pc'[w] = "remove_info" /\ v \notin DOMAIN dirs'
    BY <1>0, <1>1, <1>9, <2>1, ControlFacts DEF RemoveDir, control, Without, Restrict
  <2>5. DeleteVersionAt(w)'
    BY <1>0, <1>1, <1>3, <1>4, <2>1, <2>3, <2>4, ControlFacts DEF DeleteVersionAt, Tidy
  <2> QED BY <1>7, <2>4, <2>5
<1>10. CASE RemoveInfo(w)
  <2>1. /\ pc[w] = "remove_info" /\ Marked /\ v \notin DOMAIN dirs
        /\ infos' = Without(infos, v)
        /\ UNCHANGED <<docDir, dirs, companyId, markers>>
    BY <1>0, <1>1, <1>10, FaultFacts DEF RemoveInfo, DeleteVersionAt
  <2>2. \/ Listed' # {} /\ \E e : Return(w, e)
        \/ Listed' = {} /\ \E e : GotoAfter(w, e, "remove_marker")
    BY <1>1, <1>10, FaultFacts DEF RemoveInfo
  <2>3. OnlyAt(v)
    BY <2>1, OnlyAtCases
  <2>4. Marked' /\ DOMAIN dirs' \subseteq Old /\ Tidy(Versions \ {v})'
    BY <1>8, <2>1, <2>3
  <2>5. CASE Listed' = {} /\ \E e : GotoAfter(w, e, "remove_marker")
    <3>1. lock' = w /\ op'[w] = o /\ pc'[w] = "remove_marker"
      BY <1>1, <2>5, ControlFacts
    <3>2. DeleteVersionAt(w)'
      BY <1>0, <1>1, <1>3, <1>4, <2>1, <2>4, <3>1, ControlFacts DEF DeleteVersionAt, Tidy
    <3> QED BY <1>7, <3>1, <3>2
  <2>6. CASE Listed' # {} /\ \E e : Return(w, e)
    <3>1. lock' = NoWriter
      BY <1>1, <2>6, ControlFacts
    <3>2. Tidy(Versions)' /\ QuietOK'
      BY <2>1, <2>4, <2>6 DEF Tidy, QuietOK, Marked
    <3> DEFINE S == {d \in seenDoc : d.version # v}
    <3>3. S \subseteq View' /\ \A u \in Listed' : \E d \in S : d.version = u
      BY <1>4, <1>5, <2>1 DEF Old, Listed
    <3>4. View' = S
      BY <3>3, ViewIs
    <3>5. seenDoc' = S /\ seenOutcome' \in {"ok", "failed"}
      BY <1>3, <3>1, <3>4 DEF ResultOf
    <3> QED BY <1>2, <1>4, <3>1, <3>2, <3>5, PromiseDeletesVersion DEF WholeStep
  <2> QED BY <2>2, <2>5, <2>6
<1>11. CASE RemoveMarker(w)
  <2>1. /\ Marked /\ pc[w] = "remove_marker" /\ v \notin DOMAIN dirs
        /\ markers' = markers \ {companyId} /\ UNCHANGED <<docDir, dirs, infos, companyId>>
    BY <1>0, <1>1, <1>11 DEF RemoveMarker, DeleteVersionAt
  <2>2. lock' = w /\ op'[w] = o /\ pc'[w] = "remove_doc" /\ markers' = {}
    <3>1. Goto(w, "remove_doc") \/ GotoAfter(w, "failed", "remove_doc")
      BY <1>11 DEF RemoveMarker
    <3> QED BY <1>1, <2>1, <3>1, ControlFacts DEF Marked
  <2>3. DeleteVersionAt(w)'
    BY <1>0, <1>1, <1>3, <1>4, <2>1, <2>2, ControlFacts DEF DeleteVersionAt, Tidy
  <2> QED BY <1>7, <2>2, <2>3
<1>12. CASE RemoveEntry(w)
  <2>1. pc[w] = "remove_doc" /\ UNCHANGED <<markers, control>>
    BY <1>12 DEF RemoveEntry
  <2>2. markers = {} /\ v \notin DOMAIN dirs /\ DOMAIN dirs = {}
    <3>1. \A d \in seenDoc : d.version = v
      BY <1>6, <2>1 DEF DocLabels
    <3> QED BY <1>0, <1>1, <1>4, <2>1, <3>1 DEF DeleteVersionAt, Old
  <2>3. DOMAIN dirs' = {}
    BY <1>12, <2>2 DEF RemoveEntry
  <2>4. DeleteVersionAt(w)'
    BY <1>0, <1>1, <1>3, <1>4, <2>1, <2>2, <2>3, ControlFacts DEF DeleteVersionAt, Tidy, control
  <2> QED BY <1>7, <2>1, <2>4 DEF control
<1>13. CASE RemoveDoc(w)
  <2>1. pc[w] = "remove_doc" /\ markers = {}
    BY <1>1, <1>13 DEF RemoveDoc, DeleteVersionAt
  <2>2. lock' = NoWriter /\ err'[w] = err[w] /\ ~docDir' /\ markers' = {}
    BY <1>1, <1>13, <2>1, ControlFacts DEF RemoveDoc, AfterRemoveDoc
  <2>3. QuietOK' /\ View' = {}
    BY <2>2, GoneQuiet
  <2>4. {d \in seenDoc : d.version # v} = {}
    BY <1>6, <2>1 DEF DocLabels
  <2>5. seenDoc' = {d \in seenDoc : d.version # v} /\ seenOutcome' \in {"ok", "failed"}
    BY <1>3, <2>2, <2>3, <2>4 DEF ResultOf
  <2> QED BY <1>2, <1>4, <2>2, <2>3, <2>5, PromiseDeletesVersion DEF WholeStep
<1> QED BY <1>9, <1>10, <1>11, <1>12, <1>13, CallsOf

\* RestoreDocument.
LEMMA RestoreWhole ==
    ASSUME LocalInv, LocalInv', FailuresRolledBack, NEW w \in Writers, lock = w, WholeAt(w),
           KeepAt(w), op[w].kind = "restore", Step(w), NextSeen(w)
    PROVE  WholeStep(w)
<1> DEFINE o == op[w]
<1>0. PICK b, c, recreate, existed, base, created :
        /\ b = o.backup /\ c = o.company /\ recreate = o.recreate /\ existed = o.existed
        /\ base = Base(w) /\ created = o.created
  OBVIOUS
<1>1. /\ RestoreAt(w) /\ o.kind \in Ops /\ Makes(o, pc[w]) /\ o \in RestoreOp
      /\ o.left \subseteq VersionsOf(o.backup)
      /\ ControlOK /\ DiskOK /\ WritingAt(w)
  BY CallsOf, KindFacts, KindAt DEF WholeAt, LocalInv, WritingOK
<1>2. /\ b \in Backups /\ c \in Companies /\ c = b.company
      /\ recreate \in BOOLEAN /\ existed \in BOOLEAN
      /\ o.left \subseteq Nat /\ o.created \subseteq Nat /\ o.saved \subseteq Nat
  BY <1>0, <1>1, BackupsAssumption, VersionsAssumption DEF RestoreOp, RestoreAt
<1>3. /\ lock' # NoWriter => seenDoc' = seenDoc /\ Old' = Old
      /\ lock' = NoWriter => seenDoc' = View' /\ seenOutcome' = ResultOf(err'[w])
  BY SeenFacts
<1>4. /\ existed => ~recreate /\ seenDoc # {} /\ seenDoc \subseteq View'
      /\ existed => pc[w] \notin DocLabels
      /\ ~existed /\ ~recreate => seenDoc = {}
  <2>1. existed => ~recreate /\ pc[w] \notin DocLabels
    BY <1>0, <1>1 DEF KeepAt, MergeAt
  <2>2. ~recreate => \A d \in seenDoc : d \in View /\ d.version \notin Mine(w)
    BY <1>0, <1>1 DEF KeepAt, Spared
  <2> QED BY <1>0, <1>1, <2>1, <2>2, StepLeaves, LeavesView DEF KeepAt, RestoreAt
<1>5. ASSUME op'[w].kind = "restore", lock' = w, RestoreAt(w)'
      PROVE  WholeStep(w)
  BY <1>1, <1>5, ControlFacts DEF WholeAt, WholeStep
<1>6. base = (IF existed THEN Old ELSE {}) /\ base \cap (o.created \cup o.saved) = {}
  <2>1. base = IF existed THEN Old ELSE {}
    BY <1>0 DEF Base
  <2>2. existed => \A d \in seenDoc : d.version \notin Mine(w)
    BY <1>0, <1>1, <1>4 DEF KeepAt, Spared
  <2>3. existed => o.created \cup o.saved \subseteq Mine(w)
    BY <1>1 DEF Mine, RestoreOp
  <2> QED BY <2>1, <2>2, <2>3 DEF Old
\* A restore that goes on writing versions.
<1>6a. ASSUME lock' = w, pc'[w] \in {"restore_next", "write_file", "write_info"},
              op'[w].company = c, op'[w].backup = b,
              op'[w].recreate = recreate, op'[w].existed = existed,
              ProgressAt(w)', Tidy(Versions \ op[w].created)'
       PROVE  RestoreAt(w)'
  <2>1. seenDoc' = seenDoc /\ pc'[w] \notin DocLabels
    BY <1>1, <1>3, <1>6a, ControlFacts DEF DocLabels
  <2> QED BY <1>2, <1>4, <1>6a, <2>1 DEF RestoreAt
\* The rollback begins with the document marked.
<1>7. ASSUME Rollback(w, "failed"), UNCHANGED <<docDir, companyId, markers>>, ProgressAt(w),
             Tidy(Versions \ created)', DOMAIN dirs' \subseteq base \cup created
      PROVE  WholeStep(w)
  <2>1. lock' = w /\ op'[w] = o /\ pc'[w] = "undo_dirs" /\ err'[w] # "ok"
    BY <1>1, <1>7, ControlFacts DEF Rollback
  <2>2. Base(w)' = base
    BY <1>0, <1>1, <1>3, <1>6, <2>1, ControlFacts DEF Base
  <2>3. Marked' /\ companyId' = o.company
    BY <1>7 DEF ProgressAt, Marked
  <2>4. op'[w].created = created /\ op'[w].existed = existed
    BY <1>0, <2>1
  <2>5. RestoreAt(w)'
    BY <1>0, <1>1, <1>3, <1>4, <1>7, <2>1, <2>2, <2>3, <2>4, ControlFacts
    DEF RestoreAt, DocLabels, Tidy
  <2> QED BY <1>1, <1>5, <2>1, <2>5

\* A recreated document is removed first, but not if its marker is missing, ...
<1>8. CASE RemoveMarker(w)
  <2>1. /\ Marked /\ err[w] = "ok" /\ pc[w] = "remove_marker"
        /\ markers' = {} /\ UNCHANGED <<docDir, dirs, infos, companyId>>
    BY <1>1, <1>8 DEF RemoveMarker, RestoreAt, Marked
  <2>2. CASE Goto(w, "remove_doc")
    <3>1. /\ lock' = w /\ op'[w] = o /\ pc'[w] = "remove_doc" /\ markers' = {}
          /\ err'[w] = err[w]
      BY <1>1, <2>1, <2>2, ControlFacts
    <3>2. RestoreAt(w)'
      BY <1>1, <1>3, <2>1, <3>1, ControlFacts DEF RestoreAt, DocLabels
    <3> QED BY <1>1, <1>5, <3>1, <3>2
  <2>3. CASE Return(w, "failed") /\ companyId \notin markers
    <3>1. lock' = NoWriter /\ err'[w] # "ok"
      BY <1>1, <2>3, ControlFacts
    <3>2. Marked' /\ Tidy(Versions)' /\ Listed' # {} /\ View' = seenDoc
      BY <1>1, <2>1, <2>3 DEF Marked, CompanyChangesSucceed, RestoreAt, Tidy, Listed, View
    <3> QED BY <3>1, <3>2, FailsWhole DEF QuietOK, Marked
  <2> QED BY <1>8, <2>2, <2>3 DEF RemoveMarker
<1>9. CASE RemoveEntry(w)
  <2>1. pc[w] = "remove_doc" /\ UNCHANGED <<markers, control>>
    BY <1>9 DEF RemoveEntry
  <2>2. /\ lock' = w /\ op'[w] = o /\ pc'[w] = "remove_doc" /\ markers' = markers
        /\ err'[w] = err[w]
    BY <2>1 DEF control
  <2>3. RestoreAt(w)'
    BY <1>1, <1>3, <2>1, <2>2, ControlFacts DEF RestoreAt, DocLabels
  <2> QED BY <1>1, <1>5, <2>2, <2>3
<1>10. CASE RemoveDoc(w)
  <2>1. pc[w] = "remove_doc" /\ ~docDir' /\ markers' = {}
    BY <1>1, <1>10 DEF RemoveDoc, RestoreAt
  <2>2. CASE err[w] = "ok"
    <3>1. lock' = w /\ op'[w] = o /\ pc'[w] = "restore_dir"
      BY <1>1, <1>10, <2>2, ControlFacts DEF RemoveDoc, AfterRemoveDoc
    <3>2. RestoreAt(w)'
      BY <1>1, <1>3, <2>1, <2>2, <3>1, ControlFacts DEF RestoreAt, DocLabels
    <3> QED BY <1>1, <1>5, <3>1, <3>2
  <2>3. CASE err[w] # "ok"
    <3>1. lock' = NoWriter /\ err'[w] # "ok"
      BY <1>1, <1>10, <2>3, ControlFacts DEF RemoveDoc, AfterRemoveDoc
    <3>2. QuietOK' /\ View' = {}
      BY <2>1, GoneQuiet
    <3>3. CASE recreate
      <4>1. seenDoc' = {} /\ seenOutcome' = "failed"
        BY <1>3, <3>1, <3>2 DEF ResultOf
      <4> QED BY <1>2, <3>1, <3>2, <3>3, <4>1, PromiseRestores DEF WholeStep
    <3>4. CASE ~recreate
      <4>1. seenDoc = {}
        BY <1>1, <1>2, <1>4, <2>1, <3>4 DEF DocLabels
      <4> QED BY <3>1, <3>2, <4>1, FailsWhole
    <3> QED BY <3>3, <3>4
  <2> QED BY <2>2, <2>3
\* ... the document is made, ...
<1>11. CASE RestoreDir(w)
  <2>1. /\ pc[w] = "restore_dir" /\ docDir' /\ UNCHANGED <<dirs, infos, companyId, markers>>
        /\ lock' = w /\ op'[w] = o /\ pc'[w] = "restore_company"
    BY <1>1, <1>11, ControlFacts DEF RestoreDir
  <2>2. NoVersions'
    BY <1>1, <2>1 DEF RestoreAt, DiskOK, NoVersions
  <2>3. RestoreAt(w)'
    BY <1>1, <1>3, <2>1, <2>2, ControlFacts DEF RestoreAt, DocLabels
  <2> QED BY <1>1, <1>5, <2>1, <2>3
<1>12. CASE WriteCompany(w)
  <2>1. /\ pc[w] = "restore_company" /\ UNCHANGED <<docDir, dirs, infos, markers>>
        /\ lock' = w /\ op'[w] = o /\ pc'[w] = "restore_marker" /\ companyId' = c
    BY <1>0, <1>1, <1>12, KindAt, ControlFacts DEF WriteCompany
  <2>2. RestoreAt(w)'
    BY <1>0, <1>1, <1>3, <2>1, ControlFacts DEF RestoreAt, DocLabels, NoVersions
  <2> QED BY <1>1, <1>5, <2>1, <2>2
<1>13. CASE MakeMarker(w)
  <2>1. /\ pc[w] = "restore_marker" /\ UNCHANGED <<docDir, dirs, infos, companyId>>
        /\ lock' = w /\ op'[w] = o /\ pc'[w] = "restore_next"
        /\ markers' = markers \cup {c}
    BY <1>0, <1>1, <1>13, KindAt, ControlFacts DEF MakeMarker
  <2>2. /\ docDir /\ NoVersions /\ companyId = c /\ markers = {} /\ ~existed
        /\ o.left = VersionsOf(b) /\ o.created = {} /\ o.saved = {}
    BY <1>0, <1>1, <2>1 DEF RestoreAt, DocLabels
  <2>3. Marked' /\ companyId' = c /\ DOMAIN dirs' = {}
    BY <1>2, <2>1, <2>2 DEF Marked, NoVersions
  <2>4. ProgressAt(w)'
    BY <1>0, <2>1, <2>2, <2>3 DEF ProgressAt, Base
  <2>5. RestoreAt(w)'
    BY <1>1, <1>3, <2>1, <2>3, <2>4, ControlFacts DEF RestoreAt, DocLabels, Tidy
  <2> QED BY <1>1, <1>5, <2>1, <2>5
\* ... and the versions are written, one by one.
<1>14. pc[w] \in {"restore_next", "write_file", "write_info"} =>
        /\ ProgressAt(w) /\ Marked /\ companyId = c
        /\ o.left \cup created = VersionsOf(b) \ base /\ o.left \cap created = {}
        /\ DOMAIN dirs = base \cup created /\ Tidy(Versions \ created)
        /\ \A u \in o.saved : ReadsAs(u, c, Predecessor(b, u), b.files[u])
  BY <1>0, <1>1 DEF RestoreAt, ProgressAt, DocLabels
<1>15. pc[w] \in {"write_file", "write_info"} =>
        /\ o.version \notin o.saved /\ created = o.saved \cup {o.version}
        /\ dirs[o.version] \cup o.todo = b.files[o.version]
        /\ o.written = b.files[o.version] /\ o.prev = Predecessor(b, o.version)
  BY <1>0, <1>1 DEF RestoreAt, ProgressAt
<1>16. CASE RestoreVersion(w)
  <2>1. PICK v : v = Min(o.left)
    OBVIOUS
  <2>2. /\ pc[w] = "restore_next" /\ o.left # {} /\ pc'[w] = "write_file" /\ lock' = w
        /\ dirs' = With(dirs, v, FilesIn(v))
        /\ op'[w] = [o EXCEPT !.left = @ \ {v}, !.created = @ \cup {v}, !.version = v,
                              !.prev = Predecessor(o.backup, v),
                              !.todo = o.backup.files[v], !.written = o.backup.files[v]]
        /\ UNCHANGED <<docDir, infos, companyId, markers>>
    BY <1>1, <1>16, <2>1 DEF RestoreVersion, ControlOK
  <2>3. v \in o.left /\ v \notin DOMAIN dirs /\ dirs' = With(dirs, v, {})
    <3>1. v \in o.left
      BY <1>1, <2>1, <2>2, NextVersionOfBackup
    <3>2. v \notin DOMAIN dirs
      BY <1>14, <2>2, <3>1
    <3> QED BY <2>2, <3>1, <3>2 DEF FilesIn
  <2>4. /\ op'[w].kind = "restore" /\ op'[w].backup = b /\ op'[w].company = c
        /\ op'[w].recreate = recreate /\ op'[w].existed = existed
        /\ op'[w].left = o.left \ {v} /\ op'[w].created = created \cup {v}
        /\ op'[w].saved = o.saved /\ op'[w].version = v /\ op'[w].prev = Predecessor(b, v)
        /\ op'[w].todo = b.files[v] /\ op'[w].written = b.files[v]
    BY <1>0, <1>1, <2>2 DEF RestoreOp
  <2>5. o.saved = created /\ v \notin created
    BY <1>0, <1>1, <1>14, <2>2, <2>3 DEF RestoreAt, ProgressAt
  <2>6. /\ DOMAIN dirs' = base \cup created \cup {v} /\ dirs'[v] = {}
        /\ \A u \in created \cup base : dirs'[u] = dirs[u]
    BY <1>14, <2>2, <2>3 DEF With
  <2>7. Base(w)' = base
    BY <1>1, <1>3, <1>6, <2>2, <2>4, ControlFacts DEF Base
  <2>8. \A u \in o.saved : ReadsAs(u, c, Predecessor(b, u), b.files[u])'
    BY <1>14, <2>2, <2>5, <2>6 DEF ReadsAs, Listed
  <2>9. Marked' /\ companyId' = c
    BY <1>14, <2>2 DEF Marked
  <2>10. ProgressAt(w)'
    <3>1. /\ (o.left \ {v}) \cup created \cup {v} = VersionsOf(b) \ base
          /\ (o.left \ {v}) \cap (created \cup {v}) = {}
      BY <1>14, <2>2, <2>3
    <3>2. {} \cup b.files[v] = b.files[v]
      OBVIOUS
    <3>3. /\ op'[w].left \cup op'[w].created = VersionsOf(op'[w].backup) \ Base(w)'
          /\ op'[w].left \cap op'[w].created = {}
          /\ DOMAIN dirs' = Base(w)' \cup op'[w].created
      BY <2>4, <2>6, <2>7, <3>1
    <3>4. /\ op'[w].version \notin op'[w].saved
          /\ op'[w].created = op'[w].saved \cup {op'[w].version}
          /\ dirs'[op'[w].version] \cup op'[w].todo = op'[w].backup.files[op'[w].version]
          /\ op'[w].written = op'[w].backup.files[op'[w].version]
          /\ op'[w].prev = Predecessor(op'[w].backup, op'[w].version)
      BY <2>4, <2>5, <2>6, <3>2
    <3> QED BY <2>2, <2>4, <2>8, <2>9, <3>3, <3>4 DEF ProgressAt
  <2>11. Tidy(Versions \ (created \cup {v}))'
    BY <1>14, <2>2, <2>6 DEF Tidy
  <2>12. RestoreAt(w)'
    <3>1. Tidy(Versions \ op[w].created)'
      BY <2>4, <2>11 DEF Tidy
    <3> QED BY <1>6a, <2>2, <2>4, <2>10, <3>1
  <2> QED BY <1>5, <2>2, <2>4, <2>12
<1>17. CASE RestoreVersionFails(w)
  <2>1. pc[w] = "restore_next" /\ Rollback(w, "failed") /\ UNCHANGED disk
    BY <1>17 DEF RestoreVersionFails
  <2>2. Tidy(Versions \ created)' /\ DOMAIN dirs' = base \cup created
    BY <1>14, <2>1 DEF Tidy, disk
  <2> QED BY <1>7, <1>14, <2>1, <2>2 DEF disk
<1>18. CASE RestoreDone(w)
  <2>1. pc[w] = "restore_next" /\ o.left = {} /\ UNCHANGED disk
        /\ lock' = NoWriter /\ err'[w] = "ok"
    BY <1>1, <1>18, ControlFacts DEF RestoreDone
  <2>2. /\ o.saved = created /\ created = VersionsOf(b) \ base
        /\ DOMAIN dirs = base \cup created
        /\ \A u \in created : ReadsAs(u, c, Predecessor(b, u), b.files[u])
    BY <1>0, <1>1, <1>14, <2>1 DEF RestoreAt, ProgressAt
  <2>3. \A u \in created : ReadsAs(u, c, Predecessor(b, u), b.files[u])'
    BY <2>1, <2>2 DEF ReadsAs, Listed, disk
  <2>4. Marked' /\ Tidy(Versions \ created)' /\ DOMAIN dirs' = base \cup created
    BY <1>14, <2>1, <2>2 DEF Marked, Tidy, disk
  <2>5. base \subseteq Listed'
    BY <1>4, <1>6, OldListed
  <2>6. VersionsOf(b) # {}
    BY <1>2, BackupsAssumption DEF IsValid
  <2>7. QuietOK'
    BY <2>2, <2>3, <2>4, <2>5, <2>6 DEF QuietOK, Tidy, ReadsAs, Marked, Listed
  <2> DEFINE kept == IF recreate THEN {} ELSE seenDoc
  <2>8. kept \subseteq View' /\ base = {d.version : d \in kept}
    BY <1>2, <1>4, <1>6 DEF Old
  <2>9. \A u \in created :
          [version |-> u, company |-> c, prev |-> Predecessor(b, u), files |-> b.files[u]]
              \in View'
    BY <2>3, ReadIsSeen
  <2> HIDE DEF kept
  <2>10. Merged(kept, b) = kept \cup
          {[version |-> u, company |-> c, prev |-> Predecessor(b, u), files |-> b.files[u]] :
              u \in created}
    <3>1. \A u \in VersionsOf(b) : (u \in created) <=> (\A d \in kept : d.version # u)
      BY <2>2, <2>8
    <3> HIDE DEF o
    <3> QED BY <1>2, <2>2, <3>1 DEF Merged, Restored
  <2>11. Merged(kept, b) \subseteq View'
    BY <2>8, <2>9, <2>10
  <2>12. \A u \in Listed' : \E d \in Merged(kept, b) : d.version = u
    <3>1. Listed' \subseteq base \cup created
      BY <2>4 DEF Listed
    <3>2. ASSUME NEW u \in created
          PROVE  \E d \in Merged(kept, b) : d.version = u
      <4>1. [version |-> u, company |-> c, prev |-> Predecessor(b, u),
             files |-> b.files[u]] \in Merged(kept, b)
        BY <2>10, <3>2
      <4> QED BY <4>1
    <3> QED BY <2>8, <2>10, <3>1, <3>2
  <2>13. View' = Merged(kept, b)
    BY <2>11, <2>12, ViewIs
  <2>14. seenDoc' = Merged(IF recreate THEN {} ELSE seenDoc, b) /\ seenOutcome' = "ok"
    BY <1>3, <2>1, <2>13 DEF ResultOf, kept
  <2> QED BY <1>2, <2>1, <2>7, <2>14, PromiseRestores DEF WholeStep
<1>19. PICK v : v = o.version
  OBVIOUS
<1>20. CASE WriteFile(w)
  <2>1. PICK f \in o.todo :
          /\ dirs' = WithFile(v, f)
          /\ op' = [op EXCEPT ![w].todo = @ \ {f}]
    BY <1>19, <1>20 DEF WriteFile
  <2>2. /\ pc[w] = "write_file" /\ pc'[w] = "write_file" /\ lock' = w
        /\ UNCHANGED <<docDir, infos, companyId, markers>>
        /\ op'[w] = [o EXCEPT !.todo = @ \ {f}]
    BY <1>1, <1>20, <2>1 DEF WriteFile, ControlOK
  <2>3. /\ op'[w].kind = "restore" /\ op'[w].backup = b /\ op'[w].company = c
        /\ op'[w].recreate = recreate /\ op'[w].existed = existed
        /\ op'[w].left = o.left /\ op'[w].created = created
        /\ op'[w].saved = o.saved /\ op'[w].version = v /\ op'[w].prev = o.prev
        /\ op'[w].todo = o.todo \ {f} /\ op'[w].written = o.written
    BY <1>0, <1>1, <1>19, <2>2 DEF RestoreOp
  <2>4. v \in DOMAIN dirs /\ v \in created /\ v \notin o.saved
    BY <1>14, <1>15, <1>19, <2>2
  <2>5. /\ DOMAIN dirs' = DOMAIN dirs /\ dirs'[v] = CarryForward(dirs[v], {}, {f})
        /\ \A u \in DOMAIN dirs : u # v => dirs'[u] = dirs[u]
    BY <2>1, <2>4 DEF WithFile
  <2>6. dirs'[v] \cup (o.todo \ {f}) = b.files[v]
    <3>1. dirs[v] \cup o.todo = b.files[v] /\ b.files[v] = o.written
      BY <1>15, <1>19, <2>2
    <3>2. o.written \in FileMaps
      BY <1>1 DEF RestoreOp
    <3> QED BY <2>1, <2>5, <3>1, <3>2, NewFileKeeps
  <2>7. Base(w)' = base
    BY <1>1, <1>3, <1>6, <2>2, <2>3, ControlFacts DEF Base
  <2>8. \A u \in o.saved : ReadsAs(u, c, Predecessor(b, u), b.files[u])'
    BY <1>14, <2>2, <2>4, <2>5 DEF ReadsAs, Listed
  <2>9. Marked' /\ companyId' = c
    BY <1>14, <2>2 DEF Marked
  <2>10. ProgressAt(w)'
    <3>1. /\ op'[w].left \cup op'[w].created = VersionsOf(op'[w].backup) \ Base(w)'
          /\ op'[w].left \cap op'[w].created = {}
          /\ DOMAIN dirs' = Base(w)' \cup op'[w].created
      BY <1>14, <2>2, <2>3, <2>5, <2>7
    <3>2. /\ op'[w].version \notin op'[w].saved
          /\ op'[w].created = op'[w].saved \cup {op'[w].version}
          /\ dirs'[op'[w].version] \cup op'[w].todo = op'[w].backup.files[op'[w].version]
          /\ op'[w].written = op'[w].backup.files[op'[w].version]
          /\ op'[w].prev = Predecessor(op'[w].backup, op'[w].version)
      BY <1>15, <1>19, <2>2, <2>3, <2>6
    <3> QED BY <2>2, <2>3, <2>8, <2>9, <3>1, <3>2 DEF ProgressAt
  <2>11. Tidy(Versions \ created)'
    BY <1>14, <2>2, <2>4, <2>5 DEF Tidy
  <2>12. RestoreAt(w)'
    <3>1. Tidy(Versions \ op[w].created)'
      BY <2>2, <2>3, <2>11 DEF Tidy
    <3> QED BY <1>6a, <2>2, <2>3, <2>10, <3>1
  <2> QED BY <1>5, <2>2, <2>3, <2>12
<1>21. CASE WriteFileFails(w)
  <2>1. pc[w] = "write_file" /\ Rollback(w, "failed")
        /\ UNCHANGED <<docDir, infos, companyId, markers>>
    BY <1>21 DEF WriteFileFails
  <2>2. dirs' = dirs \/ \E f : dirs' = WithFile(v, f)
    BY <1>19, <1>21 DEF WriteFileFails
  <2>3. v \in created
    BY <1>15, <1>19, <2>1
  <2>4. Tidy(Versions \ created)' /\ DOMAIN dirs' = base \cup created
    BY <1>14, <2>1, <2>2, <2>3 DEF Tidy, WithFile
  <2> QED BY <1>7, <1>14, <2>1, <2>4
<1>22. CASE WriteFileDone(w)
  <2>1. /\ pc[w] = "write_file" /\ lock' = w /\ op'[w] = o /\ pc'[w] = "write_info"
        /\ UNCHANGED disk
    BY <1>1, <1>22, ControlFacts DEF WriteFileDone
  <2>2. Base(w)' = base
    BY <1>1, <1>3, <1>6, <1>0, <2>1, ControlFacts DEF Base
  <2>3. \A u \in o.saved : ReadsAs(u, c, Predecessor(b, u), b.files[u])'
    BY <1>14, <2>1 DEF ReadsAs, Listed, disk
  <2>4. Marked' /\ companyId' = c /\ dirs' = dirs /\ Tidy(Versions \ created)'
    BY <1>14, <2>1 DEF Marked, disk, Tidy
  <2>5. ProgressAt(w)'
    BY <1>0, <1>14, <1>15, <2>1, <2>2, <2>3, <2>4 DEF ProgressAt
  <2>6. RestoreAt(w)'
    BY <1>0, <1>1, <1>3, <1>4, <2>1, <2>4, <2>5, ControlFacts DEF RestoreAt, DocLabels, Tidy
  <2> QED BY <1>1, <1>5, <2>1, <2>6
<1>23. CASE WriteInfo(w)
  <2>1. /\ pc[w] = "write_info" /\ pc'[w] = "restore_next" /\ lock' = w
        /\ op'[w] = [o EXCEPT !.saved = @ \cup {v}]
        /\ infos' = Written(o) /\ UNCHANGED <<docDir, dirs, companyId, markers>>
    BY <1>1, <1>19, <1>23 DEF WriteInfo, ControlOK
  <2>2. /\ op'[w].kind = "restore" /\ op'[w].backup = b /\ op'[w].company = c
        /\ op'[w].recreate = recreate /\ op'[w].existed = existed
        /\ op'[w].left = o.left /\ op'[w].created = created
        /\ op'[w].saved = o.saved \cup {v}
    BY <1>0, <1>1, <1>19, <2>1 DEF RestoreOp
  <2>3. dirs[v] = b.files[v] /\ v \in DOMAIN dirs /\ v \in created /\ v \notin o.saved
    <3>1. o.version \in DOMAIN dirs /\ o.todo = {}
      BY <1>1, <2>1 DEF WritingAt, WritingLabels
    <3>2. dirs[o.version] \cup o.todo = b.files[o.version]
          /\ o.version \notin o.saved /\ o.version \in created
      BY <1>15, <2>1
    <3> QED BY <1>19, <3>1, <3>2
  <2>4. infos'[v] = NewInfo(c, Predecessor(b, v), b.files[v]) /\ v \in DOMAIN infos'
    BY <1>0, <1>15, <1>19, <2>1, <2>3 DEF Written, With, FilesIn
  <2>5. \A u : u # v /\ u \in DOMAIN infos => u \in DOMAIN infos' /\ infos'[u] = infos[u]
    BY <1>19, <2>1 DEF Written, With
  <2>6. \A u \in o.saved \cup {v} : ReadsAs(u, c, Predecessor(b, u), b.files[u])'
    BY <1>14, <2>1, <2>3, <2>4, <2>5 DEF ReadsAs, Listed, NewInfo
  <2>7. Base(w)' = base
    BY <1>1, <1>3, <1>6, <2>1, <2>2, ControlFacts DEF Base
  <2>8. Marked' /\ companyId' = c
    BY <1>14, <2>1 DEF Marked
  <2>9. created = o.saved \cup {v}
    BY <1>15, <1>19, <2>1
  <2>10. ProgressAt(w)'
    BY <1>14, <2>1, <2>2, <2>6, <2>7, <2>8, <2>9 DEF ProgressAt
  <2>11. Tidy(Versions \ created)'
    BY <1>14, <2>1, <2>3, <2>5 DEF Tidy
  <2>12. RestoreAt(w)'
    <3>1. Tidy(Versions \ op[w].created)'
      BY <2>1, <2>2, <2>11 DEF Tidy
    <3> QED BY <1>6a, <2>1, <2>2, <2>10, <3>1
  <2> QED BY <1>5, <2>1, <2>2, <2>12
<1>24. CASE WriteInfoFails(w)
  <2>1. pc[w] = "write_info" /\ Rollback(w, "failed")
        /\ UNCHANGED <<docDir, dirs, companyId, markers>>
    BY <1>24 DEF WriteInfoFails
  <2>2. infos' = infos \/ \E info : infos' = With(infos, v, info)
    BY <1>19, <1>24 DEF WriteInfoFails, Written
  <2>3. v \in created
    BY <1>15, <1>19, <2>1
  <2>4. Tidy(Versions \ created)' /\ DOMAIN dirs' = base \cup created
    BY <1>14, <2>1, <2>2, <2>3 DEF Tidy, With
  <2> QED BY <1>7, <1>14, <2>1, <2>4
\* The rollback removes what was created, then the document if there was none.
<1>25. pc[w] \in {"undo_dirs", "undo_infos", "undo_marker"} =>
        /\ err[w] # "ok" /\ Marked /\ companyId = c /\ DOMAIN dirs \subseteq base \cup created
        /\ pc[w] \in {"undo_infos", "undo_marker"} => created = {}
        /\ pc[w] \in {"undo_dirs", "undo_infos"} => Tidy(Versions \ created)
  BY <1>0, <1>1 DEF RestoreAt, DocLabels
<1>26. CASE UndoDirs(w)
  <2>1. /\ pc[w] = "undo_dirs" /\ UNCHANGED <<docDir, infos, companyId, markers>>
        /\ Marked' /\ companyId' = c /\ err[w] # "ok"
    BY <1>25, <1>26 DEF UndoDirs, Marked
  <2>2. CASE created = {}
    <3>1. lock' = w /\ op'[w] = o /\ pc'[w] = "undo_infos" /\ err'[w] = err[w] /\ dirs' = dirs
      BY <1>0, <1>1, <1>26, <2>2, ControlFacts DEF UndoDirs
    <3>2. Base(w)' = base /\ Tidy(Versions \ created)'
      BY <1>0, <1>1, <1>3, <1>6, <1>25, <2>1, <3>1, ControlFacts DEF Base, Tidy
    <3>3. RestoreAt(w)'
      BY <1>0, <1>1, <1>3, <1>4, <1>25, <2>1, <2>2, <3>1, <3>2, ControlFacts
      DEF RestoreAt, DocLabels, Tidy
    <3> QED BY <1>1, <1>5, <3>1, <3>3
  <2>3. CASE created # {}
    <3>1. PICK u : u = Min(created)
      OBVIOUS
    <3>2. u \in created
      BY <1>0, <1>2, <2>3, <3>1, MinOfNaturals
    <3>3. PICK rest :
            /\ rest \subseteq created /\ lock' = w /\ pc'[w] = "undo_dirs"
            /\ err'[w] = err[w] /\ op'[w] = [o EXCEPT !.created = rest]
            /\ DOMAIN dirs' \subseteq base \cup rest
            /\ \A x \in DOMAIN dirs' : x \in DOMAIN dirs /\ (x # u => dirs'[x] = dirs[x])
            /\ rest = created \/ (rest = created \ {u} /\ u \notin DOMAIN dirs')
      <4>1. CASE /\ \E f \in dirs[u] : dirs' = [dirs EXCEPT ![u] = @ \ {f}]
                 /\ UNCHANGED control
        <5>1. o = [o EXCEPT !.created = created]
          BY <1>0, <1>1 DEF RestoreOp
        <5> QED BY <1>25, <2>1, <4>1, <5>1 DEF control
      <4>2. CASE /\ dirs' = Without(dirs, u)
                 /\ op' = [op EXCEPT ![w].created = @ \ {u}]
                 /\ UNCHANGED <<lock, pc, err>>
        <5>1. op'[w] = [o EXCEPT !.created = created \ {u}]
          BY <1>0, <1>1, <4>2 DEF ControlOK
        <5>2. /\ DOMAIN dirs' = DOMAIN dirs \ {u}
              /\ \A x \in DOMAIN dirs' : dirs'[x] = dirs[x]
          BY <4>2 DEF Without, Restrict
        <5> QED BY <1>25, <2>1, <4>2, <5>1, <5>2
      <4> QED BY <1>0, <1>26, <2>3, <3>1, <4>1, <4>2, FaultFacts DEF UndoDirs
    <3>4. /\ op'[w].kind = "restore" /\ op'[w].backup = b /\ op'[w].company = c
          /\ op'[w].recreate = recreate /\ op'[w].existed = existed
          /\ op'[w].created = rest /\ op'[w].saved = o.saved /\ op'[w].left = o.left
      BY <1>0, <1>1, <3>3 DEF RestoreOp
    <3>5. Base(w)' = base
      BY <1>1, <1>3, <1>6, <3>3, <3>4, ControlFacts DEF Base
    <3>6. Tidy(Versions \ rest)'
      BY <1>25, <2>1, <3>2, <3>3 DEF Tidy
    <3>7. RestoreAt(w)'
      BY <1>1, <1>2, <1>3, <1>4, <2>1, <3>3, <3>4, <3>5, <3>6, ControlFacts
      DEF RestoreAt, DocLabels, Tidy
    <3> QED BY <1>5, <3>3, <3>4, <3>7
  <2> QED BY <2>2, <2>3
<1>27. CASE UndoInfos(w)
  <2>1. /\ pc[w] = "undo_infos" /\ UNCHANGED <<docDir, dirs, companyId, markers>>
        /\ Marked' /\ companyId' = c /\ err[w] # "ok" /\ created = {}
        /\ DOMAIN dirs' \subseteq base /\ Tidy(Versions)
    BY <1>25, <1>27 DEF UndoInfos, Marked
  <2>2. CASE o.saved # {}
    <3>1. PICK u : u = Min(o.saved)
      OBVIOUS
    <3>2. u \in o.saved /\ u \notin DOMAIN dirs'
      BY <1>2, <1>6, <2>1, <2>2, <3>1, MinOfNaturals
    <3>3. /\ lock' = w /\ pc'[w] = "undo_infos" /\ err'[w] = err[w]
          /\ op'[w] = [o EXCEPT !.saved = @ \ {u}] /\ infos' = Without(infos, u)
      BY <1>1, <1>27, <2>2, <3>1, FaultFacts DEF UndoInfos, ControlOK
    <3>4. /\ op'[w].kind = "restore" /\ op'[w].backup = b /\ op'[w].company = c
          /\ op'[w].recreate = recreate /\ op'[w].existed = existed
          /\ op'[w].created = {} /\ op'[w].left = o.left
      BY <1>0, <1>1, <2>1, <3>3 DEF RestoreOp
    <3>5. Base(w)' = base
      BY <1>1, <1>3, <1>6, <3>3, <3>4, ControlFacts DEF Base
    <3>6. Tidy(Versions)'
      BY <2>1, <3>2, <3>3 DEF Tidy, Without, Restrict
    <3>7. RestoreAt(w)'
      BY <1>1, <1>2, <1>3, <1>4, <2>1, <3>3, <3>4, <3>5, <3>6, ControlFacts
      DEF RestoreAt, DocLabels, Tidy
    <3> QED BY <1>5, <3>3, <3>4, <3>7
  <2>3. CASE o.saved = {} /\ existed
    <3>1. lock' = NoWriter /\ err'[w] # "ok" /\ infos' = infos
      BY <1>0, <1>1, <1>27, <2>1, <2>3, ControlFacts DEF UndoInfos
    <3>2. Tidy(Versions)' /\ Listed' \subseteq Old
      BY <1>6, <2>1, <2>3, <3>1 DEF Tidy, Listed
    <3>3. View' = seenDoc
      BY <1>4, <2>3, <3>2, SeenAgain
    <3>4. Listed' # {}
      BY <1>4, <2>3, OldListed DEF Old
    <3> QED BY <2>1, <3>1, <3>2, <3>3, <3>4, FailsWhole DEF QuietOK, Marked
  <2>4. CASE o.saved = {} /\ ~existed
    <3>1. lock' = w /\ op'[w] = o /\ pc'[w] = "undo_marker" /\ err'[w] = err[w]
      BY <1>0, <1>1, <1>27, <2>4, ControlFacts DEF UndoInfos
    <3>2. Base(w)' = base
      BY <1>0, <1>1, <1>3, <1>6, <3>1, ControlFacts DEF Base
    <3>3. RestoreAt(w)'
      BY <1>0, <1>1, <1>3, <1>4, <2>1, <2>4, <3>1, <3>2, ControlFacts
      DEF RestoreAt, DocLabels
    <3> QED BY <1>1, <1>5, <3>1, <3>3
  <2> QED BY <2>2, <2>3, <2>4
<1>28. CASE UndoMarker(w)
  <2>1. /\ pc[w] = "undo_marker" /\ err[w] # "ok" /\ markers' = {}
    BY <1>0, <1>25, <1>28, FaultFacts DEF UndoMarker, Marked
  <2>2. lock' = w /\ op'[w] = o /\ pc'[w] = "remove_doc" /\ err'[w] = err[w]
    BY <1>1, <1>28, ControlFacts DEF UndoMarker
  <2>3. RestoreAt(w)'
    BY <1>1, <1>3, <2>1, <2>2, ControlFacts DEF RestoreAt, DocLabels
  <2> QED BY <1>1, <1>5, <2>2, <2>3
<1> QED
  BY <1>8, <1>9, <1>10, <1>11, <1>12, <1>13, <1>16, <1>17, <1>18, <1>20, <1>21, <1>22,
     <1>23, <1>24, <1>26, <1>27, <1>28, CallsOf

\* A call that begins an operation finds nothing under way; one that refuses it
\* leaves the document as it is.
LEMMA BeginsWhole ==
    ASSUME LocalInv, NEW w \in Writers, lock = NoWriter, QuietOK, seenDoc = View,
           Step(w), NextSeen(w)
    PROVE  WholeStep(w)
<1>1. /\ pc[w] = "idle" /\ lock = NoWriter /\ w # NoWriter /\ docDir \in BOOLEAN
      /\ pc \in [Writers -> Labels] /\ op \in [Writers -> Operations \cup {NoOp}]
      /\ err \in [Writers -> Results]
  BY NamesAssumption DEF LocalInv, ControlOK, DiskOK
<1>2. ASSUME NEW o, NEW label, Begin(w, o, label)
      PROVE  lock' = w /\ op'[w] = o /\ pc'[w] = label /\ err'[w] = "ok"
  BY <1>1, <1>2 DEF Begin
<1>3. ASSUME lock' = w
      PROVE  seenDoc' = seenDoc /\ Old' = Old
  BY <1>1, <1>3, SeenFacts
<1>4. \/ CreateBegin(w) \/ AddBegin(w) \/ SetBegin(w) \/ DeleteBegin(w)
      \/ DeleteVersionBegin(w) \/ RestoreBegin(w)
      \/ \E e : Refuse(w, e) /\ e # "ok"
  BY <1>1 DEF Step, Create, MakeDirs, MakeDirsFails, WriteCompany,
     MakeMarker, CreateFails, WriteVersion, WriteFile, WriteFileFails, WriteFileDone,
     WriteInfo, WriteInfoRefused, WriteInfoFails, Notify, NotifyFails, Add,
     MakeDir, MakeDirExists, SetCompany, SetUnmark, SetCompanyId, SetMark, SetFails,
     Remove, RemoveMarker, RemoveMarkerFails, RemoveEntry,
     RemoveDoc, RemoveDocFails, RemoveDir, RemoveDirFails, RemoveInfo, UndoMarker, Restore,
     RestoreDir, RestoreDirFails, RestoreVersion, RestoreVersionFails,
     RestoreDone, UndoDirs, UndoInfos, Crash, CreateExists, AddNotFound, AddRefused,
     SetNotFound, DeleteNotFound, DeleteVersionNotFound
<1>5. /\ Old = Listed /\ DOMAIN dirs = Listed /\ Tidy(Versions)
      /\ docDir => Marked /\ seenDoc # {} /\ Listed # {}
      /\ ~docDir => markers = {} /\ seenDoc = {} /\ Listed = {}
  <2>1. Old = Listed
    <3>1. ASSUME NEW v \in Listed
          PROVE  \E d \in View : d.version = v
      <4>1. [version |-> v, company |-> infos[v].company, prev |-> infos[v].prev,
             files |-> infos[v].files \cap dirs[v]] \in View
        BY DEF View
      <4> QED BY <4>1
    <3>2. \A d \in View : d.version \in Listed
      BY DEF View
    <3> QED BY <3>1, <3>2 DEF Old
  <2>2. DOMAIN dirs \subseteq Listed /\ Listed \subseteq DOMAIN dirs /\ Tidy(Versions)
    BY DEF QuietOK, Tidy, Listed, LocalInv, DiskOK
  <2>3. ~docDir => Listed = {}
    BY DEF LocalInv, DiskOK, Listed
  <2> QED BY <2>1, <2>2, <2>3 DEF QuietOK, View
<1>6. CASE \E e : Refuse(w, e) /\ e # "ok"
  <2>1. lock' = NoWriter /\ err'[w] # "ok" /\ UNCHANGED disk
    BY <1>1, <1>6 DEF Refuse, Return
  <2>2. QuietOK' /\ View' = seenDoc
    BY <1>5, <2>1 DEF QuietOK, Tidy, Marked, View, Listed, disk
  <2> QED BY <2>1, <2>2, FailsWhole
<1>7. CASE CreateBegin(w)
  <2>1. PICK v \in Versions, c \in Companies, files \in FileMaps \ {{}} :
          Begin(w, [kind |-> "create", version |-> v, prev |-> NoVersion,
                    company |-> c, todo |-> files, written |-> files], "make_dirs")
    BY <1>7 DEF CreateBegin
  <2>2. /\ lock' = w /\ pc'[w] = "make_dirs" /\ op'[w].kind = "create"
        /\ op'[w].todo = files /\ op'[w].written = files
    BY <1>2, <2>1
  <2>3. ~docDir /\ "create" \in Ops /\ docDir' = docDir /\ markers' = markers
    BY <1>7 DEF CreateBegin, disk
  <2>4. CreateAt(w)'
    BY <1>3, <1>5, <2>2, <2>3 DEF CreateAt
  <2> QED BY <1>1, <2>2, <2>3, <2>4 DEF WholeStep, WholeAt
<1>8. CASE AddBegin(w)
  <2>1. PICK latest \in Listed, v \in Versions, c \in Companies, written \in FileMaps,
             removed \in SUBSET Names :
          /\ IsLatest(latest)
          /\ v > latest
          /\ Begin(w, [kind |-> "add", version |-> v, prev |-> latest,
                       company |-> c, base |-> infos[latest].company, target |-> c,
                       todo |-> CarryForward(infos[latest].files, removed, written),
                       written |-> written], "make_dir")
    BY <1>8 DEF AddBegin
  <2>2. /\ lock' = w /\ pc'[w] = "make_dir" /\ op'[w].kind = "add"
        /\ op'[w].version = v /\ op'[w].prev = latest
    BY <1>2, <2>1
  <2>3. "add" \in Ops /\ UNCHANGED disk
    BY <1>8 DEF AddBegin
  <2>4. latest \in Nat /\ v \in Nat /\ latest < v
    BY <2>1, VersionsAssumption DEF LocalInv, DiskOK, Listed
  <2>5. /\ Marked' /\ DOMAIN dirs' \subseteq Old \cup {v} /\ Tidy(Versions \ {v})'
        /\ latest \in Old /\ \A u \in Old : u <= latest
    BY <1>5, <2>1, <2>3 DEF Marked, Tidy, IsLatest, disk
  <2>6. AddAt(w)'
    BY <1>3, <2>2, <2>4, <2>5 DEF AddAt, MarkerAt
  <2> QED BY <1>1, <2>2, <2>3, <2>6 DEF WholeStep, WholeAt
<1>9. CASE SetBegin(w)
  <2>1. /\ lock' = w /\ pc'[w] = "set_unmark" /\ op'[w].kind = "setCompany"
        /\ "setCompany" \in Ops /\ docDir /\ UNCHANGED disk
    BY <1>2, <1>9 DEF SetBegin
  <2>2. Marked' /\ Tidy(Versions)' /\ Listed' # {}
    BY <1>5, <2>1 DEF Marked, Tidy, Listed, disk
  <2>3. MarkerAt(w)'
    BY <2>1, <2>2 DEF MarkerAt
  <2> QED BY <1>1, <2>1, <2>2, <2>3 DEF WholeStep, WholeAt
<1>10. CASE DeleteBegin(w)
  <2>1. /\ lock' = w /\ pc'[w] = "remove_marker" /\ op'[w].kind = "delete"
        /\ "delete" \in Ops /\ docDir /\ UNCHANGED disk
    BY <1>2, <1>10 DEF DeleteBegin
  <2>2. Marked'
    BY <1>5, <2>1 DEF Marked, disk
  <2>3. DeleteAt(w)'
    BY <1>3, <1>5, <2>1, <2>2 DEF DeleteAt
  <2> QED BY <1>1, <2>1, <2>3 DEF WholeStep, WholeAt
<1>11. CASE DeleteVersionBegin(w)
  <2>1. PICK v \in DOMAIN dirs :
          Begin(w, [kind |-> "deleteVersion", version |-> v], "remove_dir")
    BY <1>11 DEF DeleteVersionBegin
  <2>2. /\ lock' = w /\ pc'[w] = "remove_dir" /\ op'[w].kind = "deleteVersion"
        /\ op'[w].version = v
    BY <1>2, <2>1
  <2>3. "deleteVersion" \in Ops /\ UNCHANGED disk
    BY <1>11 DEF DeleteVersionBegin
  <2>4. v \in Old /\ Marked' /\ DOMAIN dirs' \subseteq Old /\ Tidy(Versions \ {v})'
    BY <1>1, <1>5, <2>1, <2>3 DEF Marked, Tidy, disk
  <2>5. DeleteVersionAt(w)'
    BY <1>3, <2>2, <2>4 DEF DeleteVersionAt
  <2> QED BY <1>1, <2>2, <2>3, <2>5 DEF WholeStep, WholeAt
<1>12. CASE RestoreBegin(w) /\ ~\E e : Refuse(w, e) /\ e # "ok"
  <2>0. ~Refuse(w, "failed")
    BY <1>12
  <2>1. PICK b \in Backups, recreate \in BOOLEAN :
          LET merge == docDir /\ ~recreate
              o == RestoreCall(b, recreate)
          IN \/ docDir /\ recreate /\ Begin(w, o, "remove_marker")
             \/ merge /\ companyId = b.company /\ Begin(w, o, "restore_next")
             \/ ~docDir /\ Begin(w, o, "restore_dir")
    BY <1>12, <2>0 DEF RestoreBegin
  <2> DEFINE merge == docDir /\ ~recreate
             left == IF merge THEN VersionsOf(b) \ Listed ELSE VersionsOf(b)
  <2>2. /\ lock' = w /\ err'[w] = "ok" /\ op'[w].kind = "restore"
        /\ op'[w].backup = b /\ op'[w].recreate = recreate /\ op'[w].company = b.company
        /\ op'[w].existed = merge /\ op'[w].left = left
        /\ op'[w].created = {} /\ op'[w].saved = {}
        /\ \/ docDir /\ recreate /\ pc'[w] = "remove_marker"
           \/ merge /\ companyId = b.company /\ pc'[w] = "restore_next"
           \/ ~docDir /\ pc'[w] = "restore_dir"
    <3>1. /\ lock' = w /\ err'[w] = "ok" /\ op'[w] = RestoreCall(b, recreate)
          /\ \/ docDir /\ recreate /\ pc'[w] = "remove_marker"
             \/ merge /\ companyId = b.company /\ pc'[w] = "restore_next"
             \/ ~docDir /\ pc'[w] = "restore_dir"
      BY <1>2, <2>1
    <3> QED BY <3>1 DEF RestoreCall
  <2>3. "restore" \in Ops /\ UNCHANGED disk
    BY <1>12 DEF RestoreBegin
  <2>4. /\ docDir => Marked' /\ seenDoc # {}
        /\ ~docDir => markers' = {} /\ seenDoc = {}
        /\ docDir => Listed' # {}
        /\ docDir' = docDir /\ companyId' = companyId /\ dirs' = dirs /\ Tidy(Versions)'
        /\ View' = View
    BY <1>5, <2>3 DEF Marked, Tidy, Listed, View, disk
  <2>5. merge => ProgressAt(w)'
    <3>1. merge => Base(w)' = Listed
      BY <1>3, <1>5, <2>2 DEF Base
    <3> QED BY <1>1, <1>5, <2>2, <2>4, <3>1 DEF ProgressAt
  <2>6. RestoreAt(w)'
    BY <1>1, <1>3, <2>2, <2>4, <2>5 DEF RestoreAt, DocLabels, Tidy
  <2> QED BY <1>1, <2>2, <2>3, <2>6 DEF WholeStep, WholeAt
<1> QED BY <1>4, <1>6, <1>7, <1>8, <1>9, <1>10, <1>11, <1>12

\* Every call keeps its operation in order, or ends it as a whole.
LEMMA StepIsWhole ==
    ASSUME FailuresRolledBack, LocalInv, LocalInv', KeepInv, WholeInv, NEW w \in Writers,
           Step(w), NextSeen(w)
    PROVE  WholeStep(w)
<1>1. CASE lock = NoWriter
  BY <1>1, BeginsWhole DEF WholeInv, KeepInv
<1>2. CASE lock = w
  <2>1. WholeAt(w) /\ KeepAt(w)
    BY <1>2 DEF WholeInv, KeepInv
  <2>2. op[w].kind \in OpKinds
    BY <1>2, CallsOf, KindFacts
  <2> QED
    BY <1>2, <2>1, <2>2, CreateWhole, AddWhole, SetCompanyWhole, DeleteWhole,
       DeleteVersionWhole, RestoreWhole DEF OpKinds
<1> QED BY <1>1, <1>2, StepKeepsControl DEF KeepsControl

LEMMA WholeInvStutters ==
    ASSUME UNCHANGED auxVars, WholeInv
    PROVE  WholeInv'
<1>1. /\ docDir' = docDir /\ dirs' = dirs /\ infos' = infos /\ companyId' = companyId
      /\ markers' = markers /\ lock' = lock /\ pc' = pc /\ op' = op /\ err' = err
      /\ seenDoc' = seenDoc
  BY DEF auxVars, vars, disk, control, seen
<1>2. Old' = Old /\ Listed' = Listed /\ Marked' = Marked /\ Unmarked' = Unmarked
      /\ NoVersions' = NoVersions /\ View' = View
  BY <1>1 DEF Old, Listed, Marked, Unmarked, NoVersions, View
<1>3. \A S : Tidy(S)' = Tidy(S)
  BY <1>1 DEF Tidy
<1>4. \A v, c, prev, files : ReadsAs(v, c, prev, files)' = ReadsAs(v, c, prev, files)
  BY <1>1, <1>2 DEF ReadsAs
<1>5. ASSUME NEW w \in Writers, WholeAt(w)
      PROVE  WholeAt(w)'
  <2>1. CreateAt(w) => CreateAt(w)'
    BY <1>1, <1>2, <1>4 DEF CreateAt
  <2>2. MarkerAt(w) => MarkerAt(w)'
    BY <1>1, <1>2 DEF MarkerAt
  <2>3. AddAt(w) => AddAt(w)'
    BY <1>1, <1>2, <1>3, <1>4, <2>2 DEF AddAt, Tidy
  <2>4. DeleteAt(w) => DeleteAt(w)'
    BY <1>1, <1>2 DEF DeleteAt
  <2>5. DeleteVersionAt(w) => DeleteVersionAt(w)'
    BY <1>1, <1>2 DEF DeleteVersionAt, Tidy
  <2>6. Base(w)' = Base(w)
    BY <1>1, <1>2 DEF Base
  <2>7. ProgressAt(w) => ProgressAt(w)'
    BY <1>1, <1>2, <1>4, <2>6 DEF ProgressAt
  <2>8. RestoreAt(w) => RestoreAt(w)'
    BY <1>1, <1>2, <2>6, <2>7 DEF RestoreAt, Tidy
  <2>9. Tidy(Versions)' = Tidy(Versions)
    BY <1>3
  <2> QED BY <1>1, <1>2, <1>5, <2>1, <2>2, <2>3, <2>4, <2>5, <2>8, <2>9 DEF WholeAt
<1>6. QuietOK' = QuietOK
  BY <1>1, <1>2 DEF QuietOK, Tidy
<1> QED BY <1>1, <1>5, <1>6 DEF WholeInv

LEMMA WholeInvStep ==
    ASSUME FailuresRolledBack, LocalInv, LocalInv', KeepInv, WholeInv, [AtomicNext]_auxVars
    PROVE  WholeInv'
<1>1. CASE UNCHANGED auxVars
  BY <1>1, WholeInvStutters
<1>2. ASSUME NEW w \in Writers, Step(w), NextSeen(w)
      PROVE  WholeInv'
  <2>1. WholeStep(w)
    BY <1>2, StepIsWhole
  <2>2. lock' \in {w, NoWriter}
    BY <1>2, StepKeepsControl DEF KeepsControl
  <2>3. \A u \in Writers : lock' = u => lock' # NoWriter /\ u = w
    BY <2>2, NamesAssumption
  <2> QED BY <2>1, <2>3 DEF WholeStep, WholeInv
<1> QED BY <1>1, <1>2 DEF AtomicNext

\* All that the argument needs, in every state.
LEMMA AllInvAlways ==
    ASSUME FailuresRolledBack
    PROVE  AtomicSpec => [](LocalInv /\ KeepInv /\ WholeInv)
<1>1. AtomicInit => KeepInv /\ WholeInv
  <2> SUFFICES ASSUME AtomicInit
               PROVE  KeepInv /\ WholeInv
    OBVIOUS
  <2>1. /\ docDir = FALSE /\ markers = {} /\ lock = NoWriter /\ DOMAIN dirs = {}
        /\ seenDoc = View
    BY DEF AtomicInit, Init, InitSeen, Empty
  <2> QED BY <2>1, NamesAssumption DEF KeepInv, WholeInv, QuietOK, Tidy
<1>2. LocalInv /\ LocalInv' /\ KeepInv /\ WholeInv /\ [AtomicNext]_auxVars
        => KeepInv' /\ WholeInv'
  <2>1. ~May("unlisted", "remove_info")
    BY FaultFacts
  <2> QED BY <2>1, KeepInvStep, WholeInvStep
<1> QED BY <1>1, <1>2, LocalInvAlways, PTL DEF AtomicSpec

\* While nobody holds the mutex, the document's directory is there just if a version
\* is, and no company but the one in company.id has a marker for it: DocumentExists
\* and DocumentVersions of conn.go agree, and CompanyDocumentIDs lists no document
\* that is gone or another company's.  So it is whichever call failed that a rollback
\* follows, and also when a change of the company broke off half-way, by itself or
\* in AddDocumentVersion, whose rollback leaves it so.
THEOREM MarkersNeverStray ==
    ASSUME FailuresRolledBack
    PROVE  AtomicSpec => []NoStrayMarkers
<1>1. LocalInv /\ WholeInv => NoStrayMarkers
  BY DEF LocalInv, DiskOK, WholeInv, QuietOK, Marked, Listed, NoStrayMarkers
<1> QED BY <1>1, AllInvAlways, PTL

\* If no call of setDocumentCompanyID fails either, the company in company.id has its
\* marker too, and CompanyDocumentIDs lists all the documents of a company.
THEOREM MarkersAlwaysMatch ==
    ASSUME FailuresRolledBack, CompanyChangesSucceed
    PROVE  AtomicSpec => []MarkersMatch
<1>1. LocalInv /\ WholeInv => MarkersMatch
  BY DEF LocalInv, DiskOK, WholeInv, QuietOK, Marked, Listed, MarkersMatch
<1> QED BY <1>1, AllInvAlways, PTL

\* CreateDocument, AddDocumentVersion, RestoreDocument, DeleteDocument and
\* DeleteDocumentVersion of localfsdb, with their deferred rollbacks, implement what
\* the Conn interface promises: each acts as one step of DocDb, all or nothing, for
\* the versions and their files, if what fails is a call that a rollback follows.
\* SetDocumentCompanyID, which leaves the version infos alone, is not among them.
THEOREM LocalActsAtomically ==
    ASSUME FailuresRolledBack, "setCompany" \notin Ops
    PROVE  AtomicSpec => ActsAtomically
<1>1. AtomicInit => Promise!Init
  BY DEF AtomicInit, Init, InitSeen, Empty, View, Listed, Promise!Init
<1>2. LocalInv /\ LocalInv' /\ KeepInv /\ WholeInv /\ [AtomicNext]_auxVars
        => [Promise!Next]_<<seenDoc, seenOutcome>>
  <2> SUFFICES ASSUME LocalInv, LocalInv', KeepInv, WholeInv, [AtomicNext]_auxVars
               PROVE  Promise!Next \/ UNCHANGED <<seenDoc, seenOutcome>>
    OBVIOUS
  <2>1. CASE UNCHANGED auxVars
    BY <2>1 DEF auxVars, seen
  <2>2. ASSUME NEW w \in Writers, Step(w), NextSeen(w)
        PROVE  Promise!Next \/ UNCHANGED <<seenDoc, seenOutcome>>
    <3>1. WholeStep(w)
      BY <2>2, StepIsWhole
    <3>2. op[w].kind # "setCompany"
      <4>1. CASE lock = w
        BY <4>1 DEF WholeInv, WholeAt
      <4>2. CASE lock # w
        BY <4>2 DEF LocalInv, ControlOK, NoOp
      <4> QED BY <4>1, <4>2
    <3>3. lock' # NoWriter => UNCHANGED <<seenDoc, seenOutcome>>
      BY <2>2 DEF NextSeen, seen
    <3> QED BY <3>1, <3>2, <3>3 DEF WholeStep
  <2> QED BY <2>1, <2>2 DEF AtomicNext
<1> QED
  BY <1>1, <1>2, AllInvAlways, PTL DEF AtomicSpec, ActsAtomically, Promise!Spec

==============================================================================
