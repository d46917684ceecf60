--------------------------- MODULE LocalFsDbProofs ---------------------------
(***************************************************************************)
(* What holds of the local file system Conn for every set of goroutines,   *)
(* files, versions, companies, operations, backups and faults.             *)
(***************************************************************************)
EXTENDS LocalFsDbAtomic, HashedDocumentProofs

----------------------------------------------------------------------------
(* The mutex and the operations: at most one runs, with the mutex, and at  *)
(* each of its calls it has the local variables that the call needs.       *)

Results == {"ok", "failed", "exists", "notFound", "noChanges", "crashed"}

CreateOp == [kind : {"create"}, version : Versions, prev : {NoVersion},
             company : Companies, todo : FileMaps, written : FileMaps]

AddOp == [kind : {"add"}, version : Versions, prev : Versions, company : Companies,
          base : Companies, target : Companies, todo : FileMaps, written : FileMaps]

SetCompanyOp == [kind : {"setCompany"}, target : Companies]

DeleteOp == [kind : {"delete"}]

DeleteVersionOp == [kind : {"deleteVersion"}, version : Versions]

RestoreOp == [kind : {"restore"}, backup : Backups, recreate : BOOLEAN,
              company : Companies, existed : BOOLEAN, left : SUBSET Versions,
              created : SUBSET Versions, saved : SUBSET Versions,
              version : Versions \cup {NoVersion}, prev : Versions \cup {NoVersion},
              todo : FileMaps, written : FileMaps]

Operations ==
    CreateOp \cup AddOp \cup SetCompanyOp \cup DeleteOp \cup DeleteVersionOp \cup RestoreOp

\* The operation o makes the call "label" at some time.
Makes(o, label) ==
    \/ /\ o \in CreateOp
       /\ label \in {"make_dirs", "write_company", "make_marker", "write_file",
                     "write_info", "notify", "remove_doc", "undo_marker"}
    \/ /\ o \in AddOp
       /\ label \in {"make_dir", "write_file", "write_info", "set_unmark", "set_company",
                     "set_mark", "notify", "remove_dir", "remove_info"}
    \/ o \in SetCompanyOp /\ label \in {"set_unmark", "set_company", "set_mark"}
    \/ o \in DeleteOp /\ label \in {"remove_marker", "remove_doc"}
    \/ /\ o \in DeleteVersionOp
       /\ label \in {"remove_dir", "remove_info", "remove_marker", "remove_doc"}
    \/ /\ o \in RestoreOp
       /\ o.left \subseteq VersionsOf(o.backup)
       /\ label \in {"remove_marker", "remove_doc", "restore_dir", "restore_company",
                     "restore_marker", "restore_next", "write_file", "write_info",
                     "undo_dirs", "undo_infos", "undo_marker"}

\* Whoever runs an operation holds the mutex until it returns, its rollback
\* included, and nobody else does.
ControlOK ==
    /\ lock \in Writers \cup {NoWriter}
    /\ pc \in [Writers -> Labels]
    /\ op \in [Writers -> Operations \cup {NoOp}]
    /\ err \in [Writers -> Results]
    /\ \A w \in Writers : IF lock = w THEN Makes(op[w], pc[w])
                                      ELSE pc[w] = "idle" /\ op[w] = NoOp

----------------------------------------------------------------------------
(* The disk                                                                *)

DiskOK ==
    /\ docDir \in BOOLEAN
    /\ DOMAIN dirs \subseteq Versions /\ \A v \in DOMAIN dirs : dirs[v] \in FileMaps
    /\ DOMAIN infos \subseteq Versions /\ \A v \in DOMAIN infos : infos[v] \in Info
    /\ companyId \in Companies \cup {NoCompany}
    /\ markers \subseteq Companies
    /\ ~docDir => DOMAIN dirs = {} /\ DOMAIN infos = {} /\ companyId = NoCompany

\* A version with an info is complete unless files of it were removed; this holds
\* without its directory as well, since no info is written without a file.
VersionsComplete ==
    \A v \in DOMAIN infos :
        /\ infos[v].files # {}
        /\ FilesIn(v) = infos[v].files \/ v \in abandoned

\* The labels from the creation of a version's directory to that of its info.
WritingLabels == {"write_company", "make_marker", "write_file", "write_info"}

\* The directory of the version that is written exists, and a version with files has
\* one in it or to come; an info that is there already is from an old version that
\* lost its files.
WritingAt(w) ==
    pc[w] \in WritingLabels =>
        LET o == op[w]
        IN /\ o.version \in DOMAIN dirs
           /\ pc[w] = "write_info" => o.todo = {}
           /\ o.kind \in {"create", "restore"} => dirs[o.version] # {} \/ o.todo # {}
           /\ o.version \in DOMAIN infos => o.version \in abandoned

\* CreateDocument found no document, and has files; what writes below the document's
\* directory finds it.
StartAt(w) ==
    /\ pc[w] = "make_dirs" => ~docDir /\ op[w].todo # {}
    /\ pc[w] \in WritingLabels \cup {"make_dir", "restore_company", "restore_marker",
                                     "restore_next", "set_company"} => docDir

\* A restore has no version left that the document has, until its rollback: it never
\* writes into the directory of one.
LeftAt(w) ==
    op[w].kind = "restore" /\ pc[w] \in {"restore_dir", "restore_company", "restore_marker",
                                       "restore_next", "write_file", "write_info"} =>
        /\ op[w].left \cap Listed = {}
        /\ pc[w] \in {"write_file", "write_info"} => op[w].version \notin op[w].left

WritingOK == \A w \in Writers : WritingAt(w)

StartOK == \A w \in Writers : StartAt(w)

LeftOK == \A w \in Writers : LeftAt(w)

LocalInv == ControlOK /\ DiskOK /\ VersionsComplete /\ WritingOK /\ StartOK /\ LeftOK

----------------------------------------------------------------------------
(* Facts about files and directories                                       *)

LEMMA SubsetIsFileMap ==
    ASSUME NEW files \in FileMaps, NEW part \in SUBSET files
    PROVE  part \in FileMaps
BY DEF FileMaps, IsFileMap

LEMMA EmptyIsFileMap == {} \in FileMaps
BY DEF FileMaps, IsFileMap

\* A file is put into a directory in the place of one of the same name.
LEMMA WithFileType ==
    ASSUME NEW files \in FileMaps, NEW f \in File
    PROVE  CarryForward(files, {}, {f}) \in FileMaps \ {{}}
<1>1. {f} \in FileMaps
  BY DEF FileMaps, IsFileMap
<1>2. CarryForward(files, {}, {f}) \in FileMaps
  BY <1>1, CarryForwardType
<1> QED BY <1>2 DEF CarryForward

LEMMA FilesInType ==
    ASSUME DiskOK, NEW v
    PROVE  FilesIn(v) \in FileMaps
BY EmptyIsFileMap DEF DiskOK, FilesIn

----------------------------------------------------------------------------
(* The mutex: every step is made by its holder, or takes it while it is    *)
(* free; and an operation goes to a call that is one of its own.           *)

\* The step of w leaves it with a call of the operation it runs, or returned.
KeepsControl(w) ==
    /\ lock \in {w, NoWriter}
    /\ pc' = [pc EXCEPT ![w] = pc'[w]]
    /\ op' = [op EXCEPT ![w] = op'[w]]
    /\ err' = [err EXCEPT ![w] = err'[w]]
    /\ err'[w] \in Results
    /\ \/ lock' = w /\ Makes(op'[w], pc'[w])
       \/ lock' = NoWriter /\ pc'[w] = "idle" /\ op'[w] = NoOp

LEMMA KeepsControlOK ==
    ASSUME ControlOK, NEW w \in Writers, KeepsControl(w)
    PROVE  ControlOK'
<1>1. \A v \in Writers : NoWriter # v
  BY NamesAssumption
<1>2. pc'[w] \in Labels
  BY DEF KeepsControl, Makes, Labels, WriteLabels, RemoveLabels
<1>3. op'[w] \in Operations \cup {NoOp}
  BY DEF KeepsControl, Makes, Operations
<1>4. ASSUME NEW v \in Writers, v # w
      PROVE  lock' # v /\ pc'[v] = "idle" /\ op'[v] = NoOp
  BY <1>1, <1>4 DEF ControlOK, KeepsControl
<1>5. IF lock' = w THEN Makes(op'[w], pc'[w]) ELSE pc'[w] = "idle" /\ op'[w] = NoOp
  BY <1>1 DEF KeepsControl
<1>6. /\ pc' \in [Writers -> Labels]
      /\ op' \in [Writers -> Operations \cup {NoOp}]
      /\ err' \in [Writers -> Results]
      /\ lock' \in Writers \cup {NoWriter}
  BY <1>2, <1>3 DEF ControlOK, KeepsControl
<1> QED
  BY <1>4, <1>5, <1>6 DEF ControlOK

\* Operations are told apart by their kind.
LEMMA KindFacts ==
    ASSUME NEW o \in Operations
    PROVE  /\ o.kind = "create" <=> o \in CreateOp
           /\ o.kind = "add" <=> o \in AddOp
           /\ o.kind = "setCompany" <=> o \in SetCompanyOp
           /\ o.kind = "delete" <=> o \in DeleteOp
           /\ o.kind = "deleteVersion" <=> o \in DeleteVersionOp
           /\ o.kind = "restore" <=> o \in RestoreOp
           /\ o.kind \in OpKinds
BY DEF Operations, CreateOp, AddOp, SetCompanyOp, DeleteOp, DeleteVersionOp, RestoreOp,
       OpKinds

LEMMA HoldsMutex ==
    ASSUME ControlOK, NEW w \in Writers, pc[w] # "idle"
    PROVE  lock = w /\ Makes(op[w], pc[w]) /\ op[w] \in Operations
BY DEF ControlOK, Makes, Operations

LEMMA BeginControl ==
    ASSUME ControlOK, NEW w \in Writers, NEW o, NEW label, Begin(w, o, label),
           Makes(o, label)
    PROVE  KeepsControl(w)
BY DEF ControlOK, Begin, Free, KeepsControl, Results

LEMMA ReturnControl ==
    ASSUME ControlOK, NEW w \in Writers, lock \in {w, NoWriter}, NEW e \in Results,
           Return(w, e)
    PROVE  KeepsControl(w)
BY DEF ControlOK, Return, KeepsControl

LEMMA RefuseControl ==
    ASSUME ControlOK, NEW w \in Writers, NEW e \in Results, Refuse(w, e)
    PROVE  KeepsControl(w)
BY ReturnControl DEF Refuse, Free

LEMMA GotoControl ==
    ASSUME ControlOK, NEW w \in Writers, lock = w, NEW label, Goto(w, label),
           Makes(op[w], label)
    PROVE  KeepsControl(w)
BY DEF ControlOK, Goto, KeepsControl

LEMMA GotoAfterControl ==
    ASSUME ControlOK, NEW w \in Writers, lock = w, NEW e \in Results, NEW label,
           GotoAfter(w, e, label), Makes(op[w], label)
    PROVE  KeepsControl(w)
BY DEF ControlOK, GotoAfter, KeepsControl

LEMMA RollbackControl ==
    ASSUME ControlOK, NEW w \in Writers, lock = w, op[w] \in Operations,
           NEW e \in Results, Rollback(w, e)
    PROVE  KeepsControl(w)
<1>1. CASE Return(w, e)
  BY <1>1, ReturnControl
<1>2. PICK label \in {"remove_doc", "remove_dir", "undo_dirs"} :
        Return(w, e) \/ (GotoAfter(w, e, label) /\ Makes(op[w], label))
  <2>1. Makes(op[w], pc[w])
    BY DEF ControlOK
  <2>2. op[w] \in RestoreOp => op[w].left \subseteq VersionsOf(op[w].backup)
    BY <2>1, KindFacts DEF Makes
  <2> QED BY <2>2, KindFacts DEF Rollback, Makes
<1> QED
  BY <1>1, <1>2, GotoAfterControl

LEMMA CreateControl ==
    ASSUME LocalInv, NEW w \in Writers, Create(w)
    PROVE  KeepsControl(w)
<1> USE HoldsMutex DEF LocalInv
<1>1. CASE CreateExists(w)
  BY <1>1, RefuseControl DEF CreateExists, Results
<1>2. CASE CreateBegin(w)
  <2>1. PICK v \in Versions, c \in Companies, files \in FileMaps \ {{}} :
          Begin(w, [kind |-> "create", version |-> v, prev |-> NoVersion,
                    company |-> c, todo |-> files, written |-> files], "make_dirs")
    BY <1>2 DEF CreateBegin
  <2>2. [kind |-> "create", version |-> v, prev |-> NoVersion, company |-> c,
         todo |-> files, written |-> files] \in CreateOp
    BY DEF CreateOp
  <2> QED BY <2>1, <2>2, BeginControl DEF Makes
<1>3. CASE MakeDirs(w)
  BY <1>3, GotoControl DEF MakeDirs, Makes
<1>4. CASE MakeDirsFails(w) \/ CreateFails(w)
  BY <1>4, RollbackControl DEF MakeDirsFails, CreateFails, Results
<1>5. CASE WriteCompany(w)
  BY <1>5, GotoControl DEF WriteCompany, Makes
<1>6. CASE MakeMarker(w)
  BY <1>6, GotoControl DEF MakeMarker, Makes
<1> QED
  BY <1>1, <1>2, <1>3, <1>4, <1>5, <1>6 DEF Create

LEMMA WriteVersionControl ==
    ASSUME LocalInv, NEW w \in Writers, WriteVersion(w)
    PROVE  KeepsControl(w)
<1> USE HoldsMutex DEF LocalInv
<1>1. CASE WriteFile(w)
  <2>1. PICK f \in op[w].todo : op' = [op EXCEPT ![w].todo = @ \ {f}]
    BY <1>1 DEF WriteFile
  <2>2. lock = w /\ Makes(op[w], "write_file") /\ op[w] \in Operations
    BY <1>1 DEF WriteFile
  <2>3. op'[w] = [op[w] EXCEPT !.todo = @ \ {f}]
    BY <2>1 DEF ControlOK
  <2>4. op[w].todo \ {f} \in FileMaps
    BY <2>2, SubsetIsFileMap DEF Makes, CreateOp, AddOp, RestoreOp
  <2>5. Makes(op'[w], "write_file")
    <3>1. op[w] \in CreateOp => op'[w] \in CreateOp
      BY <2>3, <2>4 DEF CreateOp
    <3>2. op[w] \in AddOp => op'[w] \in AddOp
      BY <2>3, <2>4 DEF AddOp
    <3>3. op[w] \in RestoreOp =>
            op'[w] \in RestoreOp /\ op'[w].left = op[w].left /\ op'[w].backup = op[w].backup
      BY <2>3, <2>4 DEF RestoreOp
    <3> QED BY <2>2, <3>1, <3>2, <3>3 DEF Makes
  <2> QED BY <1>1, <2>1, <2>2, <2>3, <2>5 DEF WriteFile, ControlOK, KeepsControl
<1>2. CASE WriteFileFails(w) \/ WriteInfoRefused(w) \/ WriteInfoFails(w)
  BY <1>2, RollbackControl
  DEF WriteFileFails, WriteInfoRefused, WriteInfoFails, Results
<1>3. CASE WriteFileDone(w)
  BY <1>3, GotoControl DEF WriteFileDone, Makes
<1>4. CASE WriteInfo(w)
  <2>1. lock = w /\ Makes(op[w], "write_info") /\ op[w] \in Operations
    BY <1>4 DEF WriteInfo
  <2>2. CASE op[w].kind = "create" /\ Goto(w, "notify")
    BY <2>1, <2>2, KindFacts, GotoControl DEF Makes
  <2>3. CASE /\ op[w].kind = "add"
             /\ Goto(w, IF op[w].company = op[w].base THEN "notify" ELSE "set_unmark")
    BY <2>1, <2>3, KindFacts, GotoControl DEF Makes
  <2>4. CASE /\ op[w].kind = "restore"
             /\ pc' = [pc EXCEPT ![w] = "restore_next"]
             /\ op' = [op EXCEPT ![w].saved = @ \cup {op[w].version}]
             /\ UNCHANGED <<lock, err>>
    <3>1. op[w] \in RestoreOp /\ op[w].version \in Versions
      BY <1>4, <2>1, <2>4, KindFacts DEF WriteInfo, WritingOK, WritingAt, WritingLabels, DiskOK
    <3>2. op'[w] = [op[w] EXCEPT !.saved = @ \cup {op[w].version}]
      BY <2>4 DEF ControlOK
    <3>3. op[w].left \subseteq VersionsOf(op[w].backup)
      BY <2>1, <3>1, KindFacts DEF Makes
    <3>4. op'[w] \in RestoreOp /\ op'[w].left \subseteq VersionsOf(op'[w].backup)
      BY <3>1, <3>2, <3>3 DEF RestoreOp
    <3> QED BY <2>1, <2>4, <3>2, <3>4 DEF ControlOK, KeepsControl, Makes
  <2> QED BY <1>4, <2>2, <2>3, <2>4 DEF WriteInfo
<1>5. CASE Notify(w)
  BY <1>5, ReturnControl DEF Notify, Results
<1>6. CASE NotifyFails(w)
  <2>1. lock = w /\ Makes(op[w], "notify") /\ op[w] \in Operations
    BY <1>6 DEF NotifyFails
  <2>2. CASE op[w].kind = "add" /\ op[w].company # op[w].base
    <3>1. /\ pc' = [pc EXCEPT ![w] = "set_unmark"]
          /\ op' = [op EXCEPT ![w].target = op[w].base]
          /\ err' = [err EXCEPT ![w] = "failed"]
          /\ UNCHANGED lock
      BY <1>6, <2>2 DEF NotifyFails
    <3>2. op[w] \in AddOp
      BY <2>1, <2>2, KindFacts
    <3>3. op'[w] \in AddOp
      BY <3>1, <3>2 DEF AddOp, ControlOK
    <3> QED BY <2>1, <3>1, <3>3 DEF ControlOK, KeepsControl, Makes, Results
  <2>3. CASE ~(op[w].kind = "add" /\ op[w].company # op[w].base)
    BY <1>6, <2>1, <2>3, RollbackControl DEF NotifyFails, Results
  <2> QED BY <2>2, <2>3
<1> QED
  BY <1>1, <1>2, <1>3, <1>4, <1>5, <1>6 DEF WriteVersion

LEMMA AddControl ==
    ASSUME LocalInv, NEW w \in Writers, Add(w)
    PROVE  KeepsControl(w)
<1> USE HoldsMutex DEF LocalInv
<1>1. CASE AddNotFound(w) \/ AddRefused(w)
  BY <1>1, RefuseControl DEF AddNotFound, AddRefused, Results
<1>2. CASE AddBegin(w)
  <2>1. PICK latest \in Listed, v \in Versions, c \in Companies, written \in FileMaps,
             removed \in SUBSET Names :
          Begin(w, [kind |-> "add", version |-> v, prev |-> latest,
                    company |-> c, base |-> infos[latest].company, target |-> c,
                    todo |-> CarryForward(infos[latest].files, removed, written),
                    written |-> written], "make_dir")
    BY <1>2 DEF AddBegin
  <2>2. latest \in Versions /\ infos[latest] \in Info
    BY DEF Listed, DiskOK
  <2>3. CarryForward(infos[latest].files, removed, written) \in FileMaps
    BY <2>2, CarryForwardType DEF Info
  <2>4. [kind |-> "add", version |-> v, prev |-> latest,
         company |-> c, base |-> infos[latest].company, target |-> c,
         todo |-> CarryForward(infos[latest].files, removed, written),
         written |-> written] \in AddOp
    BY <2>2, <2>3 DEF AddOp, Info
  <2> QED BY <2>1, <2>4, BeginControl DEF Makes
<1>3. CASE MakeDir(w)
  BY <1>3, GotoControl DEF MakeDir, Makes
<1>4. CASE MakeDirExists(w)
  BY <1>4, RollbackControl DEF MakeDirExists, Results
<1> QED
  BY <1>1, <1>2, <1>3, <1>4 DEF Add

LEMMA SetDoneControl ==
    ASSUME ControlOK, NEW w \in Writers, lock = w, op[w] \in Operations, SetDone(w)
    PROVE  KeepsControl(w)
<1>1. CASE Return(w, "ok")
  BY <1>1, ReturnControl DEF Results
<1>2. CASE /\ op[w].kind = "add"
           /\ Goto(w, IF err[w] = "ok" THEN "notify" ELSE "remove_dir")
  BY <1>2, KindFacts, GotoControl DEF Makes
<1> QED BY <1>1, <1>2 DEF SetDone

LEMMA SetCompanyControl ==
    ASSUME LocalInv, NEW w \in Writers, SetCompany(w)
    PROVE  KeepsControl(w)
<1> USE HoldsMutex DEF LocalInv
<1>1. CASE SetBegin(w)
  <2>1. PICK c \in Companies : Begin(w, [kind |-> "setCompany", target |-> c], "set_unmark")
    BY <1>1 DEF SetBegin
  <2> QED BY <2>1, BeginControl DEF Makes, SetCompanyOp
<1>2. CASE SetNotFound(w)
  BY <1>2, RefuseControl DEF SetNotFound, Results
<1>3. CASE SetUnmark(w)
  BY <1>3, SetDoneControl, GotoControl DEF SetUnmark, Makes
<1>4. CASE SetCompanyId(w)
  BY <1>4, GotoControl DEF SetCompanyId, Makes
<1>5. CASE SetMark(w)
  BY <1>5, SetDoneControl DEF SetMark
<1>6. CASE SetFails(w)
  BY <1>6, RollbackControl DEF SetFails, Results
<1> QED
  BY <1>1, <1>2, <1>3, <1>4, <1>5, <1>6 DEF SetCompany

LEMMA AfterRemoveDocControl ==
    ASSUME ControlOK, NEW w \in Writers, pc[w] = "remove_doc", NEW e \in Results,
           AfterRemoveDoc(w, e)
    PROVE  KeepsControl(w)
<1> USE HoldsMutex, KindFacts
<1>1. CASE Return(w, e)
  BY <1>1, ReturnControl
<1>2. CASE op[w].kind = "create" /\ Goto(w, "undo_marker")
  BY <1>2, GotoControl DEF Makes
<1>3. CASE op[w].kind = "restore" /\ Goto(w, "restore_dir")
  BY <1>3, GotoControl DEF Makes
<1> QED BY <1>1, <1>2, <1>3 DEF AfterRemoveDoc

LEMMA RemoveControl ==
    ASSUME LocalInv, NEW w \in Writers, Remove(w)
    PROVE  KeepsControl(w)
<1> USE HoldsMutex, KindFacts DEF LocalInv
<1>0. err[w] \in Results
  BY DEF ControlOK
<1>1. CASE DeleteNotFound(w) \/ DeleteVersionNotFound(w)
  BY <1>1, RefuseControl DEF DeleteNotFound, DeleteVersionNotFound, Results
<1>2. CASE DeleteBegin(w)
  BY <1>2, BeginControl DEF DeleteBegin, Makes, DeleteOp
<1>3. CASE DeleteVersionBegin(w)
  <2>1. PICK v \in DOMAIN dirs :
          Begin(w, [kind |-> "deleteVersion", version |-> v], "remove_dir")
    BY <1>3 DEF DeleteVersionBegin
  <2>2. v \in Versions
    BY DEF DiskOK
  <2> QED BY <2>1, <2>2, BeginControl DEF Makes, DeleteVersionOp
<1>4. CASE RemoveMarker(w)
  <2>1. lock = w /\ Makes(op[w], "remove_marker") /\ op[w] \in Operations
    BY <1>4 DEF RemoveMarker
  <2>2. Makes(op[w], "remove_doc")
    BY <2>1 DEF Makes
  <2> QED
    BY <1>4, <2>1, <2>2, ReturnControl, GotoControl, GotoAfterControl
    DEF RemoveMarker, Results
<1>5. CASE RemoveMarkerFails(w)
  <2>1. lock = w /\ Makes(op[w], "remove_marker") /\ op[w] \in Operations
    BY <1>5 DEF RemoveMarkerFails
  <2>2. Makes(op[w], "remove_doc")
    BY <2>1 DEF Makes
  <2> QED
    BY <1>5, <2>1, <2>2, ReturnControl, GotoAfterControl DEF RemoveMarkerFails, Results
<1>6. CASE RemoveEntry(w)
  BY <1>6 DEF RemoveEntry, control, ControlOK, KeepsControl
<1>7. CASE RemoveDoc(w)
  BY <1>0, <1>7, AfterRemoveDocControl DEF RemoveDoc
<1>8. CASE RemoveDocFails(w)
  BY <1>0, <1>8, AfterRemoveDocControl DEF RemoveDocFails, Results
<1>9. CASE RemoveDir(w) /\ UNCHANGED control
  BY <1>9 DEF RemoveDir, control, ControlOK, KeepsControl
<1>10. CASE RemoveDir(w) /\ Goto(w, "remove_info")
  BY <1>10, GotoControl DEF RemoveDir, Makes
<1>11. CASE RemoveDirFails(w)
  BY <1>11, GotoControl, ReturnControl DEF RemoveDirFails, Makes, Results
<1>12. CASE RemoveInfo(w)
  <2>1. lock = w /\ Makes(op[w], "remove_info") /\ op[w] \in Operations
    BY <1>12 DEF RemoveInfo
  <2>2. CASE op[w].kind = "add" /\ Return(w, err[w])
    BY <1>0, <2>1, <2>2, ReturnControl
  <2>3. CASE op[w].kind = "deleteVersion"
    <3>1. PICK e \in Results : Return(w, e) \/ GotoAfter(w, e, "remove_marker")
      BY <1>12, <2>3 DEF RemoveInfo, Results
    <3>2. Makes(op[w], "remove_marker")
      BY <2>1, <2>3 DEF Makes
    <3> QED BY <2>1, <3>1, <3>2, ReturnControl, GotoAfterControl
  <2> QED BY <1>12, <2>2, <2>3 DEF RemoveInfo
<1>13. CASE UndoMarker(w)
  <2>1. lock = w /\ Makes(op[w], "undo_marker") /\ op[w] \in Operations
    BY <1>13 DEF UndoMarker
  <2> QED BY <1>0, <1>13, <2>1, ReturnControl, GotoControl DEF UndoMarker, Makes
<1> QED
  BY <1>1, <1>2, <1>3, <1>4, <1>5, <1>6, <1>7, <1>8, <1>9, <1>10, <1>11, <1>12, <1>13
  DEF Remove, RemoveDir

\* The next version of a restore is one of its backup.
LEMMA NextVersionOfBackup ==
    ASSUME NEW o \in RestoreOp, o.left \subseteq VersionsOf(o.backup), o.left # {}
    PROVE  LET v == Min(o.left)
           IN /\ v \in o.left /\ v \in Versions
              /\ o.backup.files[v] \in FileMaps \ {{}}
              /\ Predecessor(o.backup, v) \in Versions \cup {NoVersion}
<1> DEFINE v == Min(o.left)
<1>1. o.backup \in Backups /\ o.left \subseteq Nat
  BY VersionsAssumption DEF RestoreOp
<1>2. /\ IsValid(o.backup) /\ VersionsOf(o.backup) \subseteq Versions
      /\ \A u \in VersionsOf(o.backup) : o.backup.files[u] \in FileMaps
  BY <1>1, BackupsAssumption
<1>3. v \in o.left
  BY <1>1, MinOfNaturals
<1>4. v \in VersionsOf(o.backup) /\ v \in Versions
  BY <1>2, <1>3
<1>5. o.backup.files[v] \in FileMaps \ {{}}
  BY <1>2, <1>4 DEF IsValid
<1>6. v \in Nat /\ VersionsOf(o.backup) \subseteq Nat
  BY <1>2, <1>4, VersionsAssumption
<1>7. Predecessor(o.backup, v) \in VersionsOf(o.backup) \cup {NoVersion}
  BY <1>6, PredecessorIsNewestOlder
<1> QED BY <1>2, <1>3, <1>4, <1>5, <1>7

LEMMA RestoreControl ==
    ASSUME LocalInv, NEW w \in Writers, Restore(w)
    PROVE  KeepsControl(w)
<1> USE HoldsMutex, KindFacts DEF LocalInv
<1>1. CASE RestoreBegin(w)
  <2>1. PICK backup \in Backups, recreate \in BOOLEAN :
          LET o == RestoreCall(backup, recreate)
          IN \/ Begin(w, o, "remove_marker") \/ Begin(w, o, "restore_next")
             \/ Begin(w, o, "restore_dir") \/ Refuse(w, "failed")
    BY <1>1 DEF RestoreBegin
  <2> DEFINE merge == docDir /\ ~recreate
             o == RestoreCall(backup, recreate)
  <2>2. backup.company \in Companies /\ VersionsOf(backup) \subseteq Versions
    BY BackupsAssumption
  <2>3. merge \in BOOLEAN /\ o.left \subseteq VersionsOf(backup)
    BY DEF RestoreCall, DiskOK
  <2>4. o \in RestoreOp
    BY <2>2, <2>3, EmptyIsFileMap DEF RestoreCall, RestoreOp
  <2>5. \A label \in {"remove_marker", "restore_next", "restore_dir"} : Makes(o, label)
    <3>1. o.left \subseteq VersionsOf(o.backup)
      BY <2>3 DEF RestoreCall
    <3> HIDE DEF o
    <3> QED BY <2>4, <3>1 DEF Makes
  <2> HIDE DEF o
  <2>6. \/ \E label \in {"remove_marker", "restore_next", "restore_dir"} : Begin(w, o, label)
        \/ Refuse(w, "failed")
    BY <2>1 DEF o
  <2> QED BY <2>5, <2>6, BeginControl, RefuseControl DEF Results
<1>2. CASE RestoreDir(w)
  BY <1>2, GotoControl DEF RestoreDir, Makes
<1>3. CASE RestoreDirFails(w)
  BY <1>3, ReturnControl DEF RestoreDirFails, Results
<1>4. CASE RestoreVersion(w)
  <2> DEFINE o == op[w]
             v == Min(o.left)
             new == [o EXCEPT !.left = @ \ {v}, !.created = @ \cup {v}, !.version = v,
                              !.prev = Predecessor(o.backup, v),
                              !.todo = o.backup.files[v], !.written = o.backup.files[v]]
  <2>1. lock = w /\ Makes(o, "restore_next") /\ o \in Operations
    BY <1>4 DEF RestoreVersion
  <2>2. o \in RestoreOp /\ o.left \subseteq VersionsOf(o.backup)
    BY <2>1 DEF Makes
  <2>3. /\ v \in o.left /\ v \in Versions /\ o.backup.files[v] \in FileMaps
        /\ Predecessor(o.backup, v) \in Versions \cup {NoVersion}
    BY <1>4, <2>2, NextVersionOfBackup DEF RestoreVersion
  <2>4. op' = [op EXCEPT ![w] = new] /\ pc' = [pc EXCEPT ![w] = "write_file"]
        /\ UNCHANGED <<lock, err>>
    BY <1>4 DEF RestoreVersion
  <2> HIDE DEF v
  <2>5. new \in RestoreOp /\ new.left \subseteq VersionsOf(new.backup)
    <3>1. /\ o.left \ {v} \in SUBSET Versions /\ o.created \cup {v} \in SUBSET Versions
          /\ o.left \ {v} \subseteq VersionsOf(o.backup)
      BY <2>2, <2>3 DEF RestoreOp
    <3>2. new.left = o.left \ {v} /\ new.backup = o.backup
      BY <2>2 DEF RestoreOp
    <3>3. new \in RestoreOp
      BY <2>2, <2>3, <3>1 DEF RestoreOp
    <3> QED BY <3>1, <3>2, <3>3
  <2> HIDE DEF new
  <2> QED BY <2>1, <2>4, <2>5 DEF ControlOK, KeepsControl, Makes
<1>5. CASE RestoreVersionFails(w)
  BY <1>5, RollbackControl DEF RestoreVersionFails, Results
<1>6. CASE RestoreDone(w)
  BY <1>6, ReturnControl DEF RestoreDone, Results
<1>7. CASE UndoDirs(w)
  <2>1. lock = w /\ Makes(op[w], "undo_dirs") /\ op[w] \in Operations
    BY <1>7 DEF UndoDirs
  <2>2. CASE Goto(w, "undo_infos")
    BY <2>1, <2>2, GotoControl DEF Makes
  <2>3. CASE UNCHANGED control
    BY <2>1, <2>3 DEF control, ControlOK, KeepsControl
  <2>4. ASSUME NEW v, op' = [op EXCEPT ![w].created = @ \ {v}], UNCHANGED <<lock, pc, err>>
        PROVE  KeepsControl(w)
    <3>1. op'[w] = [op[w] EXCEPT !.created = @ \ {v}]
      BY <2>4 DEF ControlOK
    <3>2. op[w] \in RestoreOp /\ op[w].left \subseteq VersionsOf(op[w].backup)
      BY <2>1 DEF Makes
    <3>3. op'[w] \in RestoreOp /\ op'[w].left \subseteq VersionsOf(op'[w].backup)
      BY <3>1, <3>2 DEF RestoreOp
    <3> QED BY <2>1, <2>4, <3>1, <3>3 DEF ControlOK, KeepsControl, Makes
  <2> QED BY <1>7, <2>2, <2>3, <2>4 DEF UndoDirs
<1>8. CASE UndoInfos(w)
  <2>1. lock = w /\ Makes(op[w], "undo_infos") /\ op[w] \in Operations
    BY <1>8 DEF UndoInfos
  <2>2. CASE Return(w, err[w])
    BY <2>1, <2>2, ReturnControl DEF ControlOK
  <2>3. CASE Goto(w, "undo_marker")
    BY <2>1, <2>3, GotoControl DEF Makes
  <2>4. ASSUME NEW v, op' = [op EXCEPT ![w].saved = @ \ {v}], UNCHANGED <<lock, pc, err>>
        PROVE  KeepsControl(w)
    <3>1. op'[w] = [op[w] EXCEPT !.saved = @ \ {v}]
      BY <2>4 DEF ControlOK
    <3>2. op[w] \in RestoreOp /\ op[w].left \subseteq VersionsOf(op[w].backup)
      BY <2>1 DEF Makes
    <3>3. op'[w] \in RestoreOp /\ op'[w].left \subseteq VersionsOf(op'[w].backup)
      BY <3>1, <3>2 DEF RestoreOp
    <3> QED BY <2>1, <2>4, <3>1, <3>3 DEF ControlOK, KeepsControl, Makes
  <2> QED BY <1>8, <2>2, <2>3, <2>4 DEF UndoInfos
<1> QED
  BY <1>1, <1>2, <1>3, <1>4, <1>5, <1>6, <1>7, <1>8 DEF Restore

\* Every step is made under the mutex or takes it, and ends with a call of the
\* operation or returned.
LEMMA StepKeepsControl ==
    ASSUME LocalInv, NEW w \in Writers, Step(w)
    PROVE  KeepsControl(w)
<1>1. CASE Crash(w)
  BY <1>1, HoldsMutex, ReturnControl DEF Crash, LocalInv, Results
<1> QED
  BY <1>1, CreateControl, WriteVersionControl, AddControl, SetCompanyControl,
     RemoveControl, RestoreControl DEF Step

----------------------------------------------------------------------------
(* The disk: what a single call can do to it.                              *)

\* A version's directory is made; ...
NewDir(v) ==
    /\ v \in Versions \ DOMAIN dirs
    /\ dirs' = With(dirs, v, {})
    /\ infos' = infos

\* ... a file is put into a directory, which has no info or was abandoned; ...
NewFile(v) ==
    /\ v \in DOMAIN dirs
    /\ v \in DOMAIN infos => v \in abandoned
    /\ \E f \in File : dirs' = WithFile(v, f)
    /\ infos' = infos

\* ... an info is written, with the files of the directory; ...
InfoFile(v) ==
    /\ v \in DOMAIN dirs /\ dirs[v] # {}
    /\ \E info \in Info : info.files = dirs[v] /\ infos' = With(infos, v, info)
    /\ dirs' = dirs

\* ... or files, directories and infos are removed, or none.
Removal ==
    /\ DOMAIN dirs' \subseteq DOMAIN dirs
    /\ \A v \in DOMAIN dirs' : dirs'[v] \subseteq dirs[v]
    /\ DOMAIN infos' \subseteq DOMAIN infos
    /\ \A v \in DOMAIN infos' : infos'[v] = infos[v]

DiskStep ==
    /\ docDir' \in BOOLEAN
    /\ companyId' \in Companies \cup {NoCompany}
    /\ markers' \subseteq Companies
    /\ ~docDir' => DOMAIN dirs' = {} /\ DOMAIN infos' = {} /\ companyId' = NoCompany
    /\ Removal \/ \E v : NewDir(v) \/ NewFile(v) \/ InfoFile(v)

\* The step of w is a disk step, and w is in order where it goes to.
DiskEffect(w) == DiskStep /\ WritingAt(w)' /\ StartAt(w)' /\ LeftAt(w)'

LEMMA DiskStepOK ==
    ASSUME DiskOK, VersionsComplete, DiskStep, NEW w, NextSeen(w)
    PROVE  DiskOK' /\ VersionsComplete'
<1>1. ASSUME NEW v \in DOMAIN infos \cap DOMAIN infos', v \in abandoned
      PROVE  v \in abandoned'
  BY <1>1 DEF NextSeen
<1>2. CASE Removal
  <2>1. \A v \in DOMAIN dirs' : dirs'[v] \in FileMaps
    BY <1>2, SubsetIsFileMap DEF Removal, DiskOK
  <2>2. DiskOK'
    BY <1>2, <2>1 DEF Removal, DiskOK, DiskStep
  <2>3. ASSUME NEW v \in DOMAIN infos'
        PROVE  infos'[v].files # {} /\ (FilesIn(v)' = infos'[v].files \/ v \in abandoned')
    <3>1. v \in DOMAIN infos /\ infos'[v] = infos[v]
      BY <1>2 DEF Removal
    <3>2. FilesIn(v)' \subseteq FilesIn(v)
      BY <1>2 DEF Removal, FilesIn
    <3>3. CASE FilesIn(v) \subseteq FilesIn(v)'
      BY <1>1, <3>1, <3>2, <3>3 DEF VersionsComplete
    <3>4. CASE ~(FilesIn(v) \subseteq FilesIn(v)')
      BY <3>1, <3>4 DEF VersionsComplete, NextSeen
    <3> QED BY <3>3, <3>4
  <2> QED BY <2>2, <2>3 DEF VersionsComplete
<1>3. ASSUME NEW v, NewDir(v)
      PROVE  DiskOK' /\ VersionsComplete'
  <2>1. \A u \in DOMAIN dirs' : dirs'[u] \in FileMaps
    BY <1>3, EmptyIsFileMap DEF NewDir, DiskOK, With
  <2>2. DOMAIN dirs' \subseteq Versions
    BY <1>3 DEF NewDir, DiskOK, With
  <2>3. DiskOK'
    BY <1>3, <2>1, <2>2 DEF NewDir, DiskOK, DiskStep
  <2>4. \A u : FilesIn(u)' = FilesIn(u)
    BY <1>3 DEF NewDir, FilesIn, With
  <2> QED BY <1>1, <1>3, <2>3, <2>4 DEF NewDir, VersionsComplete
<1>4. ASSUME NEW v, NewFile(v)
      PROVE  DiskOK' /\ VersionsComplete'
  <2>1. PICK f \in File : dirs' = WithFile(v, f)
    BY <1>4 DEF NewFile
  <2>2. CarryForward(dirs[v], {}, {f}) \in FileMaps
    BY <1>4, WithFileType DEF NewFile, DiskOK
  <2>3. DOMAIN dirs' = DOMAIN dirs /\ \A u \in DOMAIN dirs' :
            dirs'[u] = IF u = v THEN CarryForward(dirs[v], {}, {f}) ELSE dirs[u]
    BY <2>1 DEF WithFile
  <2>4. DiskOK'
    BY <1>4, <2>2, <2>3 DEF NewFile, DiskOK, DiskStep
  <2>5. \A u : u # v => FilesIn(u)' = FilesIn(u)
    BY <2>3 DEF FilesIn
  <2> QED BY <1>1, <1>4, <2>4, <2>5 DEF NewFile, VersionsComplete
<1>5. ASSUME NEW v, InfoFile(v)
      PROVE  DiskOK' /\ VersionsComplete'
  <2>1. PICK info \in Info : info.files = dirs[v] /\ infos' = With(infos, v, info)
    BY <1>5 DEF InfoFile
  <2>2. DOMAIN infos' = DOMAIN infos \cup {v} /\ infos'[v] = info
        /\ \A u \in DOMAIN infos \ {v} : infos'[u] = infos[u]
    BY <2>1 DEF With
  <2>3. DiskOK'
    BY <1>5, <2>2 DEF InfoFile, DiskOK, DiskStep
  <2>4. \A u : FilesIn(u)' = FilesIn(u)
    BY <1>5 DEF InfoFile, FilesIn
  <2>5. FilesIn(v) = dirs[v]
    BY <1>5 DEF InfoFile, FilesIn
  <2> QED BY <1>1, <1>5, <2>1, <2>2, <2>3, <2>4, <2>5 DEF InfoFile, VersionsComplete
<1> QED
  BY <1>2, <1>3, <1>4, <1>5 DEF DiskStep

\* A call that leaves the version directories, infos and the document's directory.
LEMMA SameFilesDiskStep ==
    ASSUME DiskOK, docDir' = docDir, dirs' = dirs, infos' = infos,
           companyId' = companyId \/ companyId' = NoCompany \/
               (companyId' \in Companies /\ docDir),
           markers' \subseteq Companies
    PROVE  DiskStep
BY DEF DiskOK, DiskStep, Removal

\* Only the writer that moves, if any, can be at a call after the step.
LEMMA OthersIdle ==
    ASSUME ControlOK, NEW w \in Writers, KeepsControl(w), NEW u \in Writers, u # w
    PROVE  pc'[u] = "idle"
<1>1. lock # u
  BY NamesAssumption DEF KeepsControl
<1> QED BY <1>1 DEF ControlOK, KeepsControl

LEMMA DiskEffectOK ==
    ASSUME LocalInv, NEW w \in Writers, KeepsControl(w), NextSeen(w), DiskEffect(w)
    PROVE  LocalInv'
<1>1. ControlOK' /\ DiskOK' /\ VersionsComplete'
  BY KeepsControlOK, DiskStepOK DEF LocalInv, DiskEffect
<1>2. \A u \in Writers : WritingAt(u)' /\ StartAt(u)' /\ LeftAt(u)'
  BY OthersIdle DEF LocalInv, DiskEffect, WritingAt, StartAt, LeftAt, WritingLabels
<1> QED
  BY <1>1, <1>2 DEF LocalInv, WritingOK, StartOK, LeftOK

\* Calls before which the disk is as some other call left it.
PreparedLabels ==
    WritingLabels \cup {"make_dirs", "make_dir", "restore_dir", "restore_company",
                       "restore_marker", "restore_next", "set_company"}

LEMMA UnpreparedEffect ==
    ASSUME DiskStep, NEW w, pc'[w] \notin PreparedLabels
    PROVE  DiskEffect(w)
BY DEF DiskEffect, WritingAt, StartAt, LeftAt, PreparedLabels, WritingLabels

\* An operation that returns, or rolls back, goes to no such call.
LEMMA ReturnUnprepared ==
    ASSUME ControlOK, NEW w \in Writers, NEW e,
           Return(w, e) \/ Refuse(w, e) \/ Rollback(w, e)
    PROVE  pc'[w] \notin PreparedLabels
BY DEF ControlOK, Return, Refuse, Rollback, GotoAfter, PreparedLabels, WritingLabels

\* An abandoned version stays so as long as it has an info.
LEMMA AbandonedStays ==
    ASSUME NEW w, NextSeen(w), NEW v \in abandoned, v \in DOMAIN infos,
           v \in DOMAIN infos'
    PROVE  v \in abandoned'
BY DEF NextSeen

LEMMA CreateDisk ==
    ASSUME LocalInv, NEW w \in Writers, Create(w), NextSeen(w)
    PROVE  DiskEffect(w)
<1> USE HoldsMutex DEF LocalInv
<1>0. WritingAt(w) /\ StartAt(w) /\ LeftAt(w) /\ pc[w] \in Labels
  BY DEF WritingOK, StartOK, LeftOK, ControlOK
<1>1. CASE CreateExists(w)
  <2>1. DiskStep
    BY <1>1, SameFilesDiskStep DEF CreateExists, Refuse, disk, DiskOK
  <2> QED BY <1>1, <2>1, UnpreparedEffect, ReturnUnprepared DEF CreateExists
<1>2. CASE CreateBegin(w)
  <2>1. DiskStep
    BY <1>2, SameFilesDiskStep DEF CreateBegin, disk, DiskOK
  <2>2. pc'[w] = "make_dirs" /\ op'[w].todo # {} /\ ~docDir'
    BY <1>2 DEF CreateBegin, Begin, disk, ControlOK
  <2> QED BY <2>1, <2>2 DEF DiskEffect, WritingAt, StartAt, LeftAt, WritingLabels
<1>3. CASE MakeDirs(w)
  <2>1. /\ pc'[w] = "write_company" /\ op' = op /\ infos' = infos /\ docDir'
        /\ op[w] \in CreateOp /\ DOMAIN dirs = {} /\ DOMAIN infos = {}
    BY <1>0, <1>3 DEF MakeDirs, Goto, ControlOK, Makes, StartAt, DiskOK
  <2>2. NewDir(op[w].version)
    BY <1>3, <2>1 DEF MakeDirs, NewDir, CreateOp
  <2>3. DiskStep
    BY <1>3, <2>2 DEF MakeDirs, DiskStep, DiskOK
  <2>4. op[w].version \in DOMAIN dirs' /\ dirs'[op[w].version] = {}
    BY <1>3 DEF MakeDirs, With
  <2>5. op[w].todo # {} /\ op[w].todo \in FileMaps
    BY <1>0, <1>3, <2>1 DEF MakeDirs, StartAt, CreateOp
  <2>6. WritingAt(w)'
    BY <2>1, <2>4, <2>5 DEF WritingAt
  <2> QED BY <2>1, <2>3, <2>6 DEF DiskEffect, StartAt, LeftAt
<1>4. CASE MakeDirsFails(w)
  <2>1. ~docDir /\ UNCHANGED <<dirs, infos, companyId, markers>> /\ docDir' \in BOOLEAN
    BY <1>0, <1>4 DEF MakeDirsFails, StartAt
  <2>2. DiskStep
    BY <2>1 DEF DiskStep, DiskOK, Removal
  <2> QED BY <1>4, <2>2, UnpreparedEffect, ReturnUnprepared DEF MakeDirsFails
<1>5. CASE WriteCompany(w)
  <2>1. /\ pc[w] \in {"write_company", "restore_company"} /\ op' = op
        /\ docDir' = docDir /\ dirs' = dirs /\ infos' = infos /\ markers' = markers
        /\ companyId' = op[w].company
        /\ pc'[w] = IF pc[w] = "write_company" THEN "make_marker" ELSE "restore_marker"
    BY <1>5 DEF WriteCompany, Goto, ControlOK
  <2>2. op[w].company \in Companies /\ docDir
    BY <1>0, <2>1 DEF Makes, CreateOp, RestoreOp, StartAt, WritingLabels
  <2>3. DiskStep
    BY <2>1, <2>2, SameFilesDiskStep DEF DiskOK
  <2>4. WritingAt(w)'
    BY <1>0, <1>5, <2>1, AbandonedStays DEF WritingAt, WritingLabels
  <2>5. LeftAt(w)'
    BY <1>0, <2>1 DEF LeftAt, Listed, Makes, CreateOp
  <2> QED BY <2>1, <2>2, <2>3, <2>4, <2>5 DEF DiskEffect, StartAt
<1>6. CASE MakeMarker(w)
  <2>1. /\ pc[w] \in {"make_marker", "restore_marker"} /\ op' = op
        /\ docDir' = docDir /\ dirs' = dirs /\ infos' = infos /\ companyId' = companyId
        /\ markers' = markers \cup {op[w].company}
        /\ pc'[w] = IF pc[w] = "make_marker" THEN "write_file" ELSE "restore_next"
    BY <1>6 DEF MakeMarker, Goto, ControlOK
  <2>2. op[w].company \in Companies /\ docDir
    BY <1>0, <2>1 DEF Makes, CreateOp, RestoreOp, StartAt, WritingLabels
  <2>3. DiskStep
    BY <2>1, <2>2, SameFilesDiskStep DEF DiskOK
  <2>4. WritingAt(w)'
    BY <1>0, <1>6, <2>1, AbandonedStays DEF WritingAt, WritingLabels
  <2>5. LeftAt(w)'
    BY <1>0, <2>1 DEF LeftAt, Listed, Makes, CreateOp
  <2> QED BY <2>1, <2>2, <2>3, <2>4, <2>5 DEF DiskEffect, StartAt
<1>7. CASE CreateFails(w)
  <2>1. /\ pc[w] \in {"write_company", "make_marker"}
        /\ docDir' = docDir /\ dirs' = dirs /\ infos' = infos /\ markers' = markers
        /\ companyId' \in {companyId, op[w].company}
    BY <1>7 DEF CreateFails
  <2>2. op[w].company \in Companies /\ docDir
    BY <1>0, <2>1 DEF Makes, CreateOp, RestoreOp, StartAt, WritingLabels
  <2>3. DiskStep
    BY <2>1, <2>2, SameFilesDiskStep DEF DiskOK
  <2> QED BY <1>7, <2>3, UnpreparedEffect, ReturnUnprepared DEF CreateFails
<1> QED
  BY <1>1, <1>2, <1>3, <1>4, <1>5, <1>6, <1>7 DEF Create

LEMMA WriteVersionDisk ==
    ASSUME LocalInv, NEW w \in Writers, WriteVersion(w), NextSeen(w)
    PROVE  DiskEffect(w)
<1> USE HoldsMutex DEF LocalInv
<1> DEFINE o == op[w]
           v == op[w].version
<1>0. WritingAt(w) /\ StartAt(w) /\ LeftAt(w) /\ pc[w] \in Labels
  BY DEF WritingOK, StartOK, LeftOK, ControlOK
<1>1. ASSUME pc[w] \in {"write_file", "write_info"}
      PROVE  /\ v \in DOMAIN dirs /\ v \in Versions /\ docDir
             /\ o.kind \in {"create", "restore"} => dirs[v] # {} \/ o.todo # {}
             /\ v \in DOMAIN infos => v \in abandoned
             /\ o \in CreateOp \cup AddOp \cup RestoreOp
             /\ dirs[v] \in FileMaps /\ o.todo \subseteq File
  BY <1>0, <1>1 DEF WritingAt, StartAt, WritingLabels, DiskOK, Makes, FileMaps,
                    CreateOp, AddOp, RestoreOp
<1>2. ASSUME NEW f \in o.todo, pc[w] = "write_file",
             dirs' = WithFile(v, f),
             UNCHANGED <<docDir, infos, companyId, markers>>
      PROVE  DiskStep
  <2>1. f \in File
    BY <1>1, <1>2
  <2>2. NewFile(v)
    BY <1>1, <1>2, <2>1 DEF NewFile
  <2> QED BY <1>1, <1>2, <2>2 DEF DiskStep, DiskOK
<1>3. CASE WriteFile(w)
  <2>1. PICK f \in o.todo :
          /\ dirs' = WithFile(v, f)
          /\ op' = [op EXCEPT ![w].todo = @ \ {f}]
    BY <1>3 DEF WriteFile
  <2>2. pc[w] = "write_file" /\ pc' = pc /\ docDir' = docDir /\ infos' = infos
        /\ companyId' = companyId /\ markers' = markers
    BY <1>3 DEF WriteFile
  <2>3. DiskStep
    BY <1>2, <2>1, <2>2
  <2>4. op'[w] = [o EXCEPT !.todo = @ \ {f}]
    BY <2>1 DEF ControlOK
  <2>5. /\ op'[w].version = v /\ op'[w].todo = o.todo \ {f} /\ op'[w].kind = o.kind
        /\ o.kind = "restore" => op'[w].left = o.left
    BY <1>1, <2>2, <2>4 DEF CreateOp, AddOp, RestoreOp
  <2>6. v \in DOMAIN dirs' /\ dirs'[v] = CarryForward(dirs[v], {}, {f})
    BY <1>1, <2>1, <2>2 DEF WithFile
  <2>7. dirs'[v] # {}
    BY <1>1, <2>1, <2>2, <2>6, WithFileType
  <2>8. WritingAt(w)'
    BY <1>1, <1>3, <2>2, <2>5, <2>6, <2>7, AbandonedStays DEF WritingAt
  <2>9. Listed' = Listed
    BY <2>1, <2>2 DEF Listed, WithFile
  <2>10. LeftAt(w)'
    BY <1>0, <2>2, <2>5, <2>9 DEF LeftAt
  <2> QED BY <1>1, <2>2, <2>3, <2>8, <2>10 DEF DiskEffect, StartAt
<1>4. CASE WriteFileFails(w)
  <2>1. PICK f \in o.todo : dirs' \in {dirs, WithFile(v, f)}
    BY <1>4 DEF WriteFileFails
  <2>2. DiskStep
    BY <1>2, <1>4, <2>1, SameFilesDiskStep DEF WriteFileFails, DiskOK
  <2> QED BY <1>4, <2>2, UnpreparedEffect, ReturnUnprepared DEF WriteFileFails
<1>5. CASE WriteFileDone(w)
  <2>1. pc[w] = "write_file" /\ pc'[w] = "write_info" /\ op' = op /\ UNCHANGED disk
    BY <1>5 DEF WriteFileDone, Goto, ControlOK
  <2>2. DiskStep
    BY <2>1, SameFilesDiskStep DEF disk, DiskOK
  <2>3. WritingAt(w)'
    BY <1>1, <1>5, <2>1, AbandonedStays DEF WriteFileDone, WritingAt, disk
  <2>4. LeftAt(w)'
    BY <1>0, <2>1 DEF LeftAt, Listed, disk
  <2> QED BY <1>1, <2>1, <2>2, <2>3, <2>4 DEF DiskEffect, StartAt, disk
<1>6. ASSUME pc[w] = "write_info", ~IsRefusedInfo(o, FilesIn(v)), infos' = Written(o),
             UNCHANGED <<docDir, dirs, companyId, markers>>
      PROVE  DiskStep
  <2>1. FilesIn(v) = dirs[v]
    BY <1>1, <1>6 DEF FilesIn
  <2>2. dirs[v] # {}
    <3>1. CASE o \in AddOp
      BY <1>6, <2>1, <3>1 DEF AddOp, IsRefusedInfo
    <3>2. CASE o \in CreateOp \cup RestoreOp
      <4>1. pc[w] = "write_info" /\ o.kind \in {"create", "restore"}
        BY <1>6, <3>2 DEF CreateOp, RestoreOp
      <4>2. o.todo = {}
        BY <1>0, <1>6 DEF WritingAt, WritingLabels
      <4> QED BY <1>1, <4>1, <4>2
    <3> QED BY <1>1, <1>6, <3>1, <3>2
  <2>3. o.company \in Companies /\ o.prev \in Versions \cup {NoVersion}
    BY <1>1, <1>6 DEF CreateOp, AddOp, RestoreOp
  <2>4. FilesIn(o.prev) \in SUBSET File /\ dirs[v] \in SUBSET File
    BY <1>1, <1>6, FilesInType DEF FileMaps
  <2>5. NewInfo(o.company, o.prev, dirs[v]) \in Info
    BY <1>1, <1>6, <2>3, <2>4, ChangeListsType DEF NewInfo, Info
  <2>6. InfoFile(v)
    BY <1>1, <1>6, <2>1, <2>2, <2>5 DEF InfoFile, Written, NewInfo
  <2> QED BY <1>1, <1>6, <2>6 DEF DiskStep, DiskOK
<1>7. CASE WriteInfo(w)
  <2>1. DiskStep
    BY <1>6, <1>7 DEF WriteInfo
  <2>2. pc'[w] \in {"notify", "set_unmark", "restore_next"} /\ docDir'
    BY <1>1, <1>7 DEF WriteInfo, Goto, ControlOK
  <2>3. pc'[w] = "restore_next" => LeftAt(w)'
    <3> SUFFICES ASSUME pc'[w] = "restore_next" PROVE LeftAt(w)'
      OBVIOUS
    <3>1. o.kind = "restore" /\ op' = [op EXCEPT ![w].saved = @ \cup {v}]
      BY <1>7 DEF WriteInfo, Goto, ControlOK
    <3>2. o \in RestoreOp
      BY <1>1, <1>7, <3>1 DEF WriteInfo, CreateOp, AddOp
    <3>3. op'[w].left = o.left
      BY <3>1, <3>2 DEF ControlOK, RestoreOp
    <3>4. Listed' \subseteq Listed \cup {v}
      BY <1>7 DEF WriteInfo, Written, With, Listed
    <3> QED BY <1>0, <1>7, <3>1, <3>3, <3>4 DEF LeftAt, WriteInfo
  <2> QED BY <2>1, <2>2, <2>3 DEF DiskEffect, WritingAt, StartAt, LeftAt, WritingLabels
<1>8. CASE WriteInfoRefused(w)
  <2>1. DiskStep
    BY <1>8, SameFilesDiskStep DEF WriteInfoRefused, disk, DiskOK
  <2> QED BY <1>8, <2>1, UnpreparedEffect, ReturnUnprepared DEF WriteInfoRefused
<1>9. CASE WriteInfoFails(w)
  <2>1. infos' = infos => DiskStep
    BY <1>9, SameFilesDiskStep DEF WriteInfoFails, DiskOK
  <2>2. infos' # infos => DiskStep
    BY <1>6, <1>9 DEF WriteInfoFails
  <2> QED BY <1>9, <2>1, <2>2, UnpreparedEffect, ReturnUnprepared DEF WriteInfoFails
<1>10. CASE Notify(w)
  <2>1. DiskStep
    BY <1>10, SameFilesDiskStep DEF Notify, disk, DiskOK
  <2> QED BY <1>10, <2>1, UnpreparedEffect, ReturnUnprepared DEF Notify
<1>11. CASE NotifyFails(w)
  <2>1. DiskStep
    BY <1>11, SameFilesDiskStep DEF NotifyFails, disk, DiskOK
  <2>2. pc'[w] \notin PreparedLabels
    BY <1>11, ReturnUnprepared DEF NotifyFails, ControlOK, PreparedLabels, WritingLabels
  <2> QED BY <2>1, <2>2, UnpreparedEffect
<1> QED
  BY <1>3, <1>4, <1>5, <1>7, <1>8, <1>9, <1>10, <1>11 DEF WriteVersion


LEMMA AddDisk ==
    ASSUME LocalInv, NEW w \in Writers, Add(w), NextSeen(w)
    PROVE  DiskEffect(w)
<1> USE HoldsMutex DEF LocalInv
<1>0. WritingAt(w) /\ StartAt(w) /\ LeftAt(w) /\ pc[w] \in Labels
  BY DEF WritingOK, StartOK, LeftOK, ControlOK
<1>1. CASE AddNotFound(w) \/ AddRefused(w)
  <2>1. DiskStep
    BY <1>1, SameFilesDiskStep DEF AddNotFound, AddRefused, Refuse, disk, DiskOK
  <2> QED BY <1>1, <2>1, UnpreparedEffect, ReturnUnprepared DEF AddNotFound, AddRefused
<1>2. CASE AddBegin(w)
  <2>1. DiskStep
    BY <1>2, SameFilesDiskStep DEF AddBegin, disk, DiskOK
  <2>2. pc'[w] = "make_dir" /\ docDir'
    BY <1>2 DEF AddBegin, Begin, disk, ControlOK, DiskOK, Listed
  <2> QED BY <2>1, <2>2 DEF DiskEffect, WritingAt, StartAt, LeftAt, WritingLabels
<1>3. CASE MakeDir(w)
  <2> DEFINE v == op[w].version
  <2>1. /\ pc'[w] = "write_file" /\ op' = op /\ infos' = infos /\ docDir' /\ docDir
        /\ op[w] \in AddOp /\ v \notin DOMAIN dirs
    BY <1>0, <1>3 DEF MakeDir, Goto, ControlOK, Makes, StartAt
  <2>2. NewDir(v)
    BY <1>3, <2>1 DEF MakeDir, NewDir, AddOp
  <2>3. DiskStep
    BY <1>3, <2>1, <2>2 DEF MakeDir, DiskStep, DiskOK
  <2>4. v \in DOMAIN dirs' /\ dirs'[v] = {}
    BY <1>3 DEF MakeDir, With
  <2>5. v \in DOMAIN infos => v \in abandoned
    BY <2>1 DEF VersionsComplete, FilesIn
  <2>6. v \in DOMAIN infos => v \in abandoned'
    BY <2>1, <2>5, AbandonedStays
  <2>7. op[w].kind = "add"
    BY <2>1 DEF AddOp
  <2>8. WritingAt(w)'
    BY <2>1, <2>4, <2>6, <2>7 DEF WritingAt
  <2> QED BY <2>1, <2>3, <2>7, <2>8 DEF DiskEffect, StartAt, LeftAt
<1>4. CASE MakeDirExists(w)
  <2>1. DiskStep
    BY <1>4, SameFilesDiskStep DEF MakeDirExists, disk, DiskOK
  <2> QED BY <1>4, <2>1, UnpreparedEffect, ReturnUnprepared DEF MakeDirExists
<1> QED
  BY <1>1, <1>2, <1>3, <1>4 DEF Add

LEMMA SetCompanyDisk ==
    ASSUME LocalInv, NEW w \in Writers, SetCompany(w)
    PROVE  DiskEffect(w)
<1> USE HoldsMutex DEF LocalInv
<1>0. WritingAt(w) /\ StartAt(w) /\ LeftAt(w) /\ pc[w] \in Labels
  BY DEF WritingOK, StartOK, LeftOK, ControlOK
<1>1. CASE SetBegin(w)
  <2>1. DiskStep
    BY <1>1, SameFilesDiskStep DEF SetBegin, disk, DiskOK
  <2>2. pc'[w] \notin PreparedLabels
    BY <1>1 DEF SetBegin, Begin, ControlOK, PreparedLabels, WritingLabels
  <2> QED BY <2>1, <2>2, UnpreparedEffect
<1>2. CASE SetNotFound(w)
  <2>1. DiskStep
    BY <1>2, SameFilesDiskStep DEF SetNotFound, Refuse, disk, DiskOK
  <2> QED BY <1>2, <2>1, UnpreparedEffect, ReturnUnprepared DEF SetNotFound
<1>3. ASSUME SetDone(w)
      PROVE  pc'[w] \notin PreparedLabels
  BY <1>3 DEF SetDone, Return, Goto, ControlOK, PreparedLabels, WritingLabels
<1>4. ASSUME pc[w] \in {"set_unmark", "set_company", "set_mark"}
      PROVE  op[w].kind \in {"add", "setCompany"} /\ op[w].target \in Companies
  BY <1>4 DEF Makes, AddOp, SetCompanyOp
<1>5. CASE SetUnmark(w)
  <2>1. companyId \in Companies /\ docDir
    BY <1>5 DEF SetUnmark, DiskOK
  <2>2. DiskStep
    BY <1>5, <2>1, SameFilesDiskStep DEF SetUnmark, DiskOK
  <2>3. pc'[w] \notin PreparedLabels \/ pc'[w] = "set_company"
    BY <1>3, <1>5 DEF SetUnmark, Goto, ControlOK
  <2>4. docDir'
    BY <1>5, <2>1 DEF SetUnmark
  <2> QED
    BY <2>2, <2>3, <2>4, UnpreparedEffect
    DEF DiskEffect, WritingAt, StartAt, LeftAt, WritingLabels
<1>6. CASE SetCompanyId(w)
  <2>1. DiskStep
    BY <1>0, <1>4, <1>6, SameFilesDiskStep DEF SetCompanyId, StartAt, DiskOK
  <2>2. pc'[w] \notin PreparedLabels
    BY <1>6 DEF SetCompanyId, Goto, ControlOK, PreparedLabels, WritingLabels
  <2> QED BY <2>1, <2>2, UnpreparedEffect
<1>7. CASE SetMark(w)
  <2>1. DiskStep
    BY <1>4, <1>7, SameFilesDiskStep DEF SetMark, DiskOK
  <2> QED BY <1>3, <1>7, <2>1, UnpreparedEffect DEF SetMark
<1>8. CASE SetFails(w)
  <2>1. DiskStep
    BY <1>0, <1>4, <1>8, SameFilesDiskStep DEF SetFails, StartAt, DiskOK
  <2> QED BY <1>8, <2>1, UnpreparedEffect, ReturnUnprepared DEF SetFails
<1> QED
  BY <1>1, <1>2, <1>5, <1>6, <1>7, <1>8 DEF SetCompany

\* A step that removes files, directories, infos or company.id, or nothing.
LEMMA RemovalDiskStep ==
    ASSUME DiskOK, Removal, docDir' = docDir,
           companyId' \in {companyId, NoCompany}, markers' \subseteq Companies
    PROVE  DiskStep
BY DEF DiskOK, DiskStep, Removal

LEMMA DropFile ==
    ASSUME NEW v \in DOMAIN dirs, NEW f, dirs' = [dirs EXCEPT ![v] = @ \ {f}],
           infos' = infos
    PROVE  Removal
BY DEF Removal

LEMMA DropDir ==
    ASSUME NEW v, dirs' = Without(dirs, v), infos' = infos
    PROVE  Removal
BY DEF Removal, Without, Restrict

LEMMA DropInfo ==
    ASSUME NEW v, infos' \in {infos, Without(infos, v)}, dirs' = dirs
    PROVE  Removal
BY DEF Removal, Without, Restrict

LEMMA RemoveDisk ==
    ASSUME LocalInv, NEW w \in Writers, Remove(w)
    PROVE  DiskEffect(w)
<1> USE HoldsMutex DEF LocalInv
<1>0. pc[w] \in Labels /\ markers \subseteq Companies
  BY DEF ControlOK, DiskOK
<1>1. CASE DeleteNotFound(w) \/ DeleteVersionNotFound(w)
  <2>1. DiskStep
    BY <1>1, SameFilesDiskStep DEF DeleteNotFound, DeleteVersionNotFound, Refuse, disk, DiskOK
  <2> QED
    BY <1>1, <2>1, UnpreparedEffect, ReturnUnprepared
    DEF DeleteNotFound, DeleteVersionNotFound
<1>2. CASE DeleteBegin(w) \/ DeleteVersionBegin(w)
  <2>1. DiskStep
    BY <1>2, SameFilesDiskStep DEF DeleteBegin, DeleteVersionBegin, disk, DiskOK
  <2>2. pc'[w] \notin PreparedLabels
    BY <1>2 DEF DeleteBegin, DeleteVersionBegin, Begin, ControlOK, PreparedLabels,
                WritingLabels
  <2> QED BY <2>1, <2>2, UnpreparedEffect
<1>3. CASE RemoveMarker(w) \/ RemoveMarkerFails(w)
  <2>1. DiskStep
    BY <1>0, <1>3, SameFilesDiskStep DEF RemoveMarker, RemoveMarkerFails, disk
  <2>2. pc'[w] \notin PreparedLabels
    BY <1>3 DEF RemoveMarker, RemoveMarkerFails, Return, Goto, GotoAfter, ControlOK,
                PreparedLabels, WritingLabels
  <2> QED BY <2>1, <2>2, UnpreparedEffect
<1>4. CASE RemoveEntry(w)
  <2>1. Removal
    <3>1. ASSUME NEW v \in DOMAIN dirs, NEW f \in dirs[v],
                 dirs' = [dirs EXCEPT ![v] = @ \ {f}], infos' = infos
          PROVE  Removal
      BY <3>1, DropFile
    <3>2. ASSUME NEW v \in DOMAIN dirs, dirs' = Without(dirs, v), infos' = infos
          PROVE  Removal
      BY <3>2, DropDir
    <3>3. ASSUME NEW v \in DOMAIN infos, infos' = Without(infos, v), dirs' = dirs
          PROVE  Removal
      BY <3>3, DropInfo
    <3>4. ASSUME dirs' = dirs, infos' = infos
          PROVE  Removal
      BY <3>4 DEF Removal
    <3> QED BY <1>4, <3>1, <3>2, <3>3, <3>4 DEF RemoveEntry
  <2>2. DiskStep
    BY <1>0, <1>4, <2>1, RemovalDiskStep DEF RemoveEntry
  <2>3. pc'[w] = "remove_doc"
    BY <1>4 DEF RemoveEntry, control
  <2> QED BY <2>2, <2>3, UnpreparedEffect DEF PreparedLabels, WritingLabels
<1>5. ASSUME NEW e, pc[w] = "remove_doc", AfterRemoveDoc(w, e)
      PROVE  pc'[w] \notin PreparedLabels \/ (pc'[w] = "restore_dir" /\ e = "ok")
  BY <1>5 DEF AfterRemoveDoc, Return, Goto, ControlOK, PreparedLabels, WritingLabels
<1>6. CASE RemoveDoc(w)
  <2>1. DiskStep
    BY <1>6 DEF RemoveDoc, DiskStep, DiskOK, Removal
  <2>2. pc'[w] \notin PreparedLabels \/ pc'[w] = "restore_dir"
    BY <1>5, <1>6 DEF RemoveDoc
  <2>3. Listed' = {}
    BY <1>6 DEF RemoveDoc, Listed
  <2> QED
    BY <2>1, <2>2, <2>3, UnpreparedEffect
    DEF DiskEffect, WritingAt, StartAt, LeftAt, WritingLabels
<1>7. CASE RemoveDocFails(w)
  <2>1. DiskStep
    BY <1>0, <1>7, SameFilesDiskStep DEF RemoveDocFails, disk
  <2>2. pc'[w] \notin PreparedLabels
    BY <1>5, <1>7 DEF RemoveDocFails
  <2> QED BY <2>1, <2>2, UnpreparedEffect
<1>8. CASE RemoveDir(w)
  <2>1. Removal
    <3>1. ASSUME NEW f \in FilesIn(op[w].version),
                 dirs' = [dirs EXCEPT ![op[w].version] = @ \ {f}], infos' = infos
          PROVE  Removal
      <4>1. op[w].version \in DOMAIN dirs
        BY <3>1 DEF FilesIn
      <4> QED BY <3>1, <4>1, DropFile
    <3> QED BY <1>8, <3>1, DropDir DEF RemoveDir
  <2>2. DiskStep
    BY <1>0, <1>8, <2>1, RemovalDiskStep DEF RemoveDir
  <2>3. pc'[w] \in {"remove_dir", "remove_info"}
    BY <1>8 DEF RemoveDir, control, Goto, ControlOK
  <2> QED BY <2>2, <2>3, UnpreparedEffect DEF PreparedLabels, WritingLabels
<1>9. CASE RemoveDirFails(w)
  <2>1. DiskStep
    BY <1>0, <1>9, SameFilesDiskStep DEF RemoveDirFails, disk
  <2>2. pc'[w] \notin PreparedLabels
    BY <1>9 DEF RemoveDirFails, Return, Goto, ControlOK, PreparedLabels, WritingLabels
  <2> QED BY <2>1, <2>2, UnpreparedEffect
<1>10. CASE RemoveInfo(w)
  <2>1. Removal
    BY <1>10, DropInfo DEF RemoveInfo
  <2>2. DiskStep
    BY <1>0, <1>10, <2>1, RemovalDiskStep DEF RemoveInfo
  <2>3. pc'[w] \in {"idle", "remove_marker"}
    BY <1>10 DEF RemoveInfo, Return, GotoAfter, ControlOK
  <2> QED BY <2>2, <2>3, UnpreparedEffect DEF PreparedLabels, WritingLabels
<1>11. CASE UndoMarker(w)
  <2>1. DiskStep
    BY <1>0, <1>11, SameFilesDiskStep DEF UndoMarker
  <2>2. pc'[w] \in {"idle", "remove_doc"}
    BY <1>11 DEF UndoMarker, Return, Goto, ControlOK
  <2> QED BY <2>1, <2>2, UnpreparedEffect DEF PreparedLabels, WritingLabels
<1> QED
  BY <1>1, <1>2, <1>3, <1>4, <1>6, <1>7, <1>8, <1>9, <1>10, <1>11 DEF Remove

LEMMA RestoreDisk ==
    ASSUME LocalInv, NEW w \in Writers, Restore(w), NextSeen(w)
    PROVE  DiskEffect(w)
<1> USE HoldsMutex DEF LocalInv
<1>0. pc[w] \in Labels /\ markers \subseteq Companies /\ StartAt(w) /\ LeftAt(w)
  BY DEF ControlOK, DiskOK, StartOK, LeftOK
<1>1. CASE RestoreBegin(w)
  <2>1. DiskStep
    BY <1>1, SameFilesDiskStep DEF RestoreBegin, disk, DiskOK
  <2>2. PICK backup \in Backups, recreate \in BOOLEAN :
            LET o == RestoreCall(backup, recreate)
            IN \/ Begin(w, o, "remove_marker") \/ Refuse(w, "failed")
               \/ docDir /\ ~recreate /\ Begin(w, o, "restore_next")
               \/ ~docDir /\ Begin(w, o, "restore_dir")
    BY <1>1 DEF RestoreBegin
  <2>3. docDir' = docDir /\ Listed' = Listed /\ (~docDir => Listed = {})
    BY <1>1 DEF RestoreBegin, disk, DiskOK, Listed
  <2>4. CASE Begin(w, RestoreCall(backup, recreate), "remove_marker") \/ Refuse(w, "failed")
    <3>1. pc'[w] \notin PreparedLabels
      BY <2>4 DEF Begin, Refuse, Return, ControlOK, PreparedLabels, WritingLabels
    <3> QED BY <2>1, <3>1, UnpreparedEffect
  <2>5. ASSUME NEW label \in {"restore_next", "restore_dir"},
               Begin(w, RestoreCall(backup, recreate), label),
               IF label = "restore_next" THEN docDir /\ ~recreate ELSE ~docDir
        PROVE  DiskEffect(w)
    <3>1. pc'[w] = label /\ op'[w] = RestoreCall(backup, recreate)
      BY <2>5 DEF Begin, ControlOK
    <3>2. op'[w].left \cap Listed = {}
      BY <2>3, <2>5, <3>1 DEF RestoreCall
    <3> QED
      BY <2>1, <2>3, <2>5, <3>1, <3>2
      DEF DiskEffect, WritingAt, StartAt, LeftAt, WritingLabels
  <2> QED BY <2>2, <2>4, <2>5
<1>2. CASE RestoreDir(w)
  <2>1. DiskStep
    BY <1>2 DEF RestoreDir, DiskStep, DiskOK, Removal
  <2>2. pc'[w] = "restore_company" /\ docDir' /\ op' = op /\ Listed' = Listed
    BY <1>2 DEF RestoreDir, Goto, ControlOK, Listed
  <2>3. LeftAt(w)'
    BY <1>0, <1>2, <2>2 DEF RestoreDir, LeftAt
  <2> QED BY <2>1, <2>2, <2>3 DEF DiskEffect, WritingAt, StartAt, WritingLabels
<1>3. CASE RestoreDirFails(w)
  <2>1. DiskStep
    BY <1>0, <1>3, SameFilesDiskStep DEF RestoreDirFails, disk
  <2> QED BY <1>3, <2>1, UnpreparedEffect, ReturnUnprepared DEF RestoreDirFails
<1>4. CASE RestoreVersion(w)
  <2> DEFINE o == op[w]
             v == Min(o.left)
             new == [o EXCEPT !.left = @ \ {v}, !.created = @ \cup {v}, !.version = v,
                              !.prev = Predecessor(o.backup, v),
                              !.todo = o.backup.files[v], !.written = o.backup.files[v]]
  <2>1. o \in RestoreOp /\ o.left \subseteq VersionsOf(o.backup) /\ docDir
    BY <1>0, <1>4 DEF RestoreVersion, Makes, StartAt
  <2>2. v \in o.left /\ v \in Versions /\ o.backup.files[v] \in FileMaps \ {{}}
    BY <1>4, <2>1, NextVersionOfBackup DEF RestoreVersion
  <2>3. /\ op' = [op EXCEPT ![w] = new] /\ pc' = [pc EXCEPT ![w] = "write_file"]
        /\ pc[w] = "restore_next" /\ dirs' = With(dirs, v, FilesIn(v))
        /\ UNCHANGED <<docDir, infos, companyId, markers>>
    BY <1>4 DEF RestoreVersion
  <2> HIDE DEF v
  <2>4. /\ new.version = v /\ new.todo = o.backup.files[v] /\ new.kind = "restore"
        /\ new.left = o.left \ {v}
    BY <2>1 DEF RestoreOp
  <2> HIDE DEF new
  <2>5. op'[w] = new /\ pc'[w] = "write_file"
    BY <2>3 DEF ControlOK
  <2>6. /\ DOMAIN dirs' = DOMAIN dirs \cup {v}
        /\ \A u \in DOMAIN dirs : dirs'[u] = dirs[u]
    BY <2>3 DEF With, FilesIn
  <2>7. DiskStep
    <3>1. CASE v \in DOMAIN dirs
      <4>1. Removal
        BY <2>3, <2>6, <3>1 DEF Removal
      <4> QED BY <2>1, <2>3, <4>1 DEF DiskStep, DiskOK
    <3>2. CASE v \notin DOMAIN dirs
      <4>1. NewDir(v)
        BY <2>2, <2>3, <3>2 DEF NewDir, FilesIn
      <4> QED BY <2>1, <2>3, <4>1 DEF DiskStep, DiskOK
    <3> QED BY <3>1, <3>2
  <2>8. o.left \cap Listed = {}
    BY <1>0, <2>1, <2>3 DEF LeftAt, RestoreOp
  <2>9. v \in DOMAIN infos => v \in abandoned
    BY <2>2, <2>8 DEF VersionsComplete, FilesIn, Listed
  <2>10. v \in DOMAIN infos' => v \in abandoned'
    BY <2>3, <2>9, AbandonedStays
  <2>11. WritingAt(w)'
    BY <2>2, <2>4, <2>5, <2>6, <2>10 DEF WritingAt
  <2>12. LeftAt(w)'
    BY <2>2, <2>3, <2>4, <2>5, <2>6, <2>8 DEF LeftAt, Listed
  <2> QED BY <2>1, <2>3, <2>5, <2>7, <2>11, <2>12 DEF DiskEffect, StartAt
<1>5. CASE RestoreVersionFails(w)
  <2>1. DiskStep
    BY <1>0, <1>5, SameFilesDiskStep DEF RestoreVersionFails, disk
  <2> QED BY <1>5, <2>1, UnpreparedEffect, ReturnUnprepared DEF RestoreVersionFails
<1>6. CASE RestoreDone(w)
  <2>1. DiskStep
    BY <1>0, <1>6, SameFilesDiskStep DEF RestoreDone, disk
  <2> QED BY <1>6, <2>1, UnpreparedEffect, ReturnUnprepared DEF RestoreDone
<1>7. CASE UndoDirs(w)
  <2> DEFINE v == Min(op[w].created)
  <2>0. UNCHANGED <<docDir, infos, companyId, markers>>
    BY <1>7 DEF UndoDirs
  <2>1. Removal
    <3>1. CASE dirs' = dirs
      BY <2>0, <3>1 DEF Removal
    <3>2. ASSUME NEW f \in dirs[v], dirs' = [dirs EXCEPT ![v] = @ \ {f}]
          PROVE  Removal
      <4>1. CASE v \in DOMAIN dirs
        BY <2>0, <3>2, <4>1, DropFile
      <4>2. CASE v \notin DOMAIN dirs
        BY <2>0, <3>2, <4>2 DEF Removal
      <4> QED BY <4>1, <4>2
    <3> QED BY <1>7, <2>0, <3>1, <3>2, DropDir DEF UndoDirs
  <2>2. DiskStep
    BY <1>0, <2>0, <2>1, RemovalDiskStep
  <2>3. pc'[w] \in {"undo_dirs", "undo_infos"}
    BY <1>7 DEF UndoDirs, Goto, control, ControlOK
  <2> QED BY <2>2, <2>3, UnpreparedEffect DEF PreparedLabels, WritingLabels
<1>8. CASE UndoInfos(w)
  <2>0. UNCHANGED <<docDir, dirs, companyId, markers>>
    BY <1>8 DEF UndoInfos
  <2>1. Removal
    <3>1. PICK v : infos' \in {infos, Without(infos, v)}
      BY <1>8 DEF UndoInfos
    <3> QED BY <2>0, <3>1, DropInfo
  <2>2. DiskStep
    BY <1>0, <2>0, <2>1, RemovalDiskStep
  <2>3. pc'[w] \in {"undo_infos", "idle", "undo_marker"}
    BY <1>8 DEF UndoInfos, Return, Goto, ControlOK
  <2> QED BY <2>2, <2>3, UnpreparedEffect DEF PreparedLabels, WritingLabels
<1> QED
  BY <1>1, <1>2, <1>3, <1>4, <1>5, <1>6, <1>7, <1>8 DEF Restore

----------------------------------------------------------------------------
(* The invariant of the local Conn, and what follows from it.              *)

LEMMA InitLocalInv == AtomicInit => LocalInv
<1> SUFFICES ASSUME AtomicInit PROVE LocalInv
  OBVIOUS
<1>1. DOMAIN dirs = {} /\ DOMAIN infos = {} /\ companyId = NoCompany /\ markers = {}
      /\ docDir = FALSE
  BY DEF AtomicInit, Init, Empty
<1>2. lock = NoWriter /\ \A w \in Writers : pc[w] = "idle" /\ op[w] = NoOp
  BY DEF AtomicInit, Init
<1>3. ControlOK
  BY <1>2, NamesAssumption DEF AtomicInit, Init, ControlOK, Labels, Results
<1>4. DiskOK /\ VersionsComplete
  BY <1>1 DEF DiskOK, VersionsComplete
<1>5. WritingOK /\ StartOK /\ LeftOK
  BY <1>2 DEF WritingOK, WritingAt, StartOK, StartAt, WritingLabels, LeftOK, LeftAt
<1> QED BY <1>3, <1>4, <1>5 DEF LocalInv

LEMMA LocalInvStep ==
    ASSUME LocalInv, [AtomicNext]_auxVars
    PROVE  LocalInv'
<1>1. CASE UNCHANGED auxVars
  BY <1>1 DEF auxVars, vars, disk, control, seen, LocalInv, ControlOK, DiskOK,
              VersionsComplete, WritingOK, WritingAt, StartOK, StartAt, FilesIn,
              LeftOK, LeftAt, Listed
<1>2. ASSUME NEW w \in Writers, Step(w), NextSeen(w)
      PROVE  LocalInv'
  <2>1. KeepsControl(w)
    BY <1>2, StepKeepsControl
  <2>2. CASE Crash(w)
    <3>1. DiskStep
      BY <2>2, SameFilesDiskStep DEF Crash, disk, LocalInv, DiskOK
    <3>2. DiskEffect(w)
      BY <2>2, <3>1, UnpreparedEffect, ReturnUnprepared DEF Crash, LocalInv
    <3> QED BY <1>2, <2>1, <3>2, DiskEffectOK
  <2>3. DiskEffect(w) \/ Crash(w)
    BY <1>2, CreateDisk, WriteVersionDisk, AddDisk, SetCompanyDisk, RemoveDisk, RestoreDisk
    DEF Step
  <2> QED BY <1>2, <2>1, <2>2, <2>3, DiskEffectOK
<1> QED
  BY <1>1, <1>2 DEF AtomicNext


LEMMA LocalInvAlways == AtomicSpec => []LocalInv
BY InitLocalInv, LocalInvStep, PTL DEF AtomicSpec

\* The state of the local Conn has its types whatever fails or crashes (conn.go:
\* every file and directory it makes is one that it can read back).
THEOREM LocalTypesCorrect == AtomicSpec => []TypeOK
<1>1. LocalInv => TypeOK
  <2> SUFFICES ASSUME LocalInv PROVE TypeOK
    OBVIOUS
  <2>1. Range(dirs) \subseteq FileMaps /\ Range(infos) \subseteq Info
    BY DEF LocalInv, DiskOK, Range
  <2>2. \A w \in Writers : op[w].kind \in OpKinds \cup {"none"}
    BY KindFacts DEF LocalInv, ControlOK, NoOp
  <2> QED BY <2>1, <2>2 DEF LocalInv, DiskOK, ControlOK, TypeOK, Results
<1> QED BY <1>1, LocalInvAlways, PTL

\* A listed version has exactly the files that its info records, unless files of it
\* were removed, whatever fails and wherever the process dies, also if a restore
\* writes into a directory that was left behind: conn.go writes the info last, from
\* what newVersionInfo reads in the directory, and never adds a file to a version
\* that has one.
THEOREM ListedVersionsComplete == AtomicSpec => []ListedComplete
<1>1. LocalInv => ListedComplete
  BY DEF LocalInv, VersionsComplete, ListedComplete, Listed
<1> QED BY <1>1, LocalInvAlways, PTL


----------------------------------------------------------------------------
(* What an operation leaves: of the versions that could be read before it, *)
(* it touches only those that it was called to write or remove.            *)

\* The calls on the document as a whole.
DocLabels == {"remove_marker", "remove_doc", "restore_dir", "restore_company",
              "restore_marker", "undo_marker"}

\* The versions that the operation of w may write or remove from here on.
Mine(w) ==
    LET o == op[w]
    IN {v \in Versions :
            \/ o.kind \in {"create", "delete"}
            \/ o.kind = "add" /\ v = o.version
            \/ o.kind = "deleteVersion" /\ (v = o.version \/ pc[w] \in DocLabels)
            \/ o.kind = "restore" /\ (~o.existed \/ v \in o.left \cup o.created \cup o.saved)}

\* What could be read before the operation of w, and it was not called to delete.
Spared(w) ==
    {d \in seenDoc :
        /\ op[w].kind # "delete"
        /\ ~(op[w].kind = "restore" /\ op[w].recreate)
        /\ ~(op[w].kind = "deleteVersion" /\ op[w].version = d.version)}

\* A restore writes versions that it created, and one that merges leaves the rest of
\* the document alone.
MergeAt(w) ==
    op[w].kind = "restore" =>
        /\ pc[w] \in WritingLabels => op[w].version \in op[w].created
        /\ op[w].existed => ~op[w].recreate /\ pc[w] \notin DocLabels

KeepAt(w) ==
    /\ \A d \in Spared(w) : d \in View /\ d.version \notin Mine(w)
    /\ MergeAt(w)

KeepInv ==
    /\ lock = NoWriter => seenDoc = View
    /\ \A w \in Writers : lock = w => KeepAt(w)


\* The versions of S aside, what could be read can still be read.
Leaves(S) ==
    \A v \in Listed \ S : v \in Listed' /\ infos'[v] = infos[v] /\ dirs'[v] = dirs[v]

LEMMA LeavesView ==
    ASSUME NEW S, Leaves(S), NEW d \in View, d.version \notin S
    PROVE  d \in View'
<1>1. PICK v \in Listed :
        d = [version |-> v, company |-> infos[v].company, prev |-> infos[v].prev,
             files |-> infos[v].files \cap dirs[v]]
  BY DEF View
<1>2. v \in Listed' /\ infos'[v] = infos[v] /\ dirs'[v] = dirs[v]
  BY <1>1 DEF Leaves
<1> QED BY <1>1, <1>2 DEF View

\* Directories and infos change for the version v only.
OnlyAt(v) ==
    \A u : u # v =>
        /\ u \in DOMAIN dirs => u \in DOMAIN dirs' /\ dirs'[u] = dirs[u]
        /\ u \in DOMAIN infos => u \in DOMAIN infos' /\ infos'[u] = infos[u]

LEMMA OnlyAtLeaves ==
    ASSUME NEW v, NEW S, OnlyAt(v), v \in S \/ v \notin Listed
    PROVE  Leaves(S)
BY DEF OnlyAt, Leaves, Listed

LEMMA SameLeaves ==
    ASSUME NEW S, dirs' = dirs, infos' = infos
    PROVE  Leaves(S)
BY DEF Leaves, Listed

LEMMA OnlyAtCases ==
    ASSUME NEW v,
           \/ /\ \/ dirs' = dirs
                 \/ \E files : dirs' = With(dirs, v, files)
                 \/ dirs' = Without(dirs, v)
                 \/ \E f : dirs' = WithFile(v, f)
                 \/ \E f : dirs' = [dirs EXCEPT ![v] = @ \ {f}]
              /\ infos' = infos
           \/ /\ \/ infos' = Without(infos, v)
                 \/ infos' = infos
                 \/ \E info : infos' = With(infos, v, info)
              /\ dirs' = dirs
    PROVE  OnlyAt(v)
<1>1. ASSUME dirs' = Without(dirs, v), infos' = infos PROVE OnlyAt(v)
  BY <1>1 DEF OnlyAt, Without, Restrict
<1>2. ASSUME infos' = Without(infos, v), dirs' = dirs PROVE OnlyAt(v)
  BY <1>2 DEF OnlyAt, Without, Restrict
<1>3. ASSUME NEW files, dirs' = With(dirs, v, files), infos' = infos PROVE OnlyAt(v)
  BY <1>3 DEF OnlyAt, With
<1>4. ASSUME NEW info, infos' = With(infos, v, info), dirs' = dirs PROVE OnlyAt(v)
  BY <1>4 DEF OnlyAt, With
<1>5. ASSUME NEW f, infos' = infos,
             \/ dirs' = WithFile(v, f)
             \/ dirs' = [dirs EXCEPT ![v] = @ \ {f}]
      PROVE  OnlyAt(v)
  BY <1>5 DEF OnlyAt, WithFile
<1>6. ASSUME infos' = infos, dirs' = dirs PROVE OnlyAt(v)
  BY <1>6 DEF OnlyAt
<1> QED BY <1>1, <1>2, <1>3, <1>4, <1>5, <1>6

\* The operations that make a call.
LEMMA KindAt ==
    ASSUME NEW o, NEW label, Makes(o, label)
    PROVE  /\ label \in {"make_dirs", "write_company", "make_marker"} => o.kind = "create"
           /\ label \in {"write_file", "write_info"} =>
                o.kind \in {"create", "add", "restore"}
           /\ label = "notify" => o.kind \in {"create", "add"}
           /\ label = "make_dir" => o.kind = "add"
           /\ label \in {"set_unmark", "set_company", "set_mark"} =>
                o.kind \in {"add", "setCompany"}
           /\ label \in {"remove_dir", "remove_info"} => o.kind \in {"add", "deleteVersion"}
           /\ label = "remove_marker" => o.kind \in {"delete", "deleteVersion", "restore"}
           /\ label = "remove_doc" =>
                o.kind \in {"create", "delete", "deleteVersion", "restore"}
           /\ label = "undo_marker" => o.kind \in {"create", "restore"}
           /\ label \in {"restore_dir", "restore_company", "restore_marker",
                         "restore_next", "undo_dirs", "undo_infos"} => o.kind = "restore"
           /\ label # "idle"
           /\ o.kind \in {"create", "add"} => o.version \in Versions
           /\ o.kind = "restore" => o \in RestoreOp /\ o.left \subseteq VersionsOf(o.backup)
BY DEF Makes, CreateOp, AddOp, SetCompanyOp, DeleteOp, DeleteVersionOp, RestoreOp

\* An operation on the document as a whole may touch every version.
LEMMA AllMine ==
    ASSUME NEW w, op[w].kind \in {"create", "delete"}
                    \/ (op[w].kind = "restore" /\ ~op[w].existed)
                    \/ (op[w].kind = "deleteVersion" /\ pc[w] \in DocLabels)
    PROVE  Mine(w) = Versions
BY DEF Mine

\* A call touches only versions of its operation.
LEMMA StepLeaves ==
    ASSUME LocalInv, NEW w \in Writers, lock = w, MergeAt(w), Step(w)
    PROVE  Leaves(Mine(w))
<1> DEFINE o == op[w]
           v == op[w].version
<1>1. Makes(o, pc[w]) /\ WritingAt(w) /\ DOMAIN dirs \subseteq Versions
  BY DEF LocalInv, ControlOK, WritingOK, DiskOK
<1>2. Listed \subseteq Versions
  BY <1>1 DEF Listed
<1>3. ASSUME Mine(w) = Versions
      PROVE  Leaves(Mine(w))
  BY <1>2, <1>3 DEF Leaves
<1>4. ~Free(w)
  BY <1>1, KindAt DEF Free
<1>5. CASE pc[w] \in {"write_file", "write_info"} /\ OnlyAt(v)
  <2>1. v \in Versions
    BY <1>1, <1>5 DEF WritingAt, WritingLabels
  <2>2. v \in Mine(w)
    BY <1>1, <1>5, <2>1, KindAt DEF Mine, MergeAt, WritingLabels
  <2> QED BY <1>5, <2>2, OnlyAtLeaves
<1>6. CASE Create(w)
  <2>1. CASE MakeDirs(w)
    BY <1>1, <1>3, <2>1, KindAt, AllMine DEF MakeDirs
  <2> QED
    BY <1>4, <1>6, <2>1, SameLeaves
    DEF Create, CreateExists, CreateBegin, Begin, Refuse, MakeDirsFails, WriteCompany,
        MakeMarker, CreateFails
<1>7. CASE WriteVersion(w)
  <2>1. CASE WriteFile(w) \/ WriteFileFails(w)
    <3>1. OnlyAt(v)
      BY <2>1, OnlyAtCases DEF WriteFile, WriteFileFails
    <3> QED BY <1>5, <2>1, <3>1 DEF WriteFile, WriteFileFails
  <2>2. CASE WriteInfo(w) \/ WriteInfoFails(w)
    <3>1. OnlyAt(v)
      BY <2>2, OnlyAtCases DEF WriteInfo, WriteInfoFails, Written
    <3> QED BY <1>5, <2>2, <3>1 DEF WriteInfo, WriteInfoFails
  <2> QED
    BY <1>7, <2>1, <2>2, SameLeaves
    DEF WriteVersion, WriteFileDone, WriteInfoRefused, Notify, NotifyFails, disk
<1>8. CASE Add(w)
  <2>1. CASE MakeDir(w)
    <3>1. OnlyAt(v)
      BY <2>1, OnlyAtCases DEF MakeDir
    <3>2. v \notin Listed
      BY <2>1 DEF MakeDir, Listed
    <3> QED BY <3>1, <3>2, OnlyAtLeaves
  <2> QED
    BY <1>4, <1>8, <2>1, SameLeaves
    DEF Add, AddNotFound, AddRefused, AddBegin, Begin, Refuse, MakeDirExists, disk
<1>9. CASE SetCompany(w)
  BY <1>9, SameLeaves
  DEF SetCompany, SetBegin, SetNotFound, Refuse, SetUnmark, SetCompanyId, SetMark,
      SetFails, disk
<1>10. CASE Remove(w)
  <2>1. CASE RemoveEntry(w)
    <3>1. Mine(w) = Versions
      BY <1>1, <2>1, KindAt, AllMine DEF RemoveEntry, MergeAt, DocLabels
    <3> QED BY <1>3, <3>1
  <2>2. ASSUME pc[w] \in {"remove_dir", "remove_info"}, OnlyAt(v)
        PROVE  Leaves(Mine(w))
    <3>1. v \notin Listed \/ v \in Mine(w)
      BY <1>1, <1>2, <2>2, KindAt DEF Mine
    <3> QED BY <2>2, <3>1, OnlyAtLeaves
  <2>3. CASE RemoveDir(w)
    <3>1. OnlyAt(v)
      BY <2>3, OnlyAtCases DEF RemoveDir
    <3> QED BY <2>2, <2>3, <3>1 DEF RemoveDir
  <2>4. CASE RemoveInfo(w)
    <3>1. OnlyAt(v)
      BY <2>4, OnlyAtCases DEF RemoveInfo
    <3> QED BY <2>2, <2>4, <3>1 DEF RemoveInfo
  <2> QED
    BY <1>4, <1>10, <2>1, <2>3, <2>4, SameLeaves
    DEF Remove, DeleteNotFound, DeleteBegin, DeleteVersionNotFound, DeleteVersionBegin,
        Begin, Refuse, RemoveMarker, RemoveMarkerFails, RemoveDoc, RemoveDocFails,
        RemoveDirFails, UndoMarker, disk
<1>11. CASE Restore(w)
  <2>1. CASE RestoreVersion(w)
    <3>1. OnlyAt(Min(o.left))
      BY <2>1, OnlyAtCases DEF RestoreVersion
    <3>2. o \in RestoreOp /\ o.left \subseteq VersionsOf(o.backup) /\ o.kind = "restore"
      BY <1>1, <2>1, KindAt DEF RestoreVersion
    <3>3. Min(o.left) \in o.left
      BY <2>1, <3>2, NextVersionOfBackup DEF RestoreVersion
    <3>4. o.left \cap Listed = {}
      BY <2>1, <3>2 DEF RestoreVersion, LocalInv, LeftOK, LeftAt
    <3> QED BY <3>1, <3>3, <3>4, OnlyAtLeaves
  <2>2. ASSUME NEW S \in SUBSET (o.left \cup o.created \cup o.saved), S # {},
               pc[w] \in {"undo_dirs", "undo_infos"}, OnlyAt(Min(S))
        PROVE  Leaves(Mine(w))
    <3>1. o \in RestoreOp /\ o.kind = "restore"
      BY <1>1, <2>2, KindAt
    <3>2. S \subseteq Versions
      BY <2>2, <3>1 DEF RestoreOp
    <3>3. Min(S) \in S
      BY <2>2, <3>2, VersionsAssumption, MinOfNaturals
    <3>4. Min(S) \in Mine(w)
      BY <2>2, <3>1, <3>2, <3>3 DEF Mine
    <3> QED BY <2>2, <3>4, OnlyAtLeaves
  <2>3. CASE UndoDirs(w)
    <3>1. CASE dirs' = dirs
      BY <2>3, <3>1, SameLeaves DEF UndoDirs
    <3>2. CASE dirs' # dirs
      <4>1. o.created # {} /\ OnlyAt(Min(o.created))
        BY <2>3, <3>2, OnlyAtCases DEF UndoDirs
      <4> QED BY <2>2, <2>3, <4>1 DEF UndoDirs
    <3> QED BY <3>1, <3>2
  <2>4. CASE UndoInfos(w)
    <3>1. CASE infos' = infos
      BY <2>4, <3>1, SameLeaves DEF UndoInfos
    <3>2. CASE infos' # infos
      <4>1. o.saved # {} /\ OnlyAt(Min(o.saved))
        BY <2>4, <3>2, OnlyAtCases DEF UndoInfos
      <4> QED BY <2>2, <2>4, <4>1 DEF UndoInfos
    <3> QED BY <3>1, <3>2
  <2> QED
    BY <1>11, <2>1, <2>3, <2>4, SameLeaves
    DEF Restore, RestoreBegin, RestoreDir, RestoreDirFails, RestoreVersionFails,
        RestoreDone, disk
<1> QED
  BY <1>6, <1>7, <1>8, <1>9, <1>10, <1>11, SameLeaves DEF Step, Crash, disk


\* The operation of w keeps its task, and merging restores their restriction; a
\* DeleteDocumentVersion removes the document only without a listed version.
GoesOn(w) ==
    LET o == op[w]
        n == op'[w]
    IN /\ n.kind = o.kind
       /\ o.kind \in {"add", "deleteVersion"} => n.version = o.version
       /\ o.kind = "restore" =>
            /\ n.recreate = o.recreate
            /\ n.existed = o.existed
            /\ n.left \cup n.created \cup n.saved \subseteq o.left \cup o.created \cup o.saved
       /\ o.kind = "deleteVersion" /\ pc'[w] \in DocLabels =>
            pc[w] \in DocLabels \/ Listed' = {}
       /\ MergeAt(w)'

LEMMA GoesOnKeeps ==
    ASSUME NEW w, KeepAt(w), Leaves(Mine(w)), GoesOn(w), seenDoc' = seenDoc
    PROVE  KeepAt(w)'
<1>1. \A d \in Spared(w) : d \in View'
  BY LeavesView DEF KeepAt
<1>2. Spared(w)' = Spared(w)
  BY DEF GoesOn, Spared
<1>3. CASE op[w].kind = "deleteVersion" /\ pc'[w] \in DocLabels /\ Listed' = {}
  <2>1. View' = {}
    BY <1>3 DEF View
  <2>2. Spared(w)' = {}
    BY <1>1, <1>2, <2>1
  <2> QED BY <2>2 DEF KeepAt, GoesOn
<1>4. CASE ~(op[w].kind = "deleteVersion" /\ pc'[w] \in DocLabels /\ Listed' = {})
  <2>1. Mine(w)' \subseteq Mine(w)
    BY <1>4 DEF GoesOn, Mine
  <2> QED BY <1>1, <1>2, <2>1 DEF KeepAt, GoesOn
<1> QED BY <1>3, <1>4

LEMMA SameOpGoesOn ==
    ASSUME NEW w, op'[w] = op[w], MergeAt(w),
           op[w].kind = "deleteVersion" /\ pc'[w] \in DocLabels =>
               pc[w] \in DocLabels \/ Listed' = {},
           op[w].kind = "restore" =>
               /\ pc'[w] \in WritingLabels => pc[w] \in WritingLabels
               /\ pc'[w] \in DocLabels => ~op[w].existed
    PROVE  GoesOn(w)
BY DEF GoesOn, MergeAt

\* What the operation of w needs in order to leave the others alone holds at each of
\* its calls.
LEMMA StepGoesOn ==
    ASSUME LocalInv, ~May("unlisted", "remove_info"), NEW w \in Writers, lock = w,
           lock' = w, MergeAt(w), Step(w)
    PROVE  GoesOn(w)
<1> DEFINE o == op[w]
<1>1. /\ Makes(o, pc[w]) /\ ~Free(w) /\ lock' # NoWriter
      /\ pc \in [Writers -> Labels] /\ op \in [Writers -> Operations \cup {NoOp}]
  BY KindAt, NamesAssumption DEF LocalInv, ControlOK, Free
<1>2. \A e : ~Return(w, e) /\ ~Refuse(w, e) /\ \A n, label : ~Begin(w, n, label)
  BY <1>1 DEF Return, Refuse, Begin
<1>3. ASSUME NEW label, Goto(w, label) \/ \E e : GotoAfter(w, e, label)
      PROVE  pc'[w] = label /\ op'[w] = o
  BY <1>1, <1>3 DEF Goto, GotoAfter
<1>4. ASSUME NEW e, Rollback(w, e)
      PROVE  GoesOn(w)
  <2>1. op'[w] = o /\ pc'[w] \in {"remove_doc", "remove_dir", "undo_dirs"}
        /\ (o.kind = "restore" => pc'[w] = "undo_dirs")
        /\ o.kind # "deleteVersion"
    BY <1>1, <1>2, <1>4 DEF Rollback, GotoAfter
  <2> QED BY <2>1, SameOpGoesOn DEF DocLabels, WritingLabels
<1>5. CASE Create(w)
  <2>1. CASE MakeDirs(w)
    <3>1. op'[w] = o /\ o.kind = "create"
      BY <1>1, <1>3, <2>1, KindAt DEF MakeDirs
    <3> QED BY <3>1, SameOpGoesOn
  <2>2. CASE WriteCompany(w) \/ MakeMarker(w)
    <3>1. /\ op'[w] = o /\ o.kind \in {"create", "restore"}
          /\ o.kind = "restore" => /\ pc[w] \in DocLabels
                                   /\ pc'[w] \in {"restore_marker", "restore_next"}
      BY <1>1, <1>3, <2>2, KindAt DEF WriteCompany, MakeMarker, DocLabels
    <3> QED BY <3>1, SameOpGoesOn DEF MergeAt, WritingLabels
  <2> QED
    BY <1>2, <1>4, <1>5, <2>1, <2>2
    DEF Create, CreateExists, CreateBegin, MakeDirsFails, CreateFails
<1>6. CASE WriteVersion(w)
  <2>1. CASE WriteFile(w)
    <3>1. PICK f : op' = [op EXCEPT ![w].todo = @ \ {f}]
      BY <2>1 DEF WriteFile
    <3>2. op'[w] = [o EXCEPT !.todo = @ \ {f}]
      BY <1>1, <3>1
    <3>3. pc'[w] = pc[w] /\ pc[w] = "write_file"
      BY <2>1 DEF WriteFile
    <3>4. o \in CreateOp \cup AddOp \cup RestoreOp
      BY <1>1, <3>3 DEF Makes
    <3> QED
      BY <3>2, <3>3, <3>4
      DEF GoesOn, MergeAt, CreateOp, AddOp, RestoreOp, DocLabels, WritingLabels
  <2>2. CASE WriteFileDone(w)
    <3>1. op'[w] = o /\ pc'[w] = "write_info" /\ pc[w] = "write_file"
      BY <1>3, <2>2 DEF WriteFileDone
    <3> QED BY <3>1, SameOpGoesOn DEF DocLabels, WritingLabels
  <2>3. CASE WriteInfo(w)
    <3>1. CASE o.kind # "restore"
      <4>1. op'[w] = o /\ o.kind \in {"create", "add"}
        BY <1>3, <2>3, <3>1 DEF WriteInfo
      <4> QED BY <4>1, SameOpGoesOn
    <3>2. CASE o.kind = "restore"
      <4>1. /\ op' = [op EXCEPT ![w].saved = @ \cup {o.version}]
            /\ pc' = [pc EXCEPT ![w] = "restore_next"]
        BY <2>3, <3>2 DEF WriteInfo
      <4>2. op'[w] = [o EXCEPT !.saved = @ \cup {o.version}] /\ pc'[w] = "restore_next"
        BY <1>1, <4>1
      <4>3. o \in RestoreOp /\ o.version \in o.created
        BY <1>1, <2>3, <3>2, KindAt DEF WriteInfo, MergeAt, WritingLabels
      <4> QED
        BY <3>2, <4>2, <4>3 DEF GoesOn, MergeAt, RestoreOp, DocLabels, WritingLabels
    <3> QED BY <3>1, <3>2
  <2>4. CASE NotifyFails(w)
    <3>1. CASE Rollback(w, "failed")
      BY <1>4, <3>1
    <3>2. CASE o.kind = "add" /\ op' = [op EXCEPT ![w].target = o.base]
      <4>1. op'[w] = [o EXCEPT !.target = o.base] /\ o \in AddOp
        BY <1>1, <3>2, KindFacts DEF NoOp
      <4> QED BY <4>1 DEF GoesOn, MergeAt, AddOp
    <3> QED BY <2>4, <3>1, <3>2 DEF NotifyFails
  <2> QED
    BY <1>2, <1>4, <1>6, <2>1, <2>2, <2>3, <2>4
    DEF WriteVersion, WriteFileFails, WriteInfoRefused, WriteInfoFails, Notify
<1>7. CASE Add(w)
  <2>1. CASE MakeDir(w)
    <3>1. op'[w] = o /\ o.kind = "add"
      BY <1>1, <1>3, <2>1, KindAt DEF MakeDir
    <3> QED BY <3>1, SameOpGoesOn
  <2> QED
    BY <1>2, <1>4, <1>7, <2>1 DEF Add, AddNotFound, AddRefused, AddBegin, MakeDirExists
<1>8. CASE SetCompany(w)
  <2>1. ASSUME SetDone(w)
        PROVE  op'[w] = o
    BY <1>2, <1>3, <2>1 DEF SetDone
  <2>2. CASE SetUnmark(w) \/ SetCompanyId(w) \/ SetMark(w)
    <3>1. op'[w] = o /\ o.kind \in {"add", "setCompany"}
      BY <1>1, <1>3, <2>1, <2>2, KindAt DEF SetUnmark, SetCompanyId, SetMark
    <3> QED BY <3>1, SameOpGoesOn
  <2> QED
    BY <1>2, <1>4, <1>8, <2>2 DEF SetCompany, SetBegin, SetNotFound, SetFails
<1>9. CASE Remove(w)
  <2>1. ASSUME pc[w] \in DocLabels, op'[w] = o, pc'[w] \notin WritingLabels
        PROVE  GoesOn(w)
    BY <2>1, SameOpGoesOn DEF MergeAt
  <2>2. CASE RemoveMarker(w) \/ RemoveMarkerFails(w)
    <3>1. op'[w] = o /\ pc'[w] = "remove_doc" /\ pc[w] = "remove_marker"
      BY <1>2, <1>3, <2>2 DEF RemoveMarker, RemoveMarkerFails
    <3> QED BY <2>1, <3>1 DEF DocLabels, WritingLabels
  <2>3. CASE RemoveEntry(w)
    <3>1. op'[w] = o /\ pc'[w] = "remove_doc" /\ pc[w] = "remove_doc"
      BY <2>3 DEF RemoveEntry, control
    <3> QED BY <2>1, <3>1 DEF DocLabels, WritingLabels
  <2>4. CASE RemoveDoc(w) \/ RemoveDocFails(w)
    <3>1. op'[w] = o /\ pc'[w] \in {"undo_marker", "restore_dir"} /\ pc[w] = "remove_doc"
      BY <1>2, <1>3, <2>4 DEF RemoveDoc, RemoveDocFails, AfterRemoveDoc
    <3> QED BY <2>1, <3>1 DEF DocLabels, WritingLabels
  <2>5. CASE RemoveDir(w) \/ RemoveDirFails(w)
    <3>1. op'[w] = o /\ pc'[w] \in {"remove_dir", "remove_info"} /\ pc[w] = "remove_dir"
      BY <1>2, <1>3, <2>5 DEF RemoveDir, RemoveDirFails, control
    <3> QED BY <3>1, SameOpGoesOn DEF DocLabels, WritingLabels
  <2>6. CASE RemoveInfo(w)
    <3>1. /\ op'[w] = o /\ pc'[w] = "remove_marker" /\ o.kind = "deleteVersion"
          /\ Listed' = {}
      BY <1>2, <1>3, <2>6 DEF RemoveInfo
    <3> QED BY <3>1, SameOpGoesOn
  <2>7. CASE UndoMarker(w)
    <3>1. op'[w] = o /\ pc'[w] = "remove_doc" /\ pc[w] = "undo_marker"
      BY <1>2, <1>3, <2>7 DEF UndoMarker
    <3> QED BY <2>1, <3>1 DEF DocLabels, WritingLabels
  <2> QED
    BY <1>2, <1>9, <2>2, <2>3, <2>4, <2>5, <2>6, <2>7
    DEF Remove, DeleteNotFound, DeleteBegin, DeleteVersionNotFound, DeleteVersionBegin
<1>10. CASE Restore(w)
  <2>1. CASE RestoreDir(w)
    <3>1. op'[w] = o /\ pc'[w] = "restore_company" /\ pc[w] = "restore_dir"
          /\ o.kind = "restore"
      BY <1>1, <1>3, <2>1, KindAt DEF RestoreDir
    <3> QED BY <3>1, SameOpGoesOn DEF MergeAt, DocLabels, WritingLabels
  <2>2. CASE RestoreVersion(w)
    <3> DEFINE v == Min(o.left)
    <3>1. o \in RestoreOp /\ o.left \subseteq VersionsOf(o.backup) /\ o.kind = "restore"
      BY <1>1, <2>2, KindAt DEF RestoreVersion
    <3>2. v \in o.left
      BY <2>2, <3>1, NextVersionOfBackup DEF RestoreVersion
    <3>3. /\ op'[w] = [o EXCEPT !.left = @ \ {v}, !.created = @ \cup {v}, !.version = v,
                          !.prev = Predecessor(o.backup, v),
                          !.todo = o.backup.files[v], !.written = o.backup.files[v]]
          /\ pc'[w] = "write_file" /\ pc[w] = "restore_next"
      BY <1>1, <2>2 DEF RestoreVersion
    <3> HIDE DEF v
    <3>4. /\ op'[w].kind = "restore" /\ op'[w].recreate = o.recreate
          /\ op'[w].existed = o.existed /\ op'[w].left = o.left \ {v}
          /\ op'[w].created = o.created \cup {v} /\ op'[w].saved = o.saved
          /\ op'[w].version = v
      BY <3>1, <3>3 DEF RestoreOp
    <3> QED
      BY <3>1, <3>2, <3>3, <3>4 DEF GoesOn, MergeAt, DocLabels, WritingLabels
  <2>3. CASE UndoDirs(w)
    <3>1. o \in RestoreOp /\ o.kind = "restore" /\ pc[w] = "undo_dirs"
          /\ pc'[w] \in {"undo_dirs", "undo_infos"}
      BY <1>1, <1>3, <2>3, KindAt DEF UndoDirs, control
    <3>2. CASE op'[w] = o
      BY <3>1, <3>2, SameOpGoesOn DEF DocLabels, WritingLabels
    <3>3. ASSUME NEW v, op' = [op EXCEPT ![w].created = @ \ {v}]
          PROVE  GoesOn(w)
      <4>1. op'[w] = [o EXCEPT !.created = @ \ {v}]
        BY <1>1, <3>3
      <4> QED
        BY <3>1, <4>1 DEF GoesOn, MergeAt, RestoreOp, DocLabels, WritingLabels
    <3> QED BY <1>3, <2>3, <3>2, <3>3 DEF UndoDirs, control
  <2>4. CASE UndoInfos(w)
    <3>1. o \in RestoreOp /\ o.kind = "restore" /\ pc[w] = "undo_infos"
      BY <1>1, <2>4, KindAt DEF UndoInfos
    <3>2. CASE o.saved = {}
      <4>1. op'[w] = o /\ pc'[w] = "undo_marker" /\ ~o.existed
        BY <1>2, <1>3, <2>4, <3>2 DEF UndoInfos
      <4> QED BY <3>1, <4>1, SameOpGoesOn DEF WritingLabels
    <3>3. CASE o.saved # {}
      <4>1. PICK v : op' = [op EXCEPT ![w].saved = @ \ {v}] /\ pc' = pc
        BY <2>4, <3>3 DEF UndoInfos
      <4>2. op'[w] = [o EXCEPT !.saved = @ \ {v}]
        BY <1>1, <4>1
      <4> QED
        BY <3>1, <4>1, <4>2 DEF GoesOn, MergeAt, RestoreOp, DocLabels, WritingLabels
    <3> QED BY <3>2, <3>3
  <2> QED
    BY <1>2, <1>4, <1>10, <2>1, <2>2, <2>3, <2>4
    DEF Restore, RestoreBegin, RestoreDirFails, RestoreVersionFails, RestoreDone
<1> QED
  BY <1>2, <1>5, <1>6, <1>7, <1>8, <1>9, <1>10 DEF Step, Crash


\* An operation begins where nothing is under way, and spares the versions it finds.
LEMMA StepBegins ==
    ASSUME LocalInv, NEW w \in Writers, lock = NoWriter, seenDoc = View, seenDoc' = seenDoc,
           lock' = w, Step(w)
    PROVE  KeepAt(w)'
<1>1. /\ pc[w] = "idle" /\ lock' # NoWriter /\ lock' # lock
      /\ pc \in [Writers -> Labels] /\ op \in [Writers -> Operations \cup {NoOp}]
  BY NamesAssumption DEF LocalInv, ControlOK
<1>2. \A e : ~Return(w, e) /\ ~Refuse(w, e)
  BY <1>1 DEF Return, Refuse
<1>3. ASSUME NEW o, NEW label, Begin(w, o, label)
      PROVE  op'[w] = o /\ pc'[w] = label
  BY <1>1, <1>3 DEF Begin
<1>4. ASSUME NEW d \in View
      PROVE  d.version \in Listed
  BY <1>4 DEF View
<1>5. docDir = FALSE => View = {}
  BY DEF LocalInv, DiskOK, View, Listed
<1>6. View' = View
  BY <1>1, <1>2 DEF Step, Create, CreateBegin, MakeDirs, MakeDirsFails, WriteCompany,
     MakeMarker, CreateFails, WriteVersion, WriteFile, WriteFileFails, WriteFileDone,
     WriteInfo, WriteInfoRefused, WriteInfoFails, Notify, NotifyFails, Add, AddBegin,
     MakeDir, MakeDirExists, SetCompany, SetBegin, SetUnmark, SetCompanyId, SetMark, SetFails,
     Remove, DeleteBegin, DeleteVersionBegin, RemoveMarker, RemoveMarkerFails, RemoveEntry,
     RemoveDoc, RemoveDocFails, RemoveDir, RemoveDirFails, RemoveInfo, UndoMarker, Restore,
     RestoreBegin, RestoreDir, RestoreDirFails, RestoreVersion, RestoreVersionFails,
     RestoreDone, UndoDirs, UndoInfos, Crash, CreateExists, AddNotFound, AddRefused,
     SetNotFound, DeleteNotFound, DeleteVersionNotFound, disk, View, Listed
<1>7. \/ CreateBegin(w) \/ AddBegin(w) \/ SetBegin(w) \/ DeleteBegin(w)
      \/ DeleteVersionBegin(w) \/ RestoreBegin(w)
  BY <1>1, <1>2 DEF Step, Create, MakeDirs, MakeDirsFails, WriteCompany,
     MakeMarker, CreateFails, WriteVersion, WriteFile, WriteFileFails, WriteFileDone,
     WriteInfo, WriteInfoRefused, WriteInfoFails, Notify, NotifyFails, Add,
     MakeDir, MakeDirExists, SetCompany, SetUnmark, SetCompanyId, SetMark, SetFails,
     Remove, RemoveMarker, RemoveMarkerFails, RemoveEntry,
     RemoveDoc, RemoveDocFails, RemoveDir, RemoveDirFails, RemoveInfo, UndoMarker, Restore,
     RestoreDir, RestoreDirFails, RestoreVersion, RestoreVersionFails,
     RestoreDone, UndoDirs, UndoInfos, Crash, CreateExists, AddNotFound, AddRefused,
     SetNotFound, DeleteNotFound, DeleteVersionNotFound
<1>8. CASE CreateBegin(w)
  <2>1. docDir = FALSE /\ op'[w].kind = "create"
    BY <1>3, <1>8 DEF CreateBegin, LocalInv, DiskOK
  <2> QED BY <1>5, <2>1 DEF KeepAt, Spared, MergeAt
<1>9. CASE AddBegin(w)
  <2>1. PICK latest \in Listed, v \in Versions :
          /\ IsLatest(latest) /\ v > latest
          /\ op'[w].kind = "add" /\ op'[w].version = v
    BY <1>3, <1>9 DEF AddBegin
  <2>2. \A u \in Listed : u # v
    <3>1. Listed \subseteq Nat /\ v \in Nat /\ latest \in Nat
      BY VersionsAssumption DEF Listed, LocalInv, DiskOK
    <3> QED BY <2>1, <3>1 DEF IsLatest
  <2>3. Mine(w)' \subseteq {v}
    BY <2>1 DEF Mine
  <2> QED BY <1>4, <1>6, <2>1, <2>2, <2>3 DEF KeepAt, Spared, MergeAt
<1>10. CASE SetBegin(w)
  <2>1. op'[w].kind = "setCompany"
    BY <1>3, <1>10 DEF SetBegin
  <2>2. Mine(w)' = {}
    BY <2>1 DEF Mine
  <2> QED BY <1>6, <2>1, <2>2 DEF KeepAt, Spared, MergeAt
<1>11. CASE DeleteBegin(w)
  <2>1. op'[w].kind = "delete"
    BY <1>3, <1>11 DEF DeleteBegin
  <2> QED BY <2>1 DEF KeepAt, Spared, MergeAt
<1>12. CASE DeleteVersionBegin(w)
  <2>1. op'[w].kind = "deleteVersion" /\ pc'[w] = "remove_dir"
    BY <1>3, <1>12 DEF DeleteVersionBegin
  <2>2. Mine(w)' \subseteq {op'[w].version}
    BY <2>1 DEF Mine, DocLabels
  <2> QED BY <1>6, <2>1, <2>2 DEF KeepAt, Spared, MergeAt
<1>13. CASE RestoreBegin(w)
  <2>1. PICK backup \in Backups, recreate \in BOOLEAN :
          LET merge == docDir /\ ~recreate
              o == RestoreCall(backup, recreate)
          IN \/ Begin(w, o, "remove_marker") /\ ~merge
             \/ Begin(w, o, "restore_next") /\ merge
             \/ Begin(w, o, "restore_dir") /\ ~merge
             \/ Refuse(w, "failed")
    BY <1>13 DEF RestoreBegin
  <2> DEFINE merge == docDir /\ ~recreate
             left == IF merge THEN VersionsOf(backup) \ Listed ELSE VersionsOf(backup)
  <2>0. docDir \in BOOLEAN
    BY DEF LocalInv, DiskOK
  <2>2. /\ op'[w].kind = "restore" /\ op'[w].recreate = recreate
        /\ op'[w].existed = merge /\ op'[w].left = left
        /\ op'[w].created = {} /\ op'[w].saved = {}
        /\ pc'[w] \in {"remove_marker", "restore_next", "restore_dir"}
        /\ merge => pc'[w] = "restore_next"
    <3>1. op'[w] = RestoreCall(backup, recreate)
          /\ pc'[w] \in {"remove_marker", "restore_next", "restore_dir"}
          /\ (merge => pc'[w] = "restore_next")
      BY <1>2, <1>3, <2>1
    <3> QED BY <3>1 DEF RestoreCall
  <2>3. op'[w].existed => Mine(w)' \cap Listed = {}
    BY <2>2 DEF Mine
  <2>4. MergeAt(w)'
    BY <2>2 DEF MergeAt, DocLabels, WritingLabels
  <2>5. ~op'[w].existed => Spared(w)' = {}
    BY <1>5, <2>0, <2>2 DEF Spared
  <2>6. \A d \in Spared(w)' : d \in View
    BY DEF Spared
  <2>7. \A d \in Spared(w)' : d.version \notin Mine(w)'
    BY <1>4, <2>3, <2>5, <2>6
  <2> QED BY <1>6, <2>4, <2>6, <2>7 DEF KeepAt
<1> QED
  BY <1>7, <1>8, <1>9, <1>10, <1>11, <1>12, <1>13

LEMMA KeepInvStep ==
    ASSUME ~May("unlisted", "remove_info"), LocalInv, KeepInv, [AtomicNext]_auxVars
    PROVE  KeepInv'
<1>1. CASE UNCHANGED auxVars
  BY <1>1 DEF auxVars, vars, disk, control, seen, KeepInv, KeepAt, MergeAt, Spared, Mine,
              View, Listed
<1>2. ASSUME NEW w \in Writers, Step(w), NextSeen(w)
      PROVE  KeepInv'
  <2>1. KeepsControl(w)
    BY <1>2, StepKeepsControl
  <2>2. CASE lock' = NoWriter
    <3>1. seenDoc' = View'
      BY <1>2, <2>2 DEF NextSeen
    <3> QED BY <2>2, <3>1, NamesAssumption DEF KeepInv
  <2>3. CASE lock' = w
    <3>1. seenDoc' = seenDoc /\ lock' # NoWriter
      BY <1>2, <2>3, NamesAssumption DEF NextSeen, seen
    <3>2. CASE lock = w
      <4>1. KeepAt(w)
        BY <3>2 DEF KeepInv
      <4>2. KeepAt(w)'
        BY <1>2, <2>3, <3>1, <3>2, <4>1, StepLeaves, StepGoesOn, GoesOnKeeps DEF KeepAt
      <4> QED BY <2>3, <3>1, <4>2 DEF KeepInv
    <3>3. CASE lock = NoWriter
      <4>1. KeepAt(w)'
        BY <1>2, <2>3, <3>1, <3>3, StepBegins DEF KeepInv
      <4> QED BY <2>3, <3>1, <4>1 DEF KeepInv
    <3> QED BY <2>1, <3>2, <3>3 DEF KeepsControl
  <2> QED BY <2>1, <2>2, <2>3 DEF KeepsControl
<1> QED
  BY <1>1, <1>2 DEF AtomicNext

\* Whatever fails or crashes, in rollbacks as well, and whatever directories crashes left
\* behind, an operation of conn.go leaves the versions that it was not called to delete,
\* as long as DeleteDocumentVersion can list the versions that are left (conn.go:562).
THEOREM OtherVersionsKept ==
    ASSUME ~May("unlisted", "remove_info")
    PROVE  AtomicSpec => KeepsOtherVersions
<1> DEFINE Kept ==
        \A w \in Writers : lock = w /\ lock' = NoWriter =>
            \A d \in seenDoc :
                \/ d \in View'
                \/ op[w].kind = "delete"
                \/ op[w].kind = "restore" /\ op[w].recreate
                \/ op[w].kind = "deleteVersion" /\ op[w].version = d.version
<1>1. AtomicInit => KeepInv
  BY NamesAssumption DEF AtomicInit, Init, InitSeen, KeepInv
<1>2. LocalInv /\ KeepInv /\ [AtomicNext]_auxVars => KeepInv'
  BY KeepInvStep
<1>3. LocalInv /\ KeepInv /\ [AtomicNext]_auxVars => [Kept]_auxVars
  <2> SUFFICES ASSUME LocalInv, KeepInv, AtomicNext,
                      NEW w \in Writers, lock = w, lock' = NoWriter,
                      NEW d \in seenDoc, d \in Spared(w)
               PROVE  d \in View'
    BY DEF Spared
  <2>1. PICK u \in Writers : Step(u) /\ NextSeen(u)
    BY DEF AtomicNext
  <2>2. u = w
    BY <2>1, StepKeepsControl, NamesAssumption DEF KeepsControl
  <2>3. KeepAt(w)
    BY DEF KeepInv
  <2>4. Leaves(Mine(w))
    BY <2>1, <2>2, <2>3, StepLeaves DEF KeepAt
  <2> QED BY <2>3, <2>4, LeavesView DEF KeepAt
<1> QED
  BY <1>1, <1>2, <1>3, LocalInvAlways, PTL DEF AtomicSpec, KeepsOtherVersions

=============================================================================
