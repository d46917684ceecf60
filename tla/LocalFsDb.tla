----------------------------- MODULE LocalFsDb -----------------------------
(***************************************************************************)
(* The local file system Conn (localfsdb/conn.go) over one document: the   *)
(* document's directory, with a directory and a JSON file per version and  *)
(* the file company.id, and a marker directory per company.                *)
(*                                                                         *)
(* Every operation that writes holds the document's mutex from its first   *)
(* look at the disk until it returns, its deferred rollback included.      *)
(* Every call that changes the disk is a step, so that readers, who take   *)
(* no lock, and a crash can see each state in between.  A step is named by *)
(* its label in pc; "Faults" says what may go wrong, as <<kind, label>>:   *)
(*   "fails"   the call returns an error                                   *)
(*   "crash"   the process dies before making the call                     *)
(*   "unlisted"  the versions that are left cannot be listed               *)
(***************************************************************************)
EXTENDS HashedDocument, Functions

CONSTANTS Versions, Companies,
          Writers,   \* goroutines of the process
          Ops,       \* the operations they call
          Backups,   \* the HashedDocuments they restore
          Faults     \* the faults that may happen

OpKinds == {"create", "add", "delete", "deleteVersion", "setCompany", "restore"}

\* The calls that create, those that remove, and the two callbacks' place.
WriteLabels == {"make_dirs", "write_company", "make_marker", "make_dir", "write_file",
                "write_info", "set_unmark", "set_company", "set_mark",
                "restore_dir", "restore_company", "restore_marker"}
RemoveLabels == {"remove_marker", "remove_doc", "remove_dir", "remove_info",
                 "undo_marker", "undo_dirs", "undo_infos"}
Labels == {"idle", "notify", "restore_next"} \cup WriteLabels \cup RemoveLabels

ASSUME VersionsAssumption == Versions \subseteq Nat \ {0}
ASSUME OpsAssumption == Ops \subseteq OpKinds
ASSUME FaultsAssumption == Faults \subseteq {"fails", "crash", "unlisted"} \X Labels
ASSUME BackupsAssumption == \A backup \in Backups :
    /\ IsValid(backup)
    /\ backup.company \in Companies
    /\ VersionsOf(backup) \subseteq Versions
    /\ \A v \in VersionsOf(backup) : backup.files[v] \in FileMaps

VARIABLES
    docDir,     \* the document's directory exists
    dirs,       \* per version directory: the files in it
    infos,      \* per version info file: the VersionInfo in it
    companyId,  \* the content of company.id
    markers,    \* the companies with a marker directory for the document
    lock,       \* who holds the document's mutex
    pc,         \* per writer: the call it makes next
    op,         \* per writer: the operation it runs, with its local variables
    err         \* per writer: result of the operation, so far or at its end

disk == <<docDir, dirs, infos, companyId, markers>>
control == <<lock, pc, op, err>>
vars == <<disk, control>>

NoCompany == "no company"
NoWriter == "no writer"
NoOp == [kind |-> "none"]
Empty == [v \in {} |-> {}]

ASSUME NamesAssumption == NoCompany \notin Companies /\ NoWriter \notin Writers

Info == [company : Companies, prev : Versions \cup {NoVersion}, files : FileMaps,
         added : SUBSET Names, removed : SUBSET Names, modified : SUBSET Names]

TypeOK ==
    /\ docDir \in BOOLEAN
    /\ DOMAIN dirs \subseteq Versions /\ Range(dirs) \subseteq FileMaps
    /\ DOMAIN infos \subseteq Versions /\ Range(infos) \subseteq Info
    /\ companyId \in Companies \cup {NoCompany}
    /\ markers \subseteq Companies
    /\ ~docDir => DOMAIN dirs = {} /\ DOMAIN infos = {} /\ companyId = NoCompany
    /\ lock \in Writers \cup {NoWriter}
    /\ pc \in [Writers -> Labels]
    /\ \A w \in Writers :
        /\ op[w].kind \in OpKinds \cup {"none"}
        /\ err[w] \in {"ok", "failed", "exists", "notFound", "noChanges", "crashed"}

Init ==
    /\ docDir = FALSE
    /\ dirs = Empty
    /\ infos = Empty
    /\ companyId = NoCompany
    /\ markers = {}
    /\ lock = NoWriter
    /\ pc = [w \in Writers |-> "idle"]
    /\ op = [w \in Writers |-> NoOp]
    /\ err = [w \in Writers |-> "ok"]

----------------------------------------------------------------------------
(* Directories and steps shared by the operations.                         *)

May(kind, label) == <<kind, label>> \in Faults

With(f, v, x) == [u \in DOMAIN f \cup {v} |-> IF u = v THEN x ELSE f[u]]

Without(f, v) == Restrict(f, DOMAIN f \ {v})

\* The files in a version's directory; none if there is no such directory.
FilesIn(v) == IF v \in DOMAIN dirs THEN dirs[v] ELSE {}

\* enumVersionDirs: version directories that have an info file.
Listed == DOMAIN dirs \cap DOMAIN infos

IsLatest(v) == v \in Listed /\ \A u \in Listed : u <= v

Free(w) == pc[w] = "idle" /\ lock = NoWriter

\* The mutex is taken and the operation o goes to its first call.
Begin(w, o, label) ==
    /\ Free(w)
    /\ lock' = w
    /\ pc' = [pc EXCEPT ![w] = label]
    /\ op' = [op EXCEPT ![w] = o]
    /\ err' = [err EXCEPT ![w] = "ok"]

\* The operation returns and the mutex is released.
Return(w, e) ==
    /\ lock' = NoWriter
    /\ pc' = [pc EXCEPT ![w] = "idle"]
    /\ op' = [op EXCEPT ![w] = NoOp]
    /\ err' = [err EXCEPT ![w] = e]

\* The operation returns at once.
Refuse(w, e) == Free(w) /\ Return(w, e) /\ UNCHANGED disk

Goto(w, label) ==
    /\ pc' = [pc EXCEPT ![w] = label]
    /\ UNCHANGED <<lock, op, err>>

\* The operation goes on after a failure e, or the first failure is kept.
GotoAfter(w, e, label) ==
    /\ pc' = [pc EXCEPT ![w] = label]
    /\ err' = [err EXCEPT ![w] = IF @ = "ok" THEN e ELSE @]
    /\ UNCHANGED <<lock, op>>

\* Mutation of Rollback: the mutex is released before the deferred rollback.
RollbackUnlocked(w, e) ==
    /\ pc' = [pc EXCEPT ![w] = CASE op[w].kind = "create"     -> "remove_doc"
                                  [] op[w].kind = "add"        -> "remove_dir"
                                  [] op[w].kind = "restore"    -> "undo_dirs"
                                  [] op[w].kind = "setCompany" -> "idle"]
    /\ err' = [err EXCEPT ![w] = e]
    /\ lock' = NoWriter
    /\ UNCHANGED op

\* An operation fails: its deferred rollback runs, with the mutex held.
Rollback(w, e) ==
    \/ op[w].kind = "create" /\ GotoAfter(w, e, "remove_doc")
    \/ op[w].kind = "add" /\ GotoAfter(w, e, "remove_dir")
    \/ op[w].kind = "restore" /\ GotoAfter(w, e, "undo_dirs")
    \/ op[w].kind = "setCompany" /\ Return(w, e)

----------------------------------------------------------------------------
(* CreateDocument; RestoreDocument creates a document in the same way, but *)
(* without a version and before its rollback is registered.                *)

CreateExists(w) == "create" \in Ops /\ docDir /\ Refuse(w, "exists")

CreateBegin(w) ==
    /\ "create" \in Ops
    /\ ~docDir
    /\ \E v \in Versions, c \in Companies, files \in FileMaps \ {{}} :
        Begin(w, [kind |-> "create", version |-> v, prev |-> NoVersion,
                  company |-> c, todo |-> files, written |-> files], "make_dirs")
    /\ UNCHANGED disk

\* MakeAllDirs of the version's directory makes the document's on the way.
MakeDirs(w) ==
    /\ pc[w] = "make_dirs"
    /\ docDir' = TRUE
    /\ dirs' = With(dirs, op[w].version, {})
    /\ Goto(w, "write_company")
    /\ UNCHANGED <<infos, companyId, markers>>

MakeDirsFails(w) ==
    /\ pc[w] = "make_dirs"
    /\ May("fails", "make_dirs")
    /\ docDir' \in BOOLEAN
    /\ Rollback(w, "failed")
    /\ UNCHANGED <<dirs, infos, companyId, markers>>

WriteCompany(w) ==
    /\ \/ pc[w] = "write_company" /\ Goto(w, "make_marker")
       \/ pc[w] = "restore_company" /\ Goto(w, "restore_marker")
    /\ companyId' = op[w].company
    /\ UNCHANGED <<docDir, dirs, infos, markers>>

MakeMarker(w) ==
    /\ \/ pc[w] = "make_marker" /\ Goto(w, "write_file")
       \/ pc[w] = "restore_marker" /\ Goto(w, "restore_next")
    /\ markers' = markers \cup {op[w].company}
    /\ UNCHANGED <<docDir, dirs, infos, companyId>>

CreateFails(w) ==
    /\ May("fails", pc[w])
    /\ \/ /\ pc[w] = "write_company"
          /\ companyId' \in {companyId, op[w].company}
          /\ UNCHANGED markers
       \/ pc[w] = "make_marker" /\ UNCHANGED <<companyId, markers>>
    /\ Rollback(w, "failed")
    /\ UNCHANGED <<docDir, dirs, infos>>

----------------------------------------------------------------------------
(* The files of a version are copied into its directory, then the info is  *)
(* computed from the directory and written.                                *)

\* The files of the directory d with f in it, over one of the same name.
WithFile(d, f) == [dirs EXCEPT ![d] = CarryForward(@, {}, {f})]

\* A written file comes from the caller, another from the previous version.
WriteFile(w) ==
    /\ pc[w] = "write_file"
    /\ \E f \in op[w].todo :
        /\ f \in op[w].written \cup FilesIn(op[w].prev)
        /\ dirs' = WithFile(op[w].version, f)
        /\ op' = [op EXCEPT ![w].todo = @ \ {f}]
    /\ UNCHANGED <<docDir, infos, companyId, markers, lock, pc, err>>

WriteFileFails(w) ==
    /\ pc[w] = "write_file"
    /\ \E f \in op[w].todo :
        \/ /\ May("fails", "write_file")
           /\ dirs' \in {dirs, WithFile(op[w].version, f)}
        \/ f \notin op[w].written \cup FilesIn(op[w].prev) /\ UNCHANGED dirs
    /\ Rollback(w, "failed")
    /\ UNCHANGED <<docDir, infos, companyId, markers>>

WriteFileDone(w) ==
    /\ pc[w] = "write_file"
    /\ op[w].todo = {}
    /\ Goto(w, "write_info")
    /\ UNCHANGED disk

\* newVersionInfo: the files of the directory, against the previous one.
NewInfo(c, prev, files) ==
    LET old == FilesIn(prev)
    IN [company |-> c, prev |-> prev, files |-> files, added |-> AddedNames(old, files),
        removed |-> RemovedNames(old, files), modified |-> ModifiedNames(old, files)]

\* AddDocumentVersion refuses a version without files, or without a change.
IsRefusedInfo(o, files) ==
    o.kind = "add" /\ (files = {} \/ files = infos[o.prev].files)

\* Mutation of Written: a restored version gets the info that is in the backup.
WrittenFromBackup(o) ==
    With(infos, o.version,
         NewInfo(o.company, o.prev,
                 IF o.kind = "restore" THEN o.written ELSE FilesIn(o.version)))

\* The info files, with the info of the operation o written.
Written(o) == With(infos, o.version, NewInfo(o.company, o.prev, FilesIn(o.version)))

WriteInfo(w) ==
    /\ pc[w] = "write_info"
    /\ LET o == op[w]
       IN /\ ~IsRefusedInfo(o, FilesIn(o.version))
          /\ infos' = Written(o)
          /\ \/ o.kind = "create" /\ Goto(w, "notify")
             \/ /\ o.kind = "add"
                /\ Goto(w, IF o.company = o.base THEN "notify" ELSE "set_unmark")
             \/ /\ o.kind = "restore"
                /\ pc' = [pc EXCEPT ![w] = "restore_next"]
                /\ op' = [op EXCEPT ![w].saved = @ \cup {o.version}]
                /\ UNCHANGED <<lock, err>>
    /\ UNCHANGED <<docDir, dirs, companyId, markers>>

WriteInfoRefused(w) ==
    /\ pc[w] = "write_info"
    /\ IsRefusedInfo(op[w], FilesIn(op[w].version))
    /\ Rollback(w, IF FilesIn(op[w].version) = {} THEN "failed" ELSE "noChanges")
    /\ UNCHANGED disk

WriteInfoFails(w) ==
    /\ pc[w] = "write_info"
    /\ May("fails", "write_info")
    /\ \/ UNCHANGED infos
       \/ ~IsRefusedInfo(op[w], FilesIn(op[w].version)) /\ infos' = Written(op[w])
    /\ Rollback(w, "failed")
    /\ UNCHANGED <<docDir, dirs, companyId, markers>>

----------------------------------------------------------------------------
(* AddDocumentVersion                                                      *)

\* The document's directory, or a version in it, is missing.
AddNotFound(w) == "add" \in Ops /\ Listed = {} /\ Refuse(w, "notFound")

\* createVersion fails or panics, or its result is not valid.
AddRefused(w) == "add" \in Ops /\ Listed # {} /\ Refuse(w, "failed")

\* The latest version is read and createVersion returns the new version v,
\* which goes to the company c (the latest info's company if it names none).
AddBegin(w) ==
    /\ "add" \in Ops
    /\ \E latest \in Listed, v \in Versions, c \in Companies, written \in FileMaps,
          removed \in SUBSET Names :
        /\ IsLatest(latest)
        /\ v > latest
        /\ NamesOf(written) \cap removed = {}
        /\ Begin(w, [kind |-> "add", version |-> v, prev |-> latest,
                     company |-> c, base |-> infos[latest].company, target |-> c,
                     todo |-> CarryForward(infos[latest].files, removed, written),
                     written |-> written], "make_dir")
    /\ UNCHANGED disk

MakeDir(w) ==
    /\ pc[w] = "make_dir"
    /\ op[w].version \notin DOMAIN dirs
    /\ dirs' = With(dirs, op[w].version, {})
    /\ Goto(w, "write_file")
    /\ UNCHANGED <<docDir, infos, companyId, markers>>

\* The directory is there, from a crash: the rollback removes it.
MakeDirExists(w) ==
    /\ pc[w] = "make_dir"
    /\ \/ op[w].version \in DOMAIN dirs
       \/ May("fails", "make_dir")
    /\ Rollback(w, "failed")
    /\ UNCHANGED disk

----------------------------------------------------------------------------
(* setDocumentCompanyID, as an operation of its own, as the last step of   *)
(* AddDocumentVersion, and to undo that step.                              *)

SetBegin(w) ==
    /\ "setCompany" \in Ops
    /\ docDir
    /\ \E c \in Companies : Begin(w, [kind |-> "setCompany", target |-> c], "set_unmark")
    /\ UNCHANGED disk

SetNotFound(w) == "setCompany" \in Ops /\ ~docDir /\ Refuse(w, "notFound")

\* Where the operation goes on when the company is set.
SetDone(w) ==
    \/ op[w].kind = "setCompany" /\ Return(w, "ok")
    \/ op[w].kind = "add" /\ Goto(w, IF err[w] = "ok" THEN "notify" ELSE "remove_dir")

\* Mutation of SetUnmark: the old company keeps its marker.
SetUnmarkKeepsMarker(w) ==
    /\ pc[w] = "set_unmark"
    /\ companyId # NoCompany
    /\ UNCHANGED markers
    /\ IF companyId = op[w].target THEN SetDone(w) ELSE Goto(w, "set_company")
    /\ UNCHANGED <<docDir, dirs, infos, companyId>>

\* With the same company only the marker is made if it is missing.
SetUnmark(w) ==
    /\ pc[w] = "set_unmark"
    /\ companyId # NoCompany
    /\ IF companyId = op[w].target
       THEN markers' = markers \cup {companyId} /\ SetDone(w)
       ELSE markers' = markers \ {companyId} /\ Goto(w, "set_company")
    /\ UNCHANGED <<docDir, dirs, infos, companyId>>

SetCompanyId(w) ==
    /\ pc[w] = "set_company"
    /\ companyId' = op[w].target
    /\ Goto(w, "set_mark")
    /\ UNCHANGED <<docDir, dirs, infos, markers>>

SetMark(w) ==
    /\ pc[w] = "set_mark"
    /\ markers' = markers \cup {op[w].target}
    /\ SetDone(w)
    /\ UNCHANGED <<docDir, dirs, infos, companyId>>

\* company.id is missing, or a call fails.
SetFails(w) ==
    /\ pc[w] \in {"set_unmark", "set_company", "set_mark"}
    /\ \/ pc[w] = "set_unmark" /\ companyId = NoCompany /\ UNCHANGED companyId
       \/ May("fails", pc[w]) /\ UNCHANGED companyId
       \/ pc[w] = "set_company" /\ May("fails", pc[w]) /\ companyId' = op[w].target
    /\ Rollback(w, "failed")
    /\ UNCHANGED <<docDir, dirs, infos, markers>>

----------------------------------------------------------------------------
(* The callback onNewVersion; a panic is recovered and is its error.       *)

Notify(w) ==
    /\ pc[w] = "notify"
    /\ Return(w, "ok")
    /\ UNCHANGED disk

\* A change of the company is undone first: to the latest info's company.
NotifyFails(w) ==
    /\ pc[w] = "notify"
    /\ May("fails", "notify")
    /\ IF op[w].kind = "add" /\ op[w].company # op[w].base
       THEN /\ pc' = [pc EXCEPT ![w] = "set_unmark"]
            /\ op' = [op EXCEPT ![w].target = op[w].base]
            /\ err' = [err EXCEPT ![w] = "failed"]
            /\ UNCHANGED lock
       ELSE Rollback(w, "failed")
    /\ UNCHANGED disk

----------------------------------------------------------------------------
(* Removals.  A directory is removed recursively, entry by entry in any    *)
(* order.                                                                  *)

DeleteNotFound(w) == "delete" \in Ops /\ ~docDir /\ Refuse(w, "notFound")

DeleteBegin(w) ==
    /\ "delete" \in Ops
    /\ docDir
    /\ Begin(w, [kind |-> "delete"], "remove_marker")
    /\ UNCHANGED disk

DeleteVersionNotFound(w) ==
    /\ "deleteVersion" \in Ops
    /\ Versions \ DOMAIN dirs # {}
    /\ Refuse(w, "notFound")

DeleteVersionBegin(w) ==
    /\ "deleteVersion" \in Ops
    /\ \E v \in DOMAIN dirs : Begin(w, [kind |-> "deleteVersion", version |-> v], "remove_dir")
    /\ UNCHANGED disk

\* The marker of the document's company: a missing company.id is an error,
\* a missing marker may be one.  A recreating restore stops at an error, the
\* deletes go on to the document's directory.
RemoveMarker(w) ==
    /\ pc[w] = "remove_marker"
    /\ markers' = markers \ {companyId}
    /\ \/ companyId # NoCompany /\ Goto(w, "remove_doc")
       \/ /\ companyId \notin markers
          /\ IF op[w].kind = "restore"
             THEN Return(w, "failed") ELSE GotoAfter(w, "failed", "remove_doc")
    /\ UNCHANGED <<docDir, dirs, infos, companyId>>

\* company.id cannot be read, or the marker cannot be removed.
RemoveMarkerFails(w) ==
    /\ pc[w] = "remove_marker"
    /\ May("fails", "remove_marker")
    /\ IF op[w].kind = "restore"
       THEN Return(w, "failed") ELSE GotoAfter(w, "failed", "remove_doc")
    /\ UNCHANGED disk

\* The document's directory is gone, or cannot be removed.
AfterRemoveDoc(w, e) ==
    \/ op[w].kind \in {"delete", "deleteVersion"} /\ Return(w, e)
    \/ op[w].kind = "create" /\ Goto(w, "undo_marker")
    \/ /\ op[w].kind = "restore"
       /\ IF e = "ok" THEN Goto(w, "restore_dir") ELSE Return(w, e)

\* One entry of the document's directory.
RemoveEntry(w) ==
    /\ pc[w] = "remove_doc"
    /\ \/ /\ \E v \in DOMAIN dirs :
             \/ \E f \in dirs[v] : dirs' = [dirs EXCEPT ![v] = @ \ {f}]
             \/ dirs[v] = {} /\ dirs' = Without(dirs, v)
          /\ UNCHANGED <<infos, companyId>>
       \/ /\ \E v \in DOMAIN infos : infos' = Without(infos, v)
          /\ UNCHANGED <<dirs, companyId>>
       \/ /\ companyId # NoCompany
          /\ companyId' = NoCompany
          /\ UNCHANGED <<dirs, infos>>
    /\ UNCHANGED <<docDir, markers, control>>

\* Mutation of RemoveDoc: company.id survives.
RemoveDocKeepsCompany(w) ==
    /\ pc[w] = "remove_doc"
    /\ DOMAIN dirs = {} /\ DOMAIN infos = {}
    /\ docDir' = FALSE
    /\ AfterRemoveDoc(w, err[w])
    /\ UNCHANGED <<dirs, infos, companyId, markers>>

RemoveDoc(w) ==
    /\ pc[w] = "remove_doc"
    /\ DOMAIN dirs = {} /\ DOMAIN infos = {} /\ companyId = NoCompany
    /\ docDir' = FALSE
    /\ AfterRemoveDoc(w, err[w])
    /\ UNCHANGED <<dirs, infos, companyId, markers>>

RemoveDocFails(w) ==
    /\ pc[w] = "remove_doc"
    /\ May("fails", "remove_doc")
    /\ AfterRemoveDoc(w, IF err[w] = "ok" THEN "failed" ELSE err[w])
    /\ UNCHANGED disk

\* The directory of the version that is deleted or rolled back, then its info.
RemoveDir(w) ==
    /\ pc[w] = "remove_dir"
    /\ \/ /\ \E f \in FilesIn(op[w].version) :
                dirs' = [dirs EXCEPT ![op[w].version] = @ \ {f}]
          /\ UNCHANGED control
       \/ /\ FilesIn(op[w].version) = {}
          /\ dirs' = Without(dirs, op[w].version)
          /\ Goto(w, "remove_info")
    /\ UNCHANGED <<docDir, infos, companyId, markers>>

\* DeleteDocumentVersion returns the error, a rollback goes on.
RemoveDirFails(w) ==
    /\ pc[w] = "remove_dir"
    /\ May("fails", "remove_dir")
    /\ \/ op[w].kind = "add" /\ Goto(w, "remove_info")
       \/ op[w].kind = "deleteVersion" /\ Return(w, "failed")
    /\ UNCHANGED disk

\* With its last version the document goes; also if the versions that are left
\* cannot be listed.
RemoveInfo(w) ==
    /\ pc[w] = "remove_info"
    /\ infos' \in {Without(infos, op[w].version)} \cup
                  (IF May("fails", "remove_info") THEN {infos} ELSE {})
    /\ UNCHANGED <<docDir, dirs, companyId, markers>>
    /\ \/ op[w].kind = "add" /\ Return(w, err[w])
       \/ /\ op[w].kind = "deleteVersion"
          /\ \E listed \in BOOLEAN :
                LET e == IF listed /\ op[w].version \notin DOMAIN infos'
                         THEN "ok" ELSE "failed"
                IN /\ listed \/ May("unlisted", "remove_info")
                   /\ IF listed /\ Listed' # {}
                      THEN Return(w, e) ELSE GotoAfter(w, e, "remove_marker")

\* The rollback of CreateDocument ends with the marker; that of RestoreDocument
\* goes on from it to the document's directory.
UndoMarker(w) ==
    /\ pc[w] = "undo_marker"
    /\ \/ markers' = markers \ {op[w].company}
       \/ May("fails", "undo_marker") /\ UNCHANGED markers
    /\ \/ op[w].kind = "create" /\ Return(w, err[w])
       \/ op[w].kind = "restore" /\ Goto(w, "remove_doc")
    /\ UNCHANGED <<docDir, dirs, infos, companyId>>

----------------------------------------------------------------------------
(* RestoreDocument                                                         *)

\* What RestoreDocument holds when it has looked at the document: the versions it
\* has to write, those the document does not have yet if it merges into it.
RestoreCall(backup, recreate) ==
    LET merge == docDir /\ ~recreate
    IN [kind |-> "restore", backup |-> backup, recreate |-> recreate,
        company |-> backup.company, existed |-> merge,
        left |-> IF merge THEN VersionsOf(backup) \ Listed ELSE VersionsOf(backup),
        created |-> {}, saved |-> {},
        version |-> NoVersion, prev |-> NoVersion, todo |-> {}, written |-> {}]

RestoreBegin(w) ==
    /\ "restore" \in Ops
    /\ \E backup \in Backups, recreate \in BOOLEAN :
        LET merge == docDir /\ ~recreate
            o == RestoreCall(backup, recreate)
        IN \/ docDir /\ recreate /\ companyId # NoCompany /\ Begin(w, o, "remove_marker")
           \/ docDir /\ recreate /\ companyId = NoCompany /\ Refuse(w, "failed")
           \/ merge /\ companyId = backup.company /\ Begin(w, o, "restore_next")
           \/ merge /\ companyId # backup.company /\ Refuse(w, "failed")
           \/ ~docDir /\ Begin(w, o, "restore_dir")
    /\ UNCHANGED disk

RestoreDir(w) ==
    /\ pc[w] = "restore_dir"
    /\ docDir' = TRUE
    /\ Goto(w, "restore_company")
    /\ UNCHANGED <<dirs, infos, companyId, markers>>

\* No rollback is registered yet.
RestoreDirFails(w) ==
    /\ pc[w] \in {"restore_dir", "restore_company", "restore_marker"}
    /\ May("fails", pc[w])
    /\ Return(w, "failed")
    /\ UNCHANGED disk

\* The earliest version that is left gets its directory.  MakeDir is content with
\* the directory that a crash or a failed rollback left behind, and with what is
\* in it: those files become files of the version.
RestoreVersion(w) ==
    /\ pc[w] = "restore_next"
    /\ op[w].left # {}
    /\ LET o == op[w]
           v == Min(o.left)
       IN /\ dirs' = With(dirs, v, FilesIn(v))
          /\ op' = [op EXCEPT ![w] =
                [o EXCEPT !.left = @ \ {v}, !.created = @ \cup {v}, !.version = v,
                          !.prev = Predecessor(o.backup, v),
                          !.todo = o.backup.files[v], !.written = o.backup.files[v]]]
    /\ pc' = [pc EXCEPT ![w] = "write_file"]
    /\ UNCHANGED <<docDir, infos, companyId, markers, lock, err>>

\* The directory cannot be made.
RestoreVersionFails(w) ==
    /\ pc[w] = "restore_next"
    /\ op[w].left # {}
    /\ May("fails", "restore_next")
    /\ Rollback(w, "failed")
    /\ UNCHANGED disk

RestoreDone(w) ==
    /\ pc[w] = "restore_next"
    /\ op[w].left = {}
    /\ Return(w, "ok")
    /\ UNCHANGED disk

\* The rollback: the directories of the versions that this call created, ...
UndoDirs(w) ==
    /\ pc[w] = "undo_dirs"
    /\ IF op[w].created = {} THEN Goto(w, "undo_infos") /\ UNCHANGED dirs
       ELSE LET v == Min(op[w].created)
            IN \/ /\ \E f \in dirs[v] : dirs' = [dirs EXCEPT ![v] = @ \ {f}]
                  /\ UNCHANGED control
               \/ /\ \/ dirs[v] = {} /\ dirs' = Without(dirs, v)
                     \/ May("fails", "undo_dirs") /\ UNCHANGED dirs
                  /\ op' = [op EXCEPT ![w].created = @ \ {v}]
                  /\ UNCHANGED <<lock, pc, err>>
    /\ UNCHANGED <<docDir, infos, companyId, markers>>

\* Mutation of UndoInfos: a document that existed is removed as well.
UndoInfosDropsDocument(w) ==
    /\ pc[w] = "undo_infos"
    /\ Goto(w, "undo_marker")
    /\ UNCHANGED disk

\* ... then their infos, then the document if there was none.
UndoInfos(w) ==
    /\ pc[w] = "undo_infos"
    /\ IF op[w].saved # {}
       THEN LET v == Min(op[w].saved)
            IN /\ infos' \in {Without(infos, v)} \cup
                             (IF May("fails", "undo_infos") THEN {infos} ELSE {})
               /\ op' = [op EXCEPT ![w].saved = @ \ {v}]
               /\ UNCHANGED <<lock, pc, err>>
       ELSE /\ IF op[w].existed THEN Return(w, err[w]) ELSE Goto(w, "undo_marker")
            /\ UNCHANGED infos
    /\ UNCHANGED <<docDir, dirs, companyId, markers>>

----------------------------------------------------------------------------
(* The process dies with the mutex; the disk stays as it is.               *)
Crash(w) ==
    /\ pc[w] # "idle"
    /\ May("crash", pc[w])
    /\ Return(w, "crashed")
    /\ UNCHANGED disk

----------------------------------------------------------------------------
Create(w) ==
    \/ CreateExists(w) \/ CreateBegin(w) \/ MakeDirs(w) \/ MakeDirsFails(w)
    \/ WriteCompany(w) \/ MakeMarker(w) \/ CreateFails(w)

WriteVersion(w) ==
    \/ WriteFile(w) \/ WriteFileFails(w) \/ WriteFileDone(w)
    \/ WriteInfo(w) \/ WriteInfoRefused(w) \/ WriteInfoFails(w)
    \/ Notify(w) \/ NotifyFails(w)

Add(w) ==
    \/ AddNotFound(w) \/ AddRefused(w) \/ AddBegin(w) \/ MakeDir(w) \/ MakeDirExists(w)

SetCompany(w) ==
    \/ SetBegin(w) \/ SetNotFound(w) \/ SetUnmark(w) \/ SetCompanyId(w) \/ SetMark(w)
    \/ SetFails(w)

Remove(w) ==
    \/ DeleteNotFound(w) \/ DeleteBegin(w) \/ DeleteVersionNotFound(w)
    \/ DeleteVersionBegin(w) \/ RemoveMarker(w) \/ RemoveMarkerFails(w)
    \/ RemoveEntry(w) \/ RemoveDoc(w) \/ RemoveDocFails(w) \/ RemoveDir(w) \/ RemoveDirFails(w) \/ RemoveInfo(w)
    \/ UndoMarker(w)

Restore(w) ==
    \/ RestoreBegin(w) \/ RestoreDir(w) \/ RestoreDirFails(w) \/ RestoreVersion(w)
    \/ RestoreVersionFails(w) \/ RestoreDone(w) \/ UndoDirs(w) \/ UndoInfos(w)

Step(w) ==
    \/ Create(w) \/ WriteVersion(w) \/ Add(w) \/ SetCompany(w) \/ Remove(w)
    \/ Restore(w) \/ Crash(w)

Next == \E w \in Writers : Step(w)

Spec == Init /\ [][Next]_vars

----------------------------------------------------------------------------
(* Properties                                                              *)

\* Between operations the document's directory is there just if it has a version,
\* and no company but its own has a marker for it, also when a change of the company
\* broke off half-way: DocumentExists and DocumentVersions agree, and
\* CompanyDocumentIDs lists no document that is gone or another company's.
NoStrayMarkers ==
    lock = NoWriter =>
        /\ docDir <=> Listed # {}
        /\ markers \subseteq IF docDir THEN {companyId} ELSE {}

\* If changes of the company do not fail, the document's company has its marker too:
\* CompanyDocumentIDs lists all the documents of a company.
MarkersMatch ==
    lock = NoWriter =>
        /\ docDir <=> Listed # {}
        /\ markers = IF docDir THEN {companyId} ELSE {}
=============================================================================
