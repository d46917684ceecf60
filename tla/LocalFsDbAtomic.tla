-------------------------- MODULE LocalFsDbAtomic --------------------------
(***************************************************************************)
(* The local file system Conn implements DocDb, for any number of writers: *)
(* what can be read while nobody holds the document's mutex changes by     *)
(* whole operations.  The auxiliary variables keep the state as of the     *)
(* last such moment.                                                       *)
(***************************************************************************)
EXTENDS LocalFsDb

VARIABLES
    seenDoc,      \* view of the document after the last operation
    seenOutcome,  \* "ok" or "failed", the result of the last operation
    seenCompany,  \* company.id after the last operation
    abandoned     \* versions with an info, whose directory lost a file

seen == <<seenDoc, seenOutcome, seenCompany>>
auxVars == <<vars, seen, abandoned>>

\* What a caller can read: per listed version the files that can be delivered.
\* The company is the version's (VersionInfo.CompanyID).
View == {[version |-> v, company |-> infos[v].company, prev |-> infos[v].prev,
          files |-> infos[v].files \cap dirs[v]] : v \in Listed}

ResultOf(e) == IF e = "ok" THEN "ok" ELSE "failed"

InitSeen ==
    seenDoc = View /\ seenOutcome = "ok" /\ seenCompany = companyId /\ abandoned = {}

NextSeen(w) ==
    /\ IF lock' = NoWriter
       THEN /\ seenDoc' = View'
            /\ seenOutcome' = ResultOf(err'[w])
            /\ seenCompany' = companyId'
       ELSE UNCHANGED seen
    /\ abandoned' = {v \in DOMAIN infos \cap DOMAIN infos' :
                        v \in abandoned \/ ~(FilesIn(v) \subseteq FilesIn(v)')}

AtomicInit == Init /\ InitSeen
AtomicNext == \E w \in Writers : Step(w) /\ NextSeen(w)
AtomicSpec == AtomicInit /\ [][AtomicNext]_auxVars

Promise == INSTANCE DocDb WITH doc <- seenDoc, outcome <- seenOutcome

\* Conn's promise for writers whose rollbacks succeed: CreateDocument,
\* AddDocumentVersion, RestoreDocument, DeleteDocument and DeleteDocumentVersion
\* act as one step each, all or nothing.
ActsAtomically == Promise!Spec

\* A version that a reader, who takes no lock, finds listed has exactly the files
\* that its info records, whatever failed or crashed before, unless a removal of
\* the version has begun.
ListedComplete ==
    \A v \in Listed : FilesIn(v) = infos[v].files \/ v \in abandoned

\* Whatever call fails, rollbacks included, and wherever the process dies, an operation
\* leaves the versions that it was not called to delete.  The exception is the fault
\* "unlisted": if DeleteDocumentVersion cannot list the versions that are left, it
\* takes them for none and removes the document (conn.go:562).
KeepsOtherVersions ==
    [][\A w \in Writers : lock = w /\ lock' = NoWriter =>
        \A d \in seenDoc :
            \/ d \in View'
            \/ op[w].kind = "delete"
            \/ op[w].kind = "restore" /\ op[w].recreate
            \/ op[w].kind = "deleteVersion" /\ op[w].version = d.version]_auxVars

\* createversion.go: if onNewVersion returns an error or panics, "the entire
\* document/version creation is atomically rolled back", a change of the company
\* included.  The code resets company.id to the company in the latest info,
\* which SetDocumentCompanyID does not update.
FailedAddKeepsCompany ==
    [][\A w \in Writers :
        op[w].kind = "add" /\ lock' = NoWriter /\ err'[w] = "failed" =>
            companyId' = seenCompany]_auxVars
=============================================================================
