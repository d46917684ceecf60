------------------------------- MODULE DocDb -------------------------------
(***************************************************************************)
(* What the Conn interface (conn.go) promises its callers about one        *)
(* document: every operation takes effect as a whole, with the result      *)
(* "ok", or changes nothing, with the result "failed".  The deletes are    *)
(* not documented as atomic: they may fail and have deleted.               *)
(***************************************************************************)
EXTENDS HashedDocument

CONSTANTS Versions, Companies,
          Backups    \* the HashedDocuments that are restored

VARIABLES
    doc,      \* the versions of the document; {} if it does not exist
    outcome   \* the result of the last operation

Init == doc = {} /\ outcome = "ok"

IsNewest(v) == \A d \in doc : d.version < v.version

\* CreateDocument returns ErrDocumentAlreadyExists for an existing document.
CreateDocument(v, c, files) ==
    /\ doc = {}
    /\ doc' = {[version |-> v, company |-> c, prev |-> NoVersion, files |-> files]}
    /\ outcome' = "ok"

\* AddDocumentVersion appends to the latest version and carries its files
\* forward.
AddDocumentVersion(v, c, written, removed) ==
    /\ \E latest \in doc :
        LET new == [version |-> v, company |-> c, prev |-> latest.version,
                    files |-> CarryForward(latest.files, removed, written)]
        IN /\ \A d \in doc : d.version <= latest.version
           /\ IsNewest(new)
           /\ new.files # {}
           /\ doc' = doc \cup {new}
    /\ outcome' = "ok"

DeleteDocument ==
    /\ doc # {}
    /\ doc' = {}
    /\ outcome' \in {"ok", "failed"}

\* The other versions keep their files.
DeleteDocumentVersion(v) ==
    /\ \E d \in doc : d.version = v
    /\ doc' = {d \in doc : d.version # v}
    /\ outcome' \in {"ok", "failed"}

SetDocumentCompanyID(c) ==
    /\ doc # {}
    /\ doc' = {[d EXCEPT !.company = c] : d \in doc}
    /\ outcome' = "ok"

\* A merge adds the versions that are not there; with recreate an existing
\* document is deleted first, and absent if the restore fails after that.
RestoreDocument(backup, recreate) ==
    \/ /\ doc' = Merged(IF recreate THEN {} ELSE doc, backup)
       /\ outcome' = "ok"
    \/ /\ recreate
       /\ doc' = {}
       /\ outcome' = "failed"

Fail == outcome' = "failed" /\ UNCHANGED doc

Next ==
    \/ \E v \in Versions, c \in Companies, files \in FileMaps \ {{}} :
            CreateDocument(v, c, files)
    \/ \E v \in Versions, c \in Companies, written \in FileMaps,
          removed \in SUBSET Names : AddDocumentVersion(v, c, written, removed)
    \/ DeleteDocument
    \/ \E v \in Versions : DeleteDocumentVersion(v)
    \/ \E c \in Companies : SetDocumentCompanyID(c)
    \/ \E backup \in Backups, recreate \in BOOLEAN : RestoreDocument(backup, recreate)
    \/ Fail

Spec == Init /\ [][Next]_<<doc, outcome>>
=============================================================================
