------------------------------ MODULE AddMulti ------------------------------
(***************************************************************************)
(* AddMultiDocumentVersionImpl (docdb.go), which every Conn uses for its   *)
(* AddMultiDocumentVersion: AddDocumentVersion for one document after the  *)
(* other, and on any error DeleteDocumentVersion for the versions created  *)
(* so far.  Callers run it concurrently on a Conn that keeps its promise   *)
(* for each document: a version is visible before onNewVersion is asked,   *)
(* and withdrawn when onNewVersion refuses it.                             *)
(***************************************************************************)
EXTENDS Naturals, Sequences, Functions

CONSTANTS Docs, Versions,
          Callers,    \* concurrent callers of AddMultiDocumentVersion
          DocLists,   \* the docIDs they pass, in which a document may repeat
          Faults      \* what may go wrong: see FaultKinds

\* AddDocumentVersion returns an error that is not ErrNoChanges; onNewVersion
\* returns any error, or panics; a DeleteDocumentVersion of the rollback fails; the
\* process dies.
FaultKinds == {"add", "notify", "undo", "crash"}

ASSUME MultiVersionsAssumption == Versions \subseteq Nat \ {0}
ASSUME MultiDocListsAssumption == DocLists \subseteq Seq(Docs)
ASSUME MultiFaultsAssumption == Faults \subseteq FaultKinds

VARIABLES
    versions,   \* per document: its versions; {} if it does not exist
    call,       \* per caller: the AddMultiDocumentVersion that it runs
    owned       \* per caller, auxiliary: the <<document, version>> pairs that
                \* its call inserted and that are still there

multiVars == <<versions, call, owned>>

\* NoVersion is "latest" before a latest version is read.
NoVersion == 0

\* A call that has returned with the result e.
Returned(e) == [at |-> "idle", left |-> <<>>, latest |-> NoVersion,
                new |-> NoVersion, created |-> <<>>, err |-> e]

MultiInit ==
    /\ versions \in [Docs -> {{}, {v \in Versions : \A u \in Versions : v <= u}}]
    /\ call = [w \in Callers |-> Returned("ok")]
    /\ owned = [w \in Callers |-> {}]

Doc(w) == Head(call[w].left)

Return(w, e) ==
    /\ call' = [call EXCEPT ![w] = Returned(e)]
    /\ owned' = [owned EXCEPT ![w] = {}]

\* The deferred rollback begins.
Fail(w) == call' = [call EXCEPT ![w].at = "undo", ![w].err = "failed"]

\* A version leaves the document, whoever inserted it.
Withdraw(d, v) ==
    /\ versions' = [versions EXCEPT ![d] = @ \ {v}]
    /\ owned' = [u \in Callers |-> owned[u] \ {<<d, v>>}]

----------------------------------------------------------------------------
MultiBegin(w) ==
    /\ call[w].at = "idle"
    /\ \E docIDs \in DocLists :
        call' = [call EXCEPT ![w] = [Returned("ok") EXCEPT !.at = "read", !.left = docIDs]]
    /\ UNCHANGED <<versions, owned>>

\* AddDocumentVersion reads the latest version; ErrDocumentNotFound without one.
AddRead(w) ==
    /\ call[w].at = "read"
    /\ call[w].left # <<>>
    /\ IF versions[Doc(w)] = {}
       THEN Fail(w)
       ELSE \E v \in versions[Doc(w)] :
                /\ \A u \in versions[Doc(w)] : u <= v
                /\ call' = [call EXCEPT ![w].at = "insert", ![w].latest = v]
    /\ UNCHANGED <<versions, owned>>

\* Mutation of AddNoChanges: the loop does not get past the document.
AddNoChangesRepeats(w) ==
    /\ call[w].at = "insert"
    /\ call' = [call EXCEPT ![w].at = "read"]
    /\ UNCHANGED <<versions, owned>>

\* ErrNoChanges: the document is skipped.
AddNoChanges(w) ==
    /\ call[w].at = "insert"
    /\ call' = [call EXCEPT ![w].at = "read", ![w].left = Tail(@)]
    /\ UNCHANGED <<versions, owned>>

\* The version that createVersion chose, newer than the latest one as it was read.
AddInsert(w) ==
    /\ call[w].at = "insert"
    /\ \E v \in Versions \ versions[Doc(w)] :
        /\ v > call[w].latest
        /\ versions' = [versions EXCEPT ![Doc(w)] = @ \cup {v}]
        /\ call' = [call EXCEPT ![w].at = "notify", ![w].new = v]
        /\ owned' = [owned EXCEPT ![w] = @ \cup {<<Doc(w), v>>}]

\* Mutation of AddInsertExists: the error is returned without the rollback.
AddInsertExistsReturns(w) ==
    /\ call[w].at = "insert"
    /\ \E v \in versions[Doc(w)] : v > call[w].latest
    /\ Return(w, "failed")
    /\ UNCHANGED versions

\* ErrVersionAlreadyExists: another caller took the version meanwhile.
AddInsertExists(w) ==
    /\ call[w].at = "insert"
    /\ \E v \in versions[Doc(w)] : v > call[w].latest
    /\ Fail(w)
    /\ UNCHANGED <<versions, owned>>

AddFails(w) ==
    /\ "add" \in Faults
    /\ call[w].at = "insert" \/ (call[w].at = "read" /\ call[w].left # <<>>)
    /\ Fail(w)
    /\ UNCHANGED <<versions, owned>>

\* The wrapped onNewVersion: the version is noted when the caller's one accepts it.
AddNotify(w) ==
    /\ call[w].at = "notify"
    /\ call' = [call EXCEPT ![w].at = "read", ![w].left = Tail(@),
                            ![w].created = Append(@, <<Doc(w), call[w].new>>)]
    /\ UNCHANGED <<versions, owned>>

\* Mutation of AddNotifyFails: the version is noted although it was refused.
AddNotifyFailsNoted(w) ==
    /\ call[w].at = "notify"
    /\ "notify" \in Faults
    /\ Withdraw(Doc(w), call[w].new)
    /\ call' = [call EXCEPT ![w].at = "undo", ![w].err = "failed",
                            ![w].created = Append(@, <<Doc(w), call[w].new>>)]

\* The Conn withdraws a version that onNewVersion refused.
AddNotifyFails(w) ==
    /\ call[w].at = "notify"
    /\ "notify" \in Faults
    /\ Withdraw(Doc(w), call[w].new)
    /\ Fail(w)

\* ErrNoChanges from onNewVersion is one from AddDocumentVersion as well: the Conn
\* withdraws the version, and the document is skipped.
AddNotifyNoChanges(w) ==
    /\ call[w].at = "notify"
    /\ "notify" \in Faults
    /\ Withdraw(Doc(w), call[w].new)
    /\ call' = [call EXCEPT ![w].at = "read", ![w].left = Tail(@)]

\* All documents are done.
MultiDone(w) ==
    /\ call[w].at = "read"
    /\ call[w].left = <<>>
    /\ Return(w, IF call[w].created = <<>> THEN "noChanges" ELSE "ok")
    /\ UNCHANGED versions

\* DeleteDocumentVersion for the next created version; that it is not there (any
\* more) is an error as well, and joined to the result.
UndoVersion(w) ==
    /\ call[w].at = "undo"
    /\ call[w].created # <<>>
    /\ LET d == Head(call[w].created)[1]
           v == Head(call[w].created)[2]
       IN /\ Withdraw(d, v)
          /\ call' = [call EXCEPT ![w].created = Tail(@),
                                  ![w].err = IF v \in versions[d] THEN @ ELSE "undoFailed"]

\* Mutation of UndoVersionFails: the version that could not be deleted is tried again.
UndoVersionFailsRepeats(w) ==
    /\ call[w].at = "undo"
    /\ call[w].created # <<>>
    /\ "undo" \in Faults
    /\ call' = [call EXCEPT ![w].err = "undoFailed"]
    /\ UNCHANGED <<versions, owned>>

UndoVersionFails(w) ==
    /\ call[w].at = "undo"
    /\ call[w].created # <<>>
    /\ "undo" \in Faults
    /\ call' = [call EXCEPT ![w].created = Tail(@), ![w].err = "undoFailed"]
    /\ UNCHANGED <<versions, owned>>

UndoDone(w) ==
    /\ call[w].at = "undo"
    /\ call[w].created = <<>>
    /\ Return(w, call[w].err)
    /\ UNCHANGED versions

MultiCrash(w) ==
    /\ call[w].at # "idle"
    /\ "crash" \in Faults
    /\ Return(w, "crashed")
    /\ UNCHANGED versions

----------------------------------------------------------------------------
\* The steps of a call after its first; the process may die instead of any.
MultiStep(w) ==
    \/ AddRead(w) \/ AddNoChanges(w) \/ AddInsert(w) \/ AddInsertExists(w)
    \/ AddFails(w) \/ AddNotify(w) \/ AddNotifyFails(w) \/ AddNotifyNoChanges(w)
    \/ MultiDone(w) \/ UndoVersion(w) \/ UndoVersionFails(w) \/ UndoDone(w)

MultiNext == \E w \in Callers : MultiBegin(w) \/ MultiStep(w) \/ MultiCrash(w)

\* The Conn's calls and the callbacks return.
MultiFairness == \A w \in Callers : WF_multiVars(MultiStep(w))

MultiSpec == MultiInit /\ [][MultiNext]_multiVars /\ MultiFairness

----------------------------------------------------------------------------
(* Properties                                                              *)

\* AddMultiDocumentVersion is all or nothing, whatever other callers do to the
\* same documents meanwhile: when it succeeds, every version it was notified of is
\* there; when it fails or reports no changes, none is left, unless its error says
\* that an undo failed.
AllOrNothing ==
    [][\A w \in Callers :
        call[w].at # "idle" /\ call'[w].at = "idle" =>
            /\ call'[w].err = "ok" => owned[w] # {} /\ owned[w] = Range(call[w].created)
            /\ call'[w].err \in {"failed", "noChanges"} => owned[w] = {}]_multiVars

\* A version leaves a document only by the call that inserted it, while that call
\* runs: the rollback goes by document and timestamp, and another caller may have
\* taken a timestamp that this one gave back.
RollbackTakesOwnVersions ==
    [][\A d \in Docs : \A v \in versions[d] \ versions'[d] :
        \E w \in Callers : <<d, v>> \in owned[w] /\ call'[w] # call[w]]_multiVars

\* The most steps that the call c takes from here on: for n documents, 4 n + 2.
StepsLeft(c) ==
    LET noted == Len(c.created)
        open == 4 * Len(c.left) + noted
    IN CASE c.at = "idle" -> 0
         [] c.at = "read" -> open + 2
         [] c.at = "insert" -> open + 1
         [] c.at = "notify" -> open
         [] c.at = "undo" -> noted + 1

\* A call is a loop over its documents and one over what is to be undone, and never
\* turns back: each of its steps uses one up, whether it fails or not, and what other
\* callers do to the same documents adds none.
CallsWindDown ==
    [][\A w \in Callers :
        /\ MultiStep(w) \/ MultiCrash(w) => StepsLeft(call'[w]) < StepsLeft(call[w])
        /\ call[w].at # "idle" => StepsLeft(call'[w]) <= StepsLeft(call[w])]_multiVars

\* Every call returns, its rollback included, if the calls of the Conn and the
\* callbacks return.
MultiReturns == \A w \in Callers : call[w].at # "idle" ~> call[w].at = "idle"
=============================================================================
