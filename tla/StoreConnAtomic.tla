-------------------------- MODULE StoreConnAtomic --------------------------
(***************************************************************************)
(* One writer at a time of the split-store Conn, restores included,        *)
(* implements DocDb.                                                       *)
(*                                                                         *)
(* What a caller can see between two operations is, for every row, the     *)
(* part of its files that the document store can deliver.  The auxiliary   *)
(* variables keep that view as of the last moment without an operation, so *)
(* that an operation shows to DocDb as one step, when it returns.          *)
(***************************************************************************)
EXTENDS StoreConnRestore

ASSUME OneWriterAssumption == \A v, w \in Writers : v = w

VARIABLES
    seenDoc,      \* view of the document after the last operation
    seenOutcome   \* "ok" or "failed", the result of the last operation

atomicVars == <<restoreVars, seenDoc, seenOutcome>>

InitSeen == seenDoc = View /\ seenOutcome = "ok"

ResultOf(e) == IF e = "ok" THEN "ok" ELSE "failed"

NextSeen ==
    IF BetweenCalls'
    THEN /\ seenDoc' = View'
         /\ \E w \in Writers : seenOutcome' = ResultOf(err'[w])
    ELSE UNCHANGED <<seenDoc, seenOutcome>>

AtomicInit == RestoreInit /\ InitSeen
AtomicNext == \E w \in Writers :
    \/ Restore(w) /\ NextSeen
    \/ Operation(w) /\ NextSeen
AtomicSpec == AtomicInit /\ [][AtomicNext]_atomicVars

Promise == INSTANCE DocDb WITH doc <- seenDoc, outcome <- seenOutcome

\* Conn's promise for one writer whose cleanups succeed: CreateDocument,
\* AddDocumentVersion, RestoreDocument, DeleteDocumentVersion, DeleteDocument and
\* SetDocumentCompanyID act as one step each, all or nothing, and no operation
\* changes the files that another version delivers.
ActsAtomically == Promise!Spec

\* A restore returns, and its process has not died.
RestoreReturns(w) == job[w] # NoJob /\ job'[w] = NoJob /\ err'[w] # "crashed"

\* RestoreDocument succeeds with the whole backup readable and, in a merge, every
\* earlier version as it was; or it fails and leaves what was readable before, or
\* no document if an existing one was to be recreated.
RestoredAsAWhole ==
    [][\A w \in Writers :
        RestoreReturns(w) =>
            IF err'[w] = "ok"
            THEN View' = Merged(IF job[w].recreate THEN {} ELSE seenDoc, job[w].backup)
            ELSE \/ View' = seenDoc
                 \/ job[w].recreate /\ View' = {}]_restoreVars

\* A merge never touches, at any step, a version that was there when it began,
\* nor takes away a file that such a version can deliver.  (A document without
\* any blob counts as absent, for its existence is asked of the document store.)
MergeKeepsVersions ==
    [][\A w \in Writers : job[w] # NoJob /\ ~job[w].recreate =>
        \A d \in seenDoc : d.files # {} => \E e \in View' :
            e = [d EXCEPT !.files = e.files] /\ d.files \subseteq e.files]_restoreVars
=============================================================================
