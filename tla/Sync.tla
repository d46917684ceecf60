-------------------------------- MODULE Sync --------------------------------
(***************************************************************************)
(* SyncDocument (hasheddocument.go) from one Conn to another, again and    *)
(* again.  The source is any Conn that keeps the promise of DocDb, and is  *)
(* used by others meanwhile; ReadHashedDocument reads it call by call.     *)
(* The destination is a split-store Conn that only the sync writes to.     *)
(***************************************************************************)
EXTENDS StoreConnRestore

CONSTANTS SplitSource,   \* the source is a split-store Conn, else it keeps directories
          MaxChanges,    \* bound: how often the source changes
          MaxFailures    \* bound: steps of the destination that may go wrong

ASSUME SyncWriterAssumption == \A v, w \in Writers : v = w
ASSUME SplitSourceAssumption == SplitSource \in BOOLEAN
ASSUME SyncBoundsAssumption == MaxChanges \in Nat /\ MaxFailures \in Nat

VARIABLES
    source,     \* the versions of the document on srcConn, as in DocDb
    newest,     \* the newest version the source has ever had
    objects,    \* the object keys of the source, if it is a split-store Conn
    sync,       \* the SyncDocument that runs
    changes,    \* number of changes of the source
    failures    \* number of steps of the destination in which Faults were possible

sourceVars == <<source, newest, objects, changes>>
syncVars == <<restoreVars, sourceVars, sync, failures>>

\* An operation on the source succeeds, or it shows nothing.
Source == INSTANCE DocDb WITH doc <- source, outcome <- "ok"

\* The destination when nothing fails.
Sound == INSTANCE StoreConnRestore WITH Faults <- {}, RestoreFaults <- {}

NoCopy == [company |-> "none", files |-> <<>>]

\* No SyncDocument runs; the last one returned e.
SyncResult(e, recreate) ==
    [at |-> "idle", recreate |-> recreate,
     copy |-> NoCopy,     \* the HashedDocument as far as it is read
     left |-> {},         \* versions still to be read
     files |-> {},        \* files in the VersionInfo of the next one
     listed |-> <<>>,     \* auxiliary: the source when its versions were listed
     err |-> e]

SyncInit ==
    /\ RestoreInit
    /\ source = {}
    /\ newest = NoVersion
    /\ objects = {}
    /\ \E recreate \in BOOLEAN : sync = SyncResult("none", recreate)
    /\ changes = 0
    /\ failures = 0

\* The files of its versions.
SourceFiles ==
    [v \in {d.version : d \in source} |-> (CHOOSE d \in source : d.version = v).files]

\* The document as a backup, if the source is read at once.
SourceDocument == [company |-> CompanyOf(source), files |-> SourceFiles]

----------------------------------------------------------------------------
(* The source is used: a version time is never taken twice.                *)

\* The hashes that versions of the source reference.
SourceHashes == UNION {HashesOf(d.files) : d \in source}

SourceGrows ==
    \E v \in Versions, c \in Companies, written \in FileMaps, removed \in SUBSET Names :
        /\ v > newest
        /\ newest' = v
        /\ \/ written # {} /\ removed = {} /\ Source!CreateDocument(v, c, written)
           \/ Source!AddDocumentVersion(v, c, written, removed)
        /\ objects' = objects \cup written

\* Objects go if no version references their hash any more, whatever their names.
SourceShrinks ==
    /\ Source!DeleteDocument \/ \E v \in Versions : Source!DeleteDocumentVersion(v)
    /\ objects' = KeysByHash(objects, SourceHashes')
    /\ UNCHANGED newest

SourceMoves ==
    /\ source # {}
    /\ \E c \in Companies : c # CompanyOf(source) /\ Source!SetDocumentCompanyID(c)
    /\ UNCHANGED <<newest, objects>>

\* A failed add is rolled back but for the objects with content of other versions.
SourceAddFails ==
    /\ \E f \in FilesWithHash(SourceHashes) \ objects : objects' = objects \cup {f}
    /\ UNCHANGED <<source, newest>>

SourceChange ==
    /\ changes < MaxChanges
    /\ changes' = changes + 1
    /\ SourceGrows \/ SourceShrinks \/ SourceMoves \/ SourceAddFails
    /\ UNCHANGED <<restoreVars, sync, failures>>

----------------------------------------------------------------------------
(* ReadHashedDocument                                                      *)

SyncFails == sync' = SyncResult("failed", sync.recreate)

\* DocumentCompanyID.
SyncCompany ==
    /\ sync.at = "idle"
    /\ IF source = {}
       THEN SyncFails
       ELSE sync' = [sync EXCEPT !.at = "versions", !.err = "none",
                                 !.copy = [NoCopy EXCEPT !.company = CompanyOf(source)]]
    /\ UNCHANGED <<restoreVars, sourceVars, failures>>

\* DocumentVersions.
SyncVersions ==
    /\ sync.at = "versions"
    /\ IF source = {}
       THEN SyncFails
       ELSE sync' = [sync EXCEPT !.at = "info",
                                 !.left = DOMAIN SourceFiles,
                                 !.listed = SourceFiles]
    /\ UNCHANGED <<restoreVars, sourceVars, failures>>

\* Mutation of SyncInfo: a version that is gone is left out.
SyncInfoSkips ==
    /\ sync.at = "info"
    /\ sync.left # {}
    /\ LET v == Min(sync.left)
       IN IF v \in DOMAIN SourceFiles
          THEN sync' = [sync EXCEPT !.at = "files", !.files = SourceFiles[v]]
          ELSE sync' = [sync EXCEPT !.left = @ \ {v}]
    /\ UNCHANGED <<restoreVars, sourceVars, failures>>

\* DocumentVersionInfo of the next version.
SyncInfo ==
    /\ sync.at = "info"
    /\ sync.left # {}
    /\ LET v == Min(sync.left)
       IN IF v \in DOMAIN SourceFiles
          THEN sync' = [sync EXCEPT !.at = "files", !.files = SourceFiles[v]]
          ELSE SyncFails
    /\ UNCHANGED <<restoreVars, sourceVars, failures>>

\* The keys that DocumentVersionFileProvider works on: in split stores every object
\* with a hash of the version, in a directory the files of the version.
SourceProvider(files) ==
    IF SplitSource THEN ProviderKeys(objects, HashesOf(files)) ELSE files

\* Every name that the provider lists is in the version info and the other way
\* round, and what it reads for a name is what the info says.
Readable(files) ==
    LET keys == SourceProvider(files)
    IN /\ NamesOf(keys) = NamesOf(files)
       /\ \A f \in files : FirstHash(keys, f[1]) = f[2]

\* DocumentVersionFileProvider, and the content of every file that it lists.
SyncFiles ==
    /\ sync.at = "files"
    /\ LET v == Min(sync.left)
       IN IF /\ v \in DOMAIN SourceFiles /\ SourceFiles[v] = sync.files
             /\ Readable(sync.files)
          THEN sync' = [sync EXCEPT !.at = "info", !.left = @ \ {v},
                          !.copy.files = [u \in VersionsOf(sync.copy) \cup {v} |->
                              IF u = v THEN sync.files ELSE sync.copy.files[u]]]
          ELSE SyncFails
    /\ UNCHANGED <<restoreVars, sourceVars, failures>>

----------------------------------------------------------------------------
(* destConn.RestoreDocument                                                *)

\* HashedDocument.Validate refuses the copy.
SyncInvalid ==
    /\ sync.at = "info"
    /\ sync.left = {}
    /\ ~IsValid(sync.copy)
    /\ SyncFails
    /\ UNCHANGED <<restoreVars, sourceVars, failures>>

SyncRestore(w) ==
    /\ sync.at = "info"
    /\ sync.left = {}
    /\ At(w, "none")
    /\ sync.copy \in Backups
    /\ RestoreOf(w, sync.copy, sync.recreate)
    /\ sync' = [sync EXCEPT !.at = "restore"]
    /\ UNCHANGED <<sourceVars, failures>>

SyncStores(w) ==
    /\ sync.at = "restore"
    /\ job[w] # NoJob
    /\ Sound!Restore(w) \/ Sound!Operation(w)
    /\ UNCHANGED <<sourceVars, sync, failures>>

\* A step that may also go wrong.
SyncMayFail(w) ==
    /\ failures < MaxFailures
    /\ failures' = failures + 1
    /\ sync.at = "restore"
    /\ job[w] # NoJob
    /\ Restore(w) \/ Operation(w)
    /\ UNCHANGED <<sourceVars, sync>>

\* SyncDocument returns; it is called again, by a new process if it crashed.
SyncReturn(w) ==
    /\ sync.at = "restore"
    /\ job[w] = NoJob
    /\ sync' = SyncResult(err[w], sync.recreate)
    /\ UNCHANGED <<restoreVars, sourceVars, failures>>

----------------------------------------------------------------------------
SyncStep(w) ==
    \/ SyncCompany \/ SyncVersions \/ SyncInfo \/ SyncFiles
    \/ SyncInvalid \/ SyncRestore(w) \/ SyncStores(w) \/ SyncReturn(w)

SyncNext == SourceChange \/ \E w \in Writers : SyncStep(w) \/ SyncMayFail(w)

\* The calls of both Conns return, and a sync that failed is retried.
SyncFairness == \A w \in Writers : WF_syncVars(SyncStep(w))

SyncSpec == SyncInit /\ [][SyncNext]_syncVars /\ SyncFairness

----------------------------------------------------------------------------
(* Properties                                                              *)

\* ReadHashedDocument reads versions one by one while the source is used, and yet
\* what is restored is what the source had when its versions were listed: a version
\* deleted meanwhile makes the read fail, and is not missing from the copy.
CopyIsSnapshot ==
    sync.at = "restore" => sync.copy.files = sync.listed

\* The destination has what a backup has: all of it and nothing else after a
\* recreate, at least its versions after a merge.
Holds(backup) ==
    IF sync.recreate
    THEN View = Restored(backup)
    ELSE \A new \in Restored(backup) :
            \E d \in View : d.version = new.version /\ d.files = new.files

InSync == Holds(SourceDocument)

\* A merge leaves the versions that it finds as they are, by their timestamps alone:
\* it relies on what it finds being what the source has.  Whatever fails at the
\* destination, and whatever the source does between two syncs (but to take the time
\* of a version twice), a version that both sides have has the same files on both.
SidesAgree ==
    \A r \in rows, d \in source : r.version = d.version => r.files = d.files

\* SyncDocument that returns without an error has brought over every version that
\* it read, with all of its content: what an earlier sync left behind is complete, as
\* long as the deletes of its rollback did not fail as well.
SyncDelivers ==
    sync.at = "restore" =>
        \A w \in Writers : job[w] = NoJob /\ err[w] = "ok" => Holds(sync.copy)

\* What no retry can change: the source is gone, or a deleted version left two
\* neighbours alike; or a merge finds the document with another company, or begins
\* with a version that it lacks, for which it would need a second genesis row.
Refused ==
    \/ source = {}
    \/ ~IsValid(SourceDocument)
    \/ /\ ~sync.recreate
       /\ rows # {}
       /\ \/ CompanyOf(rows) # CompanyOf(source)
          \/ ~HasVersion(rows, Min(DOMAIN SourceFiles))

\* Nor can a retry change what the file provider of a split-store source shows: names
\* and contents of other versions that share a hash with the one to be read.
Unreadable == \E d \in source : ~Readable(d.files)

Arrived == sync.at = "idle" /\ sync.err = "ok" /\ InSync

\* conn.go on a recreate that fails: "the document is left absent until the restore
\* is retried", and "the sync can simply be re-run".  A sync that is run again and
\* again succeeds at last, whichever of its calls failed before, if those that take
\* back a failed restore succeed and no process dies; unless it has to be refused or
\* the source cannot be read.
SyncArrives == []<>(Refused \/ Unreadable \/ Arrived)
=============================================================================
