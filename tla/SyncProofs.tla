----------------------------- MODULE SyncProofs -----------------------------
(***************************************************************************)
(* What SyncDocument copies and brings over, for every use of the source   *)
(* meanwhile and whatever fails at the destination.                        *)
(***************************************************************************)
EXTENDS Sync, StoreConnAtomicProofs

SourceRow == [version : Versions, company : Companies, prev : Versions \cup {NoVersion},
              files : FileMaps]

\* The source has one entry per version, and none is newer than its newest.
SourceOK ==
    /\ source \subseteq SourceRow
    /\ newest \in Nat
    /\ \A d \in source : d.version <= newest
    /\ \A d, e \in source : d.version = e.version => d = e

\* The fields of the sync that runs.
SyncShape ==
    /\ sync = [at |-> sync.at, recreate |-> sync.recreate, copy |-> sync.copy,
               left |-> sync.left, files |-> sync.files, listed |-> sync.listed,
               err |-> sync.err]
    /\ sync.copy = [company |-> sync.copy.company, files |-> sync.copy.files]
    /\ sync.copy.files = [v \in DOMAIN sync.copy.files |-> sync.copy.files[v]]
    /\ sync.at \in {"idle", "versions", "info", "files", "restore"}
    /\ sync.recreate \in BOOLEAN

\* While versions are read: those that are not left are in the copy as they were
\* listed, and a version of the source that was listed is still the same.
ReadOK ==
    /\ sync.listed = [v \in DOMAIN sync.listed |-> sync.listed[v]]
    /\ DOMAIN sync.listed \subseteq Versions
    /\ sync.left \subseteq DOMAIN sync.listed
    /\ DOMAIN sync.copy.files = DOMAIN sync.listed \ sync.left
    /\ \A v \in DOMAIN sync.copy.files : sync.copy.files[v] = sync.listed[v]
    /\ \A v \in DOMAIN sync.listed : v <= newest
    /\ \A d \in source : d.version \in DOMAIN sync.listed =>
                            d.files = sync.listed[d.version]

SnapshotInv ==
    /\ SourceOK
    /\ SyncShape
    /\ sync.at = "versions" => DOMAIN sync.copy.files = {}
    /\ sync.at \in {"info", "files"} => ReadOK
    /\ sync.at = "files" => sync.left # {} /\ sync.files = sync.listed[Min(sync.left)]
    /\ sync.at = "restore" => sync.copy.files = sync.listed

LEMMA NoCopyShape ==
    /\ NoCopy = [company |-> NoCopy.company, files |-> NoCopy.files]
    /\ DOMAIN NoCopy.files = {}
    /\ NoCopy.files = [v \in DOMAIN NoCopy.files |-> NoCopy.files[v]]
BY DEF NoCopy

LEMMA SyncResultInv ==
    ASSUME NEW e, NEW recreate \in BOOLEAN, sync' = SyncResult(e, recreate), SourceOK'
    PROVE  SnapshotInv'
<1>1. sync'.at = "idle" /\ sync'.copy = NoCopy
  BY DEF SyncResult
<1>2. SyncShape'
  BY <1>1, NoCopyShape DEF SyncShape, SyncResult
<1> QED BY <1>1, <1>2 DEF SnapshotInv

\* The files that the source lists are those of its versions.
LEMMA SourceFilesAre ==
    ASSUME SourceOK
    PROVE  /\ DOMAIN SourceFiles = {d.version : d \in source}
           /\ \A d \in source : SourceFiles[d.version] = d.files
           /\ SourceFiles = [v \in DOMAIN SourceFiles |-> SourceFiles[v]]
<1>1. \A d \in source : (CHOOSE e \in source : e.version = d.version) = d
  BY DEF SourceOK
<1>2. DOMAIN SourceFiles = {d.version : d \in source}
  BY DEF SourceFiles
<1>3. ASSUME NEW d \in source
      PROVE  SourceFiles[d.version] = d.files
  <2>1. d.version \in {e.version : e \in source}
    OBVIOUS
  <2>2. SourceFiles[d.version] = (CHOOSE e \in source : e.version = d.version).files
    BY <2>1 DEF SourceFiles
  <2> QED BY <1>1, <2>2
<1>4. SourceFiles = [v \in DOMAIN SourceFiles |-> SourceFiles[v]]
  BY DEF SourceFiles
<1> QED BY <1>2, <1>3, <1>4

LEMMA SyncInitInv == SyncInit => SnapshotInv
<1> SUFFICES ASSUME SyncInit
             PROVE  SnapshotInv
  OBVIOUS
<1>1. PICK recreate \in BOOLEAN : sync = SyncResult("none", recreate)
  BY DEF SyncInit
<1>2. SourceOK
  BY DEF SyncInit, SourceOK, NoVersion
<1>3. sync.at = "idle" /\ sync.copy = NoCopy
  BY <1>1 DEF SyncResult
<1>4. SyncShape
  BY <1>1, <1>3, NoCopyShape DEF SyncShape, SyncResult
<1> QED BY <1>2, <1>3, <1>4 DEF SnapshotInv

----------------------------------------------------------------------------
(* The source changes: the versions it keeps stay as they were, but for    *)
(* their company, and a new one is newer than every version that was.      *)

\* What a change of the source does to it.
SourceStep ==
    /\ source' \subseteq SourceRow
    /\ newest' \in Nat /\ newest <= newest'
    /\ \A e \in source' : \/ e.version > newest /\ e.version = newest'
                          \/ \E d \in source : e.version = d.version /\ e.files = d.files
    /\ \A d, e \in source' : d.version = e.version => d = e

LEMMA VersionsAreNaturals == \A v \in Versions : v \in Nat
BY VersionsAssumption

LEMMA SourceGrowsStep ==
    ASSUME SourceOK, SourceGrows
    PROVE  SourceStep
<1>1. PICK v \in Versions, c \in Companies, written \in FileMaps, removed \in SUBSET Names :
        /\ v > newest
        /\ newest' = v
        /\ \/ written # {} /\ removed = {} /\ Source!CreateDocument(v, c, written)
           \/ Source!AddDocumentVersion(v, c, written, removed)
  BY DEF SourceGrows
<1>2. v \in Nat /\ newest <= newest'
  BY <1>1, VersionsAssumption DEF SourceOK
<1>3. CASE Source!CreateDocument(v, c, written)
  <2>1. source' = {[version |-> v, company |-> c, prev |-> NoVersion, files |-> written]}
    BY <1>3 DEF Source!CreateDocument, Source!NoVersion, NoVersion
  <2> QED BY <1>1, <1>2, <2>1 DEF SourceStep, SourceRow
<1>4. CASE Source!AddDocumentVersion(v, c, written, removed)
  <2>1. PICK latest \in source :
          source' = source \cup
            {[version |-> v, company |-> c, prev |-> latest.version,
              files |-> CarryForward(latest.files, removed, written)]}
    BY <1>4
    DEF Source!AddDocumentVersion, Source!CarryForward, CarryForward, Source!NamesOf, NamesOf
  <2>2. latest.version \in Versions /\ latest.files \in FileMaps
    BY DEF SourceOK, SourceRow
  <2>3. CarryForward(latest.files, removed, written) \in FileMaps
    BY <2>2, CarryForwardType
  <2>4. \A d \in source : d.version # v
    BY <1>1, <1>2 DEF SourceOK, SourceRow
  <2> QED
    BY <1>1, <1>2, <2>1, <2>2, <2>3, <2>4 DEF SourceStep, SourceRow, SourceOK
<1> QED BY <1>1, <1>3, <1>4

LEMMA SourceChangeStep ==
    ASSUME SourceOK, SourceChange
    PROVE  SourceStep
<1>1. CASE SourceShrinks
  <2>1. source' \subseteq source /\ newest' = newest
    BY <1>1 DEF SourceShrinks, Source!DeleteDocument, Source!DeleteDocumentVersion
  <2> QED BY <2>1 DEF SourceStep, SourceOK
<1>2. CASE SourceMoves
  <2>1. PICK c \in Companies : source' = {[d EXCEPT !.company = c] : d \in source}
    BY <1>2 DEF SourceMoves, Source!SetDocumentCompanyID
  <2>2. newest' = newest
    BY <1>2 DEF SourceMoves
  <2>3. ASSUME NEW d \in SourceRow
        PROVE  /\ [d EXCEPT !.company = c] \in SourceRow
               /\ [d EXCEPT !.company = c].version = d.version
               /\ [d EXCEPT !.company = c].files = d.files
    BY <2>3 DEF SourceRow
  <2>4. source' \subseteq SourceRow
    BY <2>1, <2>3 DEF SourceOK
  <2>5. \A e \in source' : \E d \in source : /\ e = [d EXCEPT !.company = c]
                                             /\ e.version = d.version /\ e.files = d.files
    <3> SUFFICES ASSUME NEW e \in source'
                 PROVE  \E d \in source : /\ e = [d EXCEPT !.company = c]
                                          /\ e.version = d.version /\ e.files = d.files
      OBVIOUS
    <3>1. PICK d \in source : e = [d EXCEPT !.company = c]
      BY <2>1
    <3>2. d \in SourceRow
      BY DEF SourceOK
    <3> QED BY <2>3, <3>1, <3>2
  <2>6. \A d, e \in source' : d.version = e.version => d = e
    BY <2>5 DEF SourceOK
  <2> QED BY <2>2, <2>4, <2>5, <2>6 DEF SourceStep, SourceOK
<1>3. CASE SourceAddFails
  BY <1>3 DEF SourceAddFails, SourceStep, SourceOK
<1> QED BY <1>1, <1>2, <1>3, SourceGrowsStep DEF SourceChange

LEMMA SourceStepInv ==
    ASSUME SnapshotInv, SourceStep, UNCHANGED sync
    PROVE  SnapshotInv'
<1>1. /\ newest \in Nat /\ newest' \in Nat /\ newest <= newest'
      /\ \A d \in source : d.version \in Nat /\ d.version <= newest
  BY VersionsAreNaturals DEF SnapshotInv, SourceOK, SourceStep, SourceRow
<1>2. ASSUME NEW e \in source'
      PROVE  e.version <= newest'
  <2>1. CASE e.version = newest'
    BY <1>1, <2>1
  <2>2. CASE \E d \in source : e.version = d.version
    BY <1>1, <2>2
  <2> QED BY <1>2, <2>1, <2>2 DEF SourceStep
<1>3. SourceOK'
  BY <1>1, <1>2 DEF SourceOK, SourceStep
<1>4. ASSUME ReadOK
      PROVE  ReadOK'
  <2>1. \A v \in DOMAIN sync.listed : v \in Nat /\ v <= newest
    BY <1>4, VersionsAreNaturals DEF ReadOK
  <2>2. ASSUME NEW e \in source', e.version \in DOMAIN sync.listed
        PROVE  e.files = sync.listed[e.version]
    <3>1. ~(e.version > newest)
      BY <1>1, <2>1, <2>2
    <3>2. PICK d \in source : e.version = d.version /\ e.files = d.files
      BY <2>2, <3>1 DEF SourceStep
    <3> QED BY <1>4, <2>2, <3>2 DEF ReadOK
  <2>3. \A v \in DOMAIN sync.listed : v <= newest'
    BY <1>1, <2>1
  <2> QED BY <1>4, <2>2, <2>3 DEF ReadOK
<1> QED BY <1>3, <1>4 DEF SnapshotInv, SyncShape

----------------------------------------------------------------------------
(* The steps of ReadHashedDocument                                         *)

LEMMA ReadingSteps ==
    ASSUME SnapshotInv, UNCHANGED sourceVars,
           SyncCompany \/ SyncVersions \/ SyncInfo \/ SyncFiles \/ SyncInvalid
    PROVE  SnapshotInv'
<1>1. SourceOK /\ SourceOK'
  BY DEF SnapshotInv, SourceOK, sourceVars
<1>2. CASE SyncFails
  BY <1>1, <1>2, SyncResultInv DEF SyncFails, SnapshotInv, SyncShape
<1>3. CASE SyncCompany /\ ~SyncFails
  <2>1. sync' = [sync EXCEPT !.at = "versions", !.err = "none",
                             !.copy = [NoCopy EXCEPT !.company = CompanyOf(source)]]
    BY <1>3 DEF SyncCompany
  <2>2. sync'.at = "versions"
        /\ sync'.copy = [company |-> CompanyOf(source), files |-> NoCopy.files]
    BY <2>1 DEF SnapshotInv, SyncShape, NoCopy
  <2>3. SyncShape'
    <3>1. sync' = [at |-> "versions", recreate |-> sync.recreate,
                   copy |-> [NoCopy EXCEPT !.company = CompanyOf(source)],
                   left |-> sync.left, files |-> sync.files, listed |-> sync.listed,
                   err |-> "none"]
      BY <2>1 DEF SnapshotInv, SyncShape
    <3>2. sync'.recreate \in BOOLEAN
      BY <3>1 DEF SnapshotInv, SyncShape
    <3> QED BY <2>2, <3>1, <3>2, NoCopyShape DEF SyncShape
  <2> QED BY <1>1, <2>2, <2>3, NoCopyShape DEF SnapshotInv
<1>4. CASE SyncVersions /\ ~SyncFails
  <2>1. /\ sync.at = "versions"
        /\ sync' = [sync EXCEPT !.at = "info", !.left = DOMAIN SourceFiles,
                                !.listed = SourceFiles]
    BY <1>4 DEF SyncVersions
  <2>2. /\ sync'.at = "info" /\ sync'.left = DOMAIN SourceFiles
        /\ sync'.listed = SourceFiles /\ sync'.copy = sync.copy
    BY <2>1 DEF SnapshotInv, SyncShape
  <2>3. SyncShape'
    BY <2>1, <2>2 DEF SnapshotInv, SyncShape
  <2>4. DOMAIN SourceFiles \subseteq Versions /\ \A v \in DOMAIN SourceFiles : v <= newest
    BY <1>1, SourceFilesAre DEF SourceOK, SourceRow
  <2>5. DOMAIN sync.copy.files = {}
    BY <2>1 DEF SnapshotInv
  <2>6. ReadOK'
    BY <1>1, <2>2, <2>4, <2>5, SourceFilesAre DEF ReadOK, sourceVars
  <2> QED BY <1>1, <2>2, <2>3, <2>6 DEF SnapshotInv
<1>5. CASE SyncInfo /\ ~SyncFails
  <2> DEFINE v == Min(sync.left)
  <2>1. /\ sync.at = "info" /\ sync.left # {} /\ v \in DOMAIN SourceFiles
        /\ sync' = [sync EXCEPT !.at = "files", !.files = SourceFiles[v]]
    BY <1>5 DEF SyncInfo
  <2>2. ReadOK
    BY <2>1 DEF SnapshotInv
  <2>3. v \in DOMAIN sync.listed
    <3>1. sync.left \subseteq Nat
      BY <2>2, VersionsAreNaturals DEF ReadOK
    <3>2. v \in sync.left
      BY <2>1, <3>1, MinOfNaturals
    <3> QED BY <2>2, <3>2 DEF ReadOK
  <2>4. SourceFiles[v] = sync.listed[v]
    BY <1>1, <2>1, <2>2, <2>3, SourceFilesAre DEF ReadOK
  <2>5. /\ sync'.at = "files" /\ sync'.files = SourceFiles[v] /\ sync'.left = sync.left
        /\ sync'.listed = sync.listed /\ sync'.copy = sync.copy
    BY <2>1 DEF SnapshotInv, SyncShape
  <2>6. SyncShape'
    BY <2>1, <2>5 DEF SnapshotInv, SyncShape
  <2>7. ReadOK'
    BY <2>2, <2>5 DEF ReadOK, sourceVars
  <2> QED BY <1>1, <2>1, <2>4, <2>5, <2>6, <2>7 DEF SnapshotInv
<1>6. CASE SyncFiles /\ ~SyncFails
  <2> DEFINE v == Min(sync.left)
             files == [u \in DOMAIN sync.copy.files \cup {v} |->
                          IF u = v THEN sync.files ELSE sync.copy.files[u]]
  <2>1. /\ sync.at = "files"
        /\ sync' = [sync EXCEPT !.at = "info", !.left = @ \ {v}, !.copy.files = files]
    BY <1>6 DEF SyncFiles, VersionsOf
  <2>2. ReadOK /\ sync.left # {} /\ sync.files = sync.listed[v]
    BY <2>1 DEF SnapshotInv
  <2>3. v \in sync.left
    <3>1. sync.left \subseteq Nat
      BY <2>2, VersionsAreNaturals DEF ReadOK
    <3> QED BY <2>2, <3>1, MinOfNaturals
  <2> HIDE DEF v
  <2>4. /\ sync'.at = "info" /\ sync'.left = sync.left \ {v}
        /\ sync'.listed = sync.listed
        /\ sync'.copy = [company |-> sync.copy.company, files |-> files]
    BY <2>1 DEF SnapshotInv, SyncShape
  <2>5. SyncShape'
    <3>1. sync' = [at |-> sync'.at, recreate |-> sync'.recreate, copy |-> sync'.copy,
                   left |-> sync'.left, files |-> sync'.files,
                   listed |-> sync'.listed, err |-> sync'.err]
      BY <2>1 DEF SnapshotInv, SyncShape
    <3>2. sync'.recreate \in BOOLEAN
      BY <2>1 DEF SnapshotInv, SyncShape
    <3> QED BY <2>4, <3>1, <3>2 DEF SyncShape
  <2>6. ReadOK'
    BY <2>2, <2>3, <2>4 DEF ReadOK, sourceVars
  <2> QED BY <1>1, <2>4, <2>5, <2>6 DEF SnapshotInv
<1> QED
  BY <1>2, <1>3, <1>4, <1>5, <1>6 DEF SyncInvalid

LEMMA SnapshotInvStep ==
    SnapshotInv /\ [SyncNext]_syncVars => SnapshotInv'
<1> SUFFICES ASSUME SnapshotInv, [SyncNext]_syncVars
             PROVE  SnapshotInv'
  OBVIOUS
<1>1. CASE SourceChange
  BY <1>1, SourceChangeStep, SourceStepInv DEF SnapshotInv, SourceChange
<1>2. ASSUME UNCHANGED sourceVars, UNCHANGED sync
      PROVE  SnapshotInv'
  BY <1>2 DEF SnapshotInv, SourceOK, SyncShape, ReadOK, sourceVars
<1>3. ASSUME NEW w \in Writers, SyncRestore(w)
      PROVE  SnapshotInv'
  <2>1. /\ sync.at = "info" /\ sync.left = {} /\ ReadOK
        /\ sync' = [sync EXCEPT !.at = "restore"] /\ UNCHANGED sourceVars
    BY <1>3 DEF SyncRestore, SnapshotInv
  <2>2. sync'.at = "restore" /\ sync'.copy = sync.copy /\ sync'.listed = sync.listed
    BY <2>1 DEF SnapshotInv, SyncShape
  <2>3. SyncShape'
    BY <2>1, <2>2 DEF SnapshotInv, SyncShape
  <2>4. sync.copy.files = sync.listed
    BY <2>1 DEF ReadOK, SnapshotInv, SyncShape
  <2>5. SourceOK'
    BY <2>1 DEF SnapshotInv, SourceOK, sourceVars
  <2> QED BY <2>2, <2>3, <2>4, <2>5 DEF SnapshotInv
<1>4. ASSUME NEW w \in Writers, SyncReturn(w)
      PROVE  SnapshotInv'
  <2>1. SourceOK'
    BY <1>4 DEF SyncReturn, SnapshotInv, SourceOK, sourceVars
  <2> QED BY <1>4, <2>1, SyncResultInv DEF SyncReturn, SnapshotInv, SyncShape
<1>5. ASSUME NEW w \in Writers, SyncStores(w) \/ SyncMayFail(w)
      PROVE  SnapshotInv'
  BY <1>2, <1>5 DEF SyncStores, SyncMayFail
<1>6. CASE SyncCompany \/ SyncVersions \/ SyncInfo \/ SyncFiles \/ SyncInvalid
  BY <1>6, ReadingSteps
  DEF SyncCompany, SyncVersions, SyncInfo, SyncFiles, SyncInvalid
<1>7. CASE UNCHANGED syncVars
  BY <1>2, <1>7 DEF syncVars
<1> QED
  BY <1>1, <1>3, <1>4, <1>5, <1>6, <1>7 DEF SyncNext, SyncStep

\* SyncDocument restores what the source had when ReadHashedDocument listed its
\* versions, however the source is used while they are read one by one: no version
\* of it is missing, none is added and none has other files.
THEOREM SyncCopiesSnapshot == SyncSpec => []CopyIsSnapshot
<1>1. SnapshotInv => CopyIsSnapshot
  BY DEF SnapshotInv, CopyIsSnapshot
<1> QED
  BY SyncInitInv, SnapshotInvStep, <1>1, PTL DEF SyncSpec
----------------------------------------------------------------------------
(* A step of the destination in which nothing fails is a step in which     *)
(* something might have failed: Sound is StoreConnRestore without faults.  *)

LEMMA SoundOperators ==
    /\ \A kind, label : ~Sound!May(kind, label)
    /\ Sound!File = File /\ Sound!FileMaps = FileMaps
    /\ Sound!NoRow = NoRow /\ Sound!NoJob = NoJob
    /\ Sound!DocumentExists(blobs) = DocumentExists(blobs)
    /\ \A t, v : /\ Sound!HasVersion(t, v) = HasVersion(t, v)
                 /\ Sound!WithoutVersion(t, v) = WithoutVersion(t, v)
                 /\ Sound!ExclusiveHashes(t, v) = ExclusiveHashes(t, v)
                 /\ Sound!UniqueViolation(t, v) = UniqueViolation(t, v)
                 /\ Sound!WithCompany(t, v) = WithCompany(t, v)
                 /\ Sound!IsLatest(t, v) = IsLatest(t, v)
    /\ \A h : Sound!FilesWithHash(h) = FilesWithHash(h)
    /\ \A t : Sound!CompanyOf(t) = CompanyOf(t)
<1>1. \A kind, label : ~Sound!May(kind, label)
  BY DEF Sound!May
<1>2. /\ Sound!File = File /\ Sound!FileMaps = FileMaps
      /\ Sound!NoRow = NoRow /\ Sound!NoJob = NoJob
      /\ Sound!DocumentExists(blobs) = DocumentExists(blobs)
  BY DEF Sound!File, File, Sound!FileMaps, FileMaps, Sound!IsFileMap, IsFileMap,
     Sound!NoRow, NoRow, Sound!NoVersion, NoVersion, Sound!NoJob, NoJob,
     Sound!DocumentExists, DocumentExists
<1>3. ASSUME NEW t, NEW v
      PROVE  /\ Sound!HasVersion(t, v) = HasVersion(t, v)
             /\ Sound!WithoutVersion(t, v) = WithoutVersion(t, v)
             /\ Sound!ExclusiveHashes(t, v) = ExclusiveHashes(t, v)
             /\ Sound!UniqueViolation(t, v) = UniqueViolation(t, v)
             /\ Sound!WithCompany(t, v) = WithCompany(t, v)
             /\ Sound!IsLatest(t, v) = IsLatest(t, v)
  BY DEF Sound!HasVersion, HasVersion, Sound!WithoutVersion, WithoutVersion,
     Sound!ExclusiveHashes, ExclusiveHashes, Sound!HashesOf, HashesOf,
     Sound!UniqueViolation, UniqueViolation, Sound!IsGenesis, IsGenesis,
     Sound!NoVersion, NoVersion, Sound!WithCompany, WithCompany, Sound!IsLatest, IsLatest
<1>4. ASSUME NEW h
      PROVE  Sound!FilesWithHash(h) = FilesWithHash(h)
  BY DEF Sound!FilesWithHash, FilesWithHash, Sound!File, File
<1>5. ASSUME NEW t
      PROVE  Sound!CompanyOf(t) = CompanyOf(t)
  BY DEF Sound!CompanyOf, CompanyOf, Sound!IsLatest, IsLatest
<1> QED BY <1>1, <1>2, <1>3, <1>4, <1>5

LEMMA SoundExtrema ==
    ASSUME NEW S
    PROVE  Sound!Max(S) = Max(S) /\ Sound!Min(S) = Min(S)
BY DEF Sound!Max, Max, Sound!Min, Min

LEMMA SoundRestoredRow ==
    ASSUME NEW backup, NEW v
    PROVE  Sound!RestoredRow(backup, v) = RestoredRow(backup, v)
<1>1. Sound!VersionsOf(backup) = VersionsOf(backup)
  BY DEF Sound!VersionsOf, VersionsOf
<1>2. Sound!Predecessor(backup, v) = Predecessor(backup, v)
  BY <1>1, SoundExtrema DEF Sound!Predecessor, Predecessor, Sound!NoVersion, NoVersion
<1>3. Sound!FilesBefore(backup, v) = FilesBefore(backup, v)
  BY <1>2 DEF Sound!FilesBefore, FilesBefore, Sound!NoVersion, NoVersion
<1> QED
  BY <1>2, <1>3
  DEF Sound!RestoredRow, RestoredRow, Sound!AddedNames, AddedNames, Sound!RemovedNames,
      RemovedNames, Sound!ModifiedNames, ModifiedNames, Sound!NamesOf, NamesOf

LEMMA SoundHelpers ==
    ASSUME NEW w \in Writers
    PROVE  /\ \A e : Sound!Finish(w, e) <=> Finish(w, e)
           /\ \A e : Sound!Return(w, e) <=> Return(w, e)
           /\ \A l : Sound!Goto(w, l) <=> Goto(w, l)
           /\ \A l : Sound!GotoJob(w, l) <=> GotoJob(w, l)
           /\ \A l : Sound!At(w, l) <=> At(w, l)
           /\ \A e : Sound!RollbackJob(w, e) <=> RollbackJob(w, e)
           /\ \A l, next : Sound!Put(w, l, next) <=> Put(w, l, next)
           /\ \A l, next : Sound!List(w, l, next) <=> List(w, l, next)
           /\ \A e, ins : Sound!Rollback(w, e, ins) <=> Rollback(w, e, ins)
           /\ Sound!AddUndo(w) <=> AddUndo(w)
BY SoundOperators
DEF Sound!Finish, Finish, Sound!Return, Return, Sound!Goto, Goto, Sound!GotoJob, GotoJob,
    Sound!At, At, Sound!RollbackJob, RollbackJob, Sound!Put, Put, Sound!List, List,
    Sound!Rollback, Rollback, Sound!RollbackDropsBlobs, RollbackDropsBlobs, Sound!AddUndo, AddUndo
LEMMA SoundCreate ==
    ASSUME NEW w \in Writers, Sound!Create(w)
    PROVE  Create(w)
<1> USE SoundOperators, SoundHelpers
<1>1. /\ ~Sound!CreatePutFails(w) /\ ~Sound!CreateInsertFails(w)
      /\ ~Sound!CreateNotifyFails(w) /\ ~Sound!CreateNotifyPanics(w)
  BY DEF Sound!CreatePutFails, Sound!PutFails, Sound!CreateInsertFails,
     Sound!CreateNotifyFails, Sound!CreateNotifyPanics
<1>2. Sound!CreateExists(w) => CreateExists(w)
  BY DEF Sound!CreateExists, CreateExists
<1>3. Sound!CreateBegin(w) => CreateBegin(w)
  BY DEF Sound!CreateBegin, CreateBegin, Sound!GenesisRow, GenesisRow, Sound!NoVersion,
     NoVersion, Sound!NamesOf, NamesOf
<1>4. Sound!CreatePut(w) => CreatePut(w)
  BY DEF Sound!CreatePut, CreatePut
<1>5. Sound!CreateInsert(w) => CreateInsert(w)
  BY DEF Sound!CreateInsert, CreateInsert
<1>6. Sound!CreateInsertExists(w) => CreateInsertExists(w)
  BY DEF Sound!CreateInsertExists, CreateInsertExists
<1>7. Sound!CreateNotify(w) => CreateNotify(w)
  BY DEF Sound!CreateNotify, CreateNotify
<1>8. Sound!CreateDropList(w) => CreateDropList(w)
  BY DEF Sound!CreateDropList, CreateDropList
<1>9. Sound!CreateDrop(w) => CreateDrop(w)
  BY DEF Sound!CreateDrop, CreateDrop, Sound!Deletable, Deletable
<1>10. Sound!CreateDropRow(w) => CreateDropRow(w)
  BY DEF Sound!CreateDropRow, CreateDropRow
<1> QED
  BY <1>1, <1>2, <1>3, <1>4, <1>5, <1>6, <1>7, <1>8, <1>9, <1>10 DEF Sound!Create, Create

LEMMA SoundAdd ==
    ASSUME NEW w \in Writers, Sound!Add(w)
    PROVE  Add(w)
<1> USE SoundOperators, SoundHelpers
<1>1. /\ ~Sound!AddInsertFails(w) /\ ~Sound!AddPutFails(w) /\ ~Sound!AddNotifyFails(w)
  BY DEF Sound!AddInsertFails, Sound!AddPutFails, Sound!PutFails, Sound!AddNotifyFails
<1>2. Sound!AddNotFound(w) => AddNotFound(w)
  BY DEF Sound!AddNotFound, AddNotFound
<1>3. Sound!AddReadLatest(w) => AddReadLatest(w)
  BY DEF Sound!AddReadLatest, AddReadLatest
<1>4. Sound!AddPrepare(w) => AddPrepare(w)
  <2>1. ASSUME NEW keys, NEW hashes
        PROVE  Sound!ProviderKeys(keys, hashes) = ProviderKeys(keys, hashes)
    BY DEF Sound!ProviderKeys, ProviderKeys, Sound!KeysByHash, KeysByHash
  <2>2. ASSUME NEW latest, NEW removed, NEW written
        PROVE  Sound!CarryForward(latest, removed, written)
                 = CarryForward(latest, removed, written)
    BY DEF Sound!CarryForward, CarryForward, Sound!NamesOf, NamesOf
  <2>3. ASSUME NEW latest, NEW keys, NEW v, NEW c, NEW written, NEW removed
        PROVE  Sound!NextRow(latest, keys, v, c, written, removed)
                 = NextRow(latest, keys, v, c, written, removed)
    BY <2>2
    DEF Sound!NextRow, NextRow, Sound!NamesOf, NamesOf, Sound!HasFile, HasFile
  <2>4. ASSUME NEW latest, NEW v, NEW written, NEW removed
        PROVE  Sound!Acceptable(latest, v, written, removed)
                 <=> Acceptable(latest, v, written, removed)
    BY <2>2 DEF Sound!Acceptable, Acceptable, Sound!NamesOf, NamesOf
  <2>5. ASSUME NEW files
        PROVE  Sound!HashesOf(files) = HashesOf(files)
    BY DEF Sound!HashesOf, HashesOf
  <2>6. ProviderKeys(blobs, HashesOf(row[w].files))
          = Sound!ProviderKeys(blobs, Sound!HashesOf(row[w].files))
    BY <2>1, <2>5
  <2> SUFFICES ASSUME Sound!AddPrepare(w)
               PROVE  AddPrepare(w)
    OBVIOUS
  <2> DEFINE keys == ProviderKeys(blobs, HashesOf(row[w].files))
  <2>7. PICK v \in Versions, c \in Companies, written \in FileMaps,
             removed \in SUBSET Names :
          /\ Sound!Acceptable(row[w], v, written, removed)
          /\ row' = [row EXCEPT ![w] = Sound!NextRow(row[w], keys, v, c, written, removed)]
          /\ todo' = [todo EXCEPT ![w] = written]
    BY <2>6 DEF Sound!AddPrepare
  <2>8. /\ Acceptable(row[w], v, written, removed)
        /\ row' = [row EXCEPT ![w] = NextRow(row[w], keys, v, c, written, removed)]
    BY <2>3, <2>4, <2>7
  <2>9. /\ pc[w] = "add_prepare" /\ Goto(w, "add_insert")
        /\ UNCHANGED <<rows, blobs, inserted, doomed, err>>
    BY DEF Sound!AddPrepare
  <2> QED BY <2>7, <2>8, <2>9 DEF AddPrepare
<1>5. Sound!AddRefused(w) => AddRefused(w)
  BY DEF Sound!AddRefused, AddRefused
<1>6. Sound!AddInsert(w) => AddInsert(w)
  BY DEF Sound!AddInsert, AddInsert
<1>7. Sound!AddInsertExists(w) => AddInsertExists(w)
  BY DEF Sound!AddInsertExists, AddInsertExists
<1>8. Sound!AddPut(w) => AddPut(w)
  BY DEF Sound!AddPut, AddPut
<1>9. Sound!AddNotify(w) => AddNotify(w)
  BY DEF Sound!AddNotify, AddNotify
<1>10. Sound!AddUndoRow(w) => AddUndoRow(w)
  BY DEF Sound!AddUndoRow, AddUndoRow
<1>11. Sound!AddUndoRowFails(w) => AddUndoRowFails(w)
  BY DEF Sound!AddUndoRowFails, AddUndoRowFails
<1>12. Sound!AddUndoList(w) => AddUndoList(w)
  BY DEF Sound!AddUndoList, AddUndoList
<1>13. Sound!AddUndoBlobs(w) => AddUndoBlobs(w)
  BY DEF Sound!AddUndoBlobs, AddUndoBlobs, Sound!Deletable, Deletable
<1> QED
  BY <1>1, <1>2, <1>3, <1>4, <1>5, <1>6, <1>7, <1>8, <1>9, <1>10, <1>11, <1>12, <1>13
  DEF Sound!Add, Add

LEMMA SoundDeletes ==
    ASSUME NEW w \in Writers
    PROVE  /\ Sound!Delete(w) => Delete(w)
           /\ Sound!DeleteVersion(w) => DeleteVersion(w)
<1> USE SoundOperators, SoundHelpers
<1>1. /\ ~Sound!DeleteRowsLost(w) /\ ~Sound!DeleteBlobsFails(w)
      /\ ~Sound!DeleteVersionRowLost(w) /\ ~Sound!DeleteVersionBlobsFails(w)
  BY DEF Sound!DeleteRowsLost, Sound!DeleteBlobsFails, Sound!DeleteVersionRowLost,
     Sound!DeleteVersionBlobsFails
<1>2. Sound!DeleteNotFound(w) => DeleteNotFound(w)
  BY DEF Sound!DeleteNotFound, DeleteNotFound
<1>3. Sound!DeleteRows(w) => DeleteRows(w)
  BY DEF Sound!DeleteRows, DeleteRows
<1>4. Sound!DeleteList(w) => DeleteList(w)
  BY DEF Sound!DeleteList, DeleteList
<1>5. Sound!DeleteBlobs(w) => DeleteBlobs(w)
  BY DEF Sound!DeleteBlobs, DeleteBlobs
<1>6. Sound!DeleteVersionNotFound(w) => DeleteVersionNotFound(w)
  BY DEF Sound!DeleteVersionNotFound, DeleteVersionNotFound
<1>7. Sound!DeleteVersionRow(w) => DeleteVersionRow(w)
  BY DEF Sound!DeleteVersionRow, DeleteVersionRow
<1>8. Sound!DeleteVersionList(w) => DeleteVersionList(w)
  BY DEF Sound!DeleteVersionList, DeleteVersionList
<1>9. Sound!DeleteVersionBlobs(w) => DeleteVersionBlobs(w)
  BY DEF Sound!DeleteVersionBlobs, DeleteVersionBlobs
<1>10. Sound!Delete(w) => Delete(w)
  BY <1>1, <1>2, <1>3, <1>4, <1>5 DEF Sound!Delete, Delete
<1>11. Sound!DeleteVersion(w) => DeleteVersion(w)
  BY <1>1, <1>6, <1>7, <1>8, <1>9 DEF Sound!DeleteVersion, DeleteVersion
<1> QED BY <1>10, <1>11

LEMMA SoundOperation ==
    ASSUME NEW w \in Writers, Sound!Operation(w)
    PROVE  Operation(w)
<1> USE SoundOperators, SoundHelpers
<1>1. Sound!Refuse(w) => Refuse(w)
  BY DEF Sound!Refuse, Refuse
<1>2. Sound!SetCompany(w) => SetCompany(w)
  BY DEF Sound!SetCompany, SetCompany
<1>3. ~Sound!Crash(w)
  BY DEF Sound!Crash
<1>4. Sound!Step(w) => Step(w)
  BY <1>1, <1>2, <1>3, SoundCreate, SoundAdd, SoundDeletes DEF Sound!Step, Step
<1> QED BY <1>4 DEF Sound!Operation, Operation
LEMMA SoundRestore ==
    ASSUME NEW w \in Writers, Sound!Restore(w)
    PROVE  Restore(w)
<1> USE SoundOperators, SoundHelpers
<1>1. ~Sound!RestoreCallFails(w) /\ ~Sound!RestorePutFails(w) /\ ~Sound!RestoreCrash(w)
  BY DEF Sound!RestoreCallFails, Sound!RestorePutFails, Sound!RestoreCrash
<1>2. Sound!RestoreBegin(w) => RestoreBegin(w)
  BY DEF Sound!RestoreBegin, RestoreBegin, Sound!RestoreOf, RestoreOf, Sound!VersionsOf, VersionsOf, Sound!vars, vars,
     Sound!locals, locals
<1>3. Sound!DeleteRows(w) \/ Sound!DeleteNotFound(w) => DeleteRows(w) \/ DeleteNotFound(w)
  BY DEF Sound!DeleteRows, DeleteRows, Sound!DeleteNotFound, DeleteNotFound
<1>4. Sound!RestoreDelete(w) => RestoreDelete(w)
  BY <1>3 DEF Sound!RestoreDelete, RestoreDelete
<1>5. Sound!RestoreDeleted(w) => RestoreDeleted(w)
  BY DEF Sound!RestoreDeleted, RestoreDeleted, Sound!vars, vars, Sound!locals, locals
<1>6. Sound!RestoreCompany(w) => RestoreCompany(w)
  BY DEF Sound!RestoreCompany, RestoreCompany, Sound!vars, vars, Sound!locals, locals
<1>7. Sound!RestoreVersions(w) => RestoreVersions(w)
  BY DEF Sound!RestoreVersions, RestoreVersions, Sound!vars, vars, Sound!locals, locals
<1>8. Sound!RestoreCreate(w) => RestoreCreate(w)
  <2>1. Sound!CreateBegin(w) => CreateBegin(w)
    BY DEF Sound!CreateBegin, CreateBegin, Sound!GenesisRow, GenesisRow, Sound!NoVersion,
       NoVersion, Sound!NamesOf, NamesOf
  <2>2. Sound!CreateExists(w) => CreateExists(w)
    BY DEF Sound!CreateExists, CreateExists
  <2>3. ASSUME NEW v, NEW c, NEW files
        PROVE  Sound!GenesisRow(v, c, files) = GenesisRow(v, c, files)
    BY DEF Sound!GenesisRow, GenesisRow, Sound!NoVersion, NoVersion, Sound!NamesOf, NamesOf
  <2> QED
    BY <2>1, <2>2, <2>3, SoundExtrema DEF Sound!RestoreCreate, RestoreCreate
<1>9. Sound!RestoreCreated(w) => RestoreCreated(w)
  BY SoundExtrema DEF Sound!RestoreCreated, RestoreCreated, Sound!vars, vars, Sound!locals, locals
<1>10. Sound!RestoreInsert(w) => RestoreInsert(w)
  BY SoundExtrema, SoundRestoredRow DEF Sound!RestoreInsert, RestoreInsert
<1>11. Sound!RestoreInsertFails(w) => RestoreInsertFails(w)
  BY SoundExtrema, SoundRestoredRow DEF Sound!RestoreInsertFails, RestoreInsertFails, Sound!vars, vars, Sound!locals, locals
<1>12. Sound!RestorePut(w) => RestorePut(w)
  BY SoundExtrema DEF Sound!RestorePut, RestorePut
<1>13. Sound!RestoreDone(w) => RestoreDone(w)
  BY DEF Sound!RestoreDone, RestoreDone
<1>14. Sound!UndoDocument(w) => UndoDocument(w)
  BY <1>3 DEF Sound!UndoDocument, UndoDocument
<1>15. Sound!UndoVersion(w) => UndoVersion(w)
  <2>1. Sound!DeleteVersionRow(w) => DeleteVersionRow(w)
    BY DEF Sound!DeleteVersionRow, DeleteVersionRow
  <2>2. Sound!DeleteVersionNotFound(w) => DeleteVersionNotFound(w)
    BY DEF Sound!DeleteVersionNotFound, DeleteVersionNotFound
  <2> QED
    BY <2>1, <2>2, SoundExtrema DEF Sound!UndoVersion, UndoVersion
<1>16. Sound!UndoDone(w) => UndoDone(w)
  BY DEF Sound!UndoDone, UndoDone
<1> QED
  BY <1>1, <1>2, <1>4, <1>5, <1>6, <1>7, <1>8, <1>9, <1>10, <1>11, <1>12, <1>13, <1>14,
     <1>15, <1>16
  DEF Sound!Restore, Restore

LEMMA DestinationStep ==
    SnapshotInv /\ [SyncNext]_syncVars => [RestoreNext]_restoreVars
<1> SUFFICES ASSUME SnapshotInv, [SyncNext]_syncVars
             PROVE  [RestoreNext]_restoreVars
  OBVIOUS
<1>1. CASE UNCHANGED restoreVars
  BY <1>1
<1>2. ASSUME NEW w \in Writers, SyncRestore(w)
      PROVE  RestoreNext
  BY <1>2 DEF SyncRestore, RestoreBegin, RestoreNext, Restore, SnapshotInv, SyncShape
<1>3. ASSUME NEW w \in Writers, SyncStores(w) \/ SyncMayFail(w)
      PROVE  RestoreNext
  BY <1>3, SoundRestore, SoundOperation DEF SyncStores, SyncMayFail, RestoreNext
<1> QED
  BY <1>1, <1>2, <1>3
  DEF SyncNext, SyncStep, SourceChange, SyncCompany, SyncVersions, SyncInfo, SyncFiles,
      SyncInvalid, SyncReturn, syncVars

\* SyncDocument uses its destination only by calls of RestoreDocument: whatever holds
\* of every use of a split-store Conn, with these faults, holds of the destination.
THEOREM SyncUsesDestination == SyncSpec => RestoreSpec
BY SyncInitInv, SnapshotInvStep, DestinationStep, PTL DEF SyncSpec, SyncInit, RestoreSpec

\* However often syncs are run, fail and crash, the destination's table keeps its
\* unique constraints and the order of its versions.
THEOREM SyncKeepsTable == SyncSpec => [](TypeOK /\ TableConsistent)
BY SyncUsesDestination, RestoresKeepTable, PTL

\* No sync changes a version that the destination has, not even one that the source
\* has with the same timestamp, but for its company.
THEOREM SyncKeepsVersions == SyncSpec => VersionsImmutable
BY SyncUsesDestination, RestoresKeepVersions, PTL
----------------------------------------------------------------------------
(* What both sides have.                                                   *)

\* The source may have the version v, with these files, and will not take v again.
Known(v, files) == v <= newest /\ \A d \in source : d.version = v => d.files = files

\* The same after the step.
StillKnown(v, files) ==
    v <= newest' /\ \A d \in source' : d.version = v => d.files = files

\* A version of the backup that a restore has.
OfBackup(r, j) ==
    \E v \in VersionsOf(j.backup) : r.version = v /\ r.files = j.backup.files[v]

\* A writer holds known versions only, and none of its operations is its own.
WriterKnows(w) ==
    /\ row[w] # NoRow => Known(row[w].version, row[w].files)
    /\ job[w] # NoJob =>
        \A v \in VersionsOf(job[w].backup) : Known(v, job[w].backup.files[v])
    /\ job[w] = NoJob => pc[w] = "idle"
    /\ pc[w] \notin AddLabels

AgreeInv ==
    /\ SnapshotInv
    /\ RestoreInv
    /\ \A r \in rows : Known(r.version, r.files)
    /\ \A w \in Writers : WriterKnows(w)

LEMMA SourceChangeKnows ==
    ASSUME SourceOK, SourceStep, NEW v \in Nat, NEW files, Known(v, files)
    PROVE  StillKnown(v, files)
<1>1. newest \in Nat /\ newest' \in Nat /\ newest <= newest'
  BY DEF SourceOK, SourceStep
<1>2. ASSUME NEW e \in source', e.version = v
      PROVE  e.files = files
  <2>1. ~(e.version > newest)
    BY <1>1, <1>2 DEF Known
  <2>2. PICK d \in source : e.version = d.version /\ e.files = d.files
    BY <1>2, <2>1 DEF SourceStep
  <2> QED BY <1>2, <2>2 DEF Known
<1> QED BY <1>1, <1>2 DEF Known, StillKnown

SameBackup(w) == job'[w].backup = job[w].backup /\ job'[w].recreate = job[w].recreate

\* What a step of a restore or of a call that it makes does to what the writer has.
KeepsKnown(w) ==
    /\ \A r \in rows' : \/ r \in rows
                        \/ r = row[w] /\ row[w] # NoRow
                        \/ job[w] # NoJob /\ OfBackup(r, job[w])
    /\ \/ row'[w] \in {row[w], NoRow}
       \/ job[w] # NoJob /\ OfBackup(row'[w], job[w])
    /\ job'[w] = NoJob \/ (job[w] # NoJob /\ SameBackup(w))
    /\ job'[w] = NoJob => pc'[w] = "idle"
    /\ pc'[w] \notin AddLabels

LEMMA CallKnows ==
    ASSUME TypeOK, RowHeld, NEW w \in Writers, Operation(w), pc[w] \notin AddLabels,
           job[w] # NoJob
    PROVE  KeepsKnown(w)
<1>1. Step(w) /\ job' = job /\ pc[w] # "idle"
  BY DEF Operation
<1>2. ASSUME NEW e, Finish(w, e)
      PROVE  pc'[w] = "idle" /\ row'[w] = NoRow
  BY <1>2 DEF Finish, TypeOK
<1>3. ASSUME NEW label, Goto(w, label), label \notin AddLabels
      PROVE  pc'[w] \notin AddLabels
  BY <1>3 DEF Goto, TypeOK
<1>4. "idle" \notin AddLabels /\ CreateLabels \cap AddLabels = {}
      /\ DeleteLabels \cap AddLabels = {}
  BY DEF AddLabels, CreateLabels, DeleteLabels
<1>5. SUFFICES /\ \A r \in rows' : r \in rows \/ (r = row[w] /\ row[w] # NoRow)
               /\ row'[w] \in {row[w], NoRow}
               /\ pc'[w] \notin AddLabels
  BY <1>1 DEF KeepsKnown, SameBackup
<1>6. ASSUME NEW e, NEW ins, Rollback(w, e, ins)
      PROVE  row'[w] \in {row[w], NoRow} /\ pc'[w] \notin AddLabels
  BY <1>2, <1>3, <1>4, <1>6 DEF Rollback, CreateLabels
<1>7. \A r \in Row : r # NoRow
  BY VersionsAssumption DEF Row, NoRow, NoVersion
<1>8. CASE Create(w)
  <2>1. CASE \/ CreatePutFails(w) \/ CreateInsertExists(w) \/ CreateNotifyFails(w)
    BY <1>6, <2>1
    DEF CreatePutFails, PutFails, CreateInsertExists, CreateNotifyFails
  <2>2. CASE CreateInsertFails(w) \/ CreateInsert(w)
    <3>1. rows' \subseteq rows \cup {row[w]}
      BY <2>2 DEF CreateInsertFails, CreateInsert
    <3>2. row[w] # NoRow
      BY <1>7, <2>2 DEF CreateInsertFails, CreateInsert, RowHeld, CreateLabels
    <3>3. row'[w] \in {row[w], NoRow} /\ pc'[w] \notin AddLabels
      BY <1>3, <1>4, <1>6, <2>2 DEF CreateInsertFails, CreateInsert, CreateLabels
    <3> QED BY <3>1, <3>2, <3>3
  <2>3. CASE CreateNotify(w) \/ CreateNotifyPanics(w) \/ CreateDropRow(w)
    BY <1>2, <1>4, <2>3
    DEF CreateNotify, CreateNotifyPanics, CreateDropRow, WithoutVersion
  <2>4. CASE CreatePut(w) \/ CreateDropList(w)
    BY <1>3, <1>4, <2>4 DEF CreatePut, Put, CreateDropList, List, CreateLabels
  <2>5. CASE CreateDrop(w)
    BY <1>2, <1>3, <1>4, <2>5 DEF CreateDrop, CreateLabels
  <2> QED
    BY <1>1, <1>8, <2>1, <2>2, <2>3, <2>4, <2>5 DEF Create, CreateExists, CreateBegin
<1>9. CASE Delete(w) \/ DeleteVersion(w)
  <2>1. CASE DeleteList(w) \/ DeleteVersionList(w)
    BY <1>2, <1>3, <1>4, <2>1 DEF DeleteList, DeleteVersionList, List, DeleteLabels
  <2>2. CASE \/ DeleteBlobs(w) \/ DeleteBlobsFails(w)
             \/ DeleteVersionBlobs(w) \/ DeleteVersionBlobsFails(w)
    BY <1>2, <1>4, <2>2
    DEF DeleteBlobs, DeleteBlobsFails, DeleteVersionBlobs, DeleteVersionBlobsFails
  <2> QED
    BY <1>1, <1>9, <2>1, <2>2
    DEF Delete, DeleteNotFound, DeleteRows, DeleteRowsLost, DeleteVersion,
        DeleteVersionNotFound, DeleteVersionRow, DeleteVersionRowLost
<1>10. ~Refuse(w) /\ ~SetCompany(w) /\ ~Add(w)
  <2>1. ~Refuse(w) /\ ~SetCompany(w)
    BY <1>1 DEF Refuse, SetCompany
  <2>2. ~Add(w)
    BY <1>1
    DEF Add, AddNotFound, AddReadLatest, AddPrepare, AddRefused, AddInsert,
        AddInsertExists, AddInsertFails, AddPut, Put, AddPutFails, PutFails, AddNotify,
        AddNotifyFails, AddUndoRow, AddUndoRowFails, AddUndoList, List, AddUndoBlobs,
        AddLabels
  <2> QED BY <2>1, <2>2
<1>11. CASE Crash(w)
  BY <1>2, <1>4, <1>11 DEF Crash
<1> QED
  BY <1>1, <1>8, <1>9, <1>10, <1>11 DEF Step

LEMMA RestoreKnows ==
    ASSUME RestoreInv, NEW w \in Writers, Restore(w), ~RestoreBegin(w),
           pc[w] \notin AddLabels
    PROVE  KeepsKnown(w)
<1> USE DEF RestoreInv, TableInv
<1>1. ASSUME NEW e, Return(w, e), rows' = rows
      PROVE  KeepsKnown(w)
  BY <1>1 DEF Return, Finish, KeepsKnown, TypeOK, JobOK, AddLabels
<1>2. job[w] # NoJob
  <2>1. ASSUME NEW label, At(w, label), label # "none"
        PROVE  job[w] # NoJob
    BY <2>1 DEF At, NoJob
  <2>2. CASE \/ RestoreCallFails(w) \/ RestoreDelete(w) \/ RestoreDeleted(w)
             \/ RestoreCompany(w) \/ RestoreVersions(w)
    BY <2>1, <2>2
    DEF RestoreCallFails, RestoreDelete, RestoreDeleted, RestoreCompany, RestoreVersions
  <2>3. CASE \/ RestoreCreate(w) \/ RestoreCreated(w)
             \/ RestoreInsert(w) \/ RestoreInsertFails(w)
    BY <2>1, <2>3
    DEF RestoreCreate, RestoreCreated, RestoreInsert, RestoreInsertFails
  <2>4. CASE RestorePut(w) \/ RestorePutFails(w) \/ RestoreDone(w)
    BY <2>1, <2>4 DEF RestorePut, RestorePutFails, RestoreDone
  <2>5. CASE \/ UndoDocument(w) \/ UndoVersion(w) \/ UndoDone(w) \/ RestoreCrash(w)
    BY <2>1, <2>5 DEF UndoDocument, UndoVersion, UndoDone, RestoreCrash
  <2> QED BY <2>2, <2>3, <2>4, <2>5 DEF Restore
<1>3. job[w] \in Job /\ job \in [Writers -> Job \cup {NoJob}]
  BY <1>2 DEF JobOK
<1>4. ASSUME job'[w] = NoJob \/ SameBackup(w),
             job'[w] # NoJob, rows' \subseteq rows, row'[w] \in {row[w], NoRow},
             pc'[w] \notin AddLabels
      PROVE  KeepsKnown(w)
  BY <1>2, <1>4 DEF KeepsKnown
<1>5. "idle" \notin AddLabels /\ "create_put" \notin AddLabels
      /\ DeleteLabels \cap AddLabels = {}
  BY DEF AddLabels, DeleteLabels
<1>6. \A j \in Job : j # NoJob
  BY DEF Job, JobLabels, NoJob
<1>7. ASSUME NEW label, GotoJob(w, label)
      PROVE  job'[w] # NoJob /\ SameBackup(w)
  <2>1. job'[w] = [job[w] EXCEPT !.at = label]
    BY <1>3, <1>7 DEF GotoJob
  <2> QED BY <1>3, <2>1 DEF Job, NoJob, SameBackup
<1>8. ASSUME NEW e, RollbackJob(w, e)
      PROVE  job'[w] # NoJob /\ SameBackup(w)
  BY <1>3, <1>8 DEF RollbackJob, Job, NoJob, SameBackup
<1>9. ASSUME NEW e, Finish(w, e)
      PROVE  pc'[w] = "idle" /\ row'[w] = NoRow
  BY <1>9 DEF Finish, TypeOK
<1>10. CASE RestoreCallFails(w) \/ RestoreDone(w) \/ UndoDone(w) \/ RestoreCrash(w)
  BY <1>1, <1>10 DEF RestoreCallFails, RestoreDone, UndoDone, RestoreCrash
<1>11. CASE RestoreDelete(w) \/ UndoDocument(w)
  <2>1. DeleteRows(w) \/ DeleteNotFound(w) \/ Refuse(w)
    BY <1>11 DEF RestoreDelete, UndoDocument
  <2>2. rows' \subseteq rows /\ row'[w] \in {row[w], NoRow} /\ pc'[w] \notin AddLabels
    <3>1. CASE DeleteRows(w)
      BY <1>5, <3>1 DEF DeleteRows, Goto, TypeOK, DeleteLabels
    <3>2. CASE DeleteNotFound(w) \/ Refuse(w)
      BY <1>5, <1>9, <3>2 DEF DeleteNotFound, Refuse
    <3> QED BY <2>1, <3>1, <3>2
  <2> QED BY <1>4, <1>7, <1>11, <2>2 DEF RestoreDelete, UndoDocument
<1>12. CASE RestoreDeleted(w)
  <2>1. CASE err[w] = "ok"
    <3>1. job'[w] = [job[w] EXCEPT !.at = "loop", !.exists = FALSE] /\ UNCHANGED vars
      BY <1>3, <1>12, <2>1 DEF RestoreDeleted
    <3>2. job'[w] # NoJob /\ SameBackup(w)
      BY <1>3, <3>1 DEF Job, NoJob, SameBackup
    <3> QED BY <1>4, <3>1, <3>2 DEF vars, locals
  <2> QED BY <1>1, <1>12, <2>1 DEF RestoreDeleted
<1>13. CASE RestoreCompany(w)
  BY <1>1, <1>4, <1>7, <1>13 DEF RestoreCompany, vars, locals
<1>14. CASE RestoreVersions(w)
  <2>1. CASE rows # {}
    <3>1. PICK left : job'[w] = [job[w] EXCEPT !.at = "loop", !.left = left]
      BY <1>3, <1>14, <2>1 DEF RestoreVersions
    <3>2. job'[w] # NoJob /\ SameBackup(w)
      BY <1>3, <3>1 DEF Job, NoJob, SameBackup
    <3> QED BY <1>4, <1>14, <2>1, <3>2 DEF RestoreVersions, vars, locals
  <2> QED BY <1>1, <1>14, <2>1 DEF RestoreVersions
<1>15. CASE RestoreCreate(w)
  <2> DEFINE v == Min(job[w].left)
  <2>1. v \in VersionsOf(job[w].backup)
    BY <1>3, <1>15, NextVersionLeft DEF RestoreCreate
  <2> HIDE DEF v
  <2>2. CASE /\ CreateBegin(w)
             /\ row'[w] = GenesisRow(v, job[w].backup.company, job[w].backup.files[v])
    <3>1. OfBackup(row'[w], job[w])
      BY <2>1, <2>2 DEF OfBackup, GenesisRow
    <3>2. rows' = rows /\ pc'[w] \notin AddLabels
      BY <1>5, <2>2 DEF CreateBegin, Goto, TypeOK
    <3> QED BY <1>2, <1>7, <1>15, <3>1, <3>2 DEF RestoreCreate, KeepsKnown
  <2>3. CASE CreateExists(w) \/ Refuse(w)
    BY <1>4, <1>5, <1>7, <1>9, <1>15, <2>3 DEF RestoreCreate, CreateExists, Refuse
  <2> QED BY <1>15, <2>2, <2>3 DEF RestoreCreate, v
<1>16. CASE RestoreCreated(w)
  <2>1. CASE err[w] = "ok"
    <3> DEFINE left == job[w].left \ {Min(job[w].left)}
    <3>0. job' = [job EXCEPT ![w].at = "loop", ![w].exists = TRUE,
                             ![w].fresh = TRUE, ![w].left = left]
      BY <1>3, <1>16, <2>1 DEF RestoreCreated
    <3> HIDE DEF left
    <3>1. job'[w] = [job[w] EXCEPT !.at = "loop", !.exists = TRUE,
                                   !.fresh = TRUE, !.left = left]
      BY <1>3, <3>0
    <3>2. job'[w] # NoJob /\ SameBackup(w)
      BY <1>3, <3>1 DEF Job, NoJob, SameBackup
    <3> QED BY <1>4, <1>16, <3>2 DEF RestoreCreated, vars, locals
  <2> QED BY <1>4, <1>8, <1>16, <2>1 DEF RestoreCreated, vars, locals
<1>17. CASE RestoreInsert(w)
  <2> DEFINE v == Min(job[w].left)
  <2>1. v \in VersionsOf(job[w].backup)
    BY <1>3, <1>17, NextVersionLeft DEF RestoreInsert
  <2>2. /\ rows' = rows \cup {RestoredRow(job[w].backup, v)}
        /\ job' = [job EXCEPT ![w].at = "put", ![w].created = @ \cup {v}]
        /\ pc' = pc /\ row' = row
    BY <1>17 DEF RestoreInsert
  <2> HIDE DEF v
  <2>3. OfBackup(RestoredRow(job[w].backup, v), job[w])
    BY <2>1 DEF OfBackup, RestoredRow
  <2>4. PICK created : job'[w] = [job[w] EXCEPT !.at = "put", !.created = created]
    BY <1>3, <2>2
  <2>5. job'[w] # NoJob /\ SameBackup(w)
    BY <1>3, <2>4 DEF Job, NoJob, SameBackup
  <2> QED BY <1>2, <2>2, <2>3, <2>5 DEF KeepsKnown
<1>18. CASE RestoreInsertFails(w)
  BY <1>4, <1>8, <1>18 DEF RestoreInsertFails, vars, locals
<1>19. CASE RestorePut(w)
  <2>1. job' = job \/ job' = [job EXCEPT ![w].at = "loop",
                                        ![w].left = job[w].left \ {Min(job[w].left)}]
    BY <1>3, <1>19 DEF RestorePut
  <2>2. job'[w] # NoJob /\ SameBackup(w)
    <3>1. CASE job' = job
      BY <1>2, <3>1 DEF SameBackup
    <3>2. CASE job' # job
      <4>1. PICK left : job'[w] = [job[w] EXCEPT !.at = "loop", !.left = left]
        BY <1>3, <2>1, <3>2
      <4> QED BY <1>3, <4>1 DEF Job, NoJob, SameBackup
    <3> QED BY <3>1, <3>2
  <2> QED BY <1>4, <1>19, <2>2 DEF RestorePut
<1>20. CASE RestorePutFails(w)
  BY <1>4, <1>8, <1>20 DEF RestorePutFails
<1>21. CASE UndoVersion(w)
  <2>1. PICK created : job'[w] = [job[w] EXCEPT !.created = created]
    BY <1>3, <1>21 DEF UndoVersion
  <2>2. job'[w] # NoJob /\ SameBackup(w)
    <3>1. job'[w].at = job[w].at /\ job[w].at # "none"
      BY <1>3, <2>1 DEF Job, JobLabels
    <3> QED BY <1>3, <2>1, <3>1 DEF Job, NoJob, SameBackup
  <2>3. DeleteVersionRow(w) \/ DeleteVersionNotFound(w) \/ Refuse(w)
    BY <1>21 DEF UndoVersion
  <2>4. rows' \subseteq rows /\ row'[w] \in {row[w], NoRow} /\ pc'[w] \notin AddLabels
    <3>1. CASE DeleteVersionRow(w)
      BY <1>5, <3>1 DEF DeleteVersionRow, WithoutVersion, Goto, TypeOK, DeleteLabels
    <3>2. CASE DeleteVersionNotFound(w) \/ Refuse(w)
      BY <1>5, <1>9, <3>2 DEF DeleteVersionNotFound, Refuse
    <3> QED BY <2>3, <3>1, <3>2
  <2> QED BY <1>4, <2>2, <2>4
<1> QED
  BY <1>10, <1>11, <1>12, <1>13, <1>14, <1>15, <1>16, <1>17, <1>18, <1>19, <1>20, <1>21
  DEF Restore
\* What is known before a step is known after it.
LEMMA KnownStays ==
    ASSUME SourceOK, SourceChange \/ UNCHANGED sourceVars, NEW v \in Nat, NEW files,
           Known(v, files)
    PROVE  StillKnown(v, files)
<1>1. CASE SourceChange
  BY <1>1, SourceChangeStep, SourceChangeKnows
<1>2. CASE UNCHANGED sourceVars
  BY <1>2 DEF sourceVars, Known, StillKnown
<1> QED BY <1>1, <1>2

LEMMA InitAgreeInv == SyncInit => AgreeInv
<1> SUFFICES ASSUME SyncInit
             PROVE  AgreeInv
  OBVIOUS
<1>1. SnapshotInv
  BY SyncInitInv
<1>2. RestoreInv
  BY InitRestoreInv DEF SyncInit
<1>3. rows = {} /\ pc = [w \in Writers |-> "idle"] /\ row = [w \in Writers |-> NoRow]
      /\ job = [w \in Writers |-> NoJob]
  BY DEF SyncInit, RestoreInit, Init
<1> QED BY <1>1, <1>2, <1>3 DEF AgreeInv, WriterKnows, AddLabels

\* The versions that are read are known.
LEMMA CopyKnown ==
    ASSUME SnapshotInv, sync.at = "info", sync.left = {}
    PROVE  \A v \in VersionsOf(sync.copy) : v \in Versions /\ Known(v, sync.copy.files[v])
<1>1. ReadOK
  BY DEF SnapshotInv
<1>2. DOMAIN sync.copy.files = DOMAIN sync.listed
      /\ \A v \in DOMAIN sync.listed : sync.copy.files[v] = sync.listed[v]
  BY <1>1 DEF ReadOK
<1> QED BY <1>1, <1>2 DEF ReadOK, Known, VersionsOf

\* What w has after the step is what it had, or what the sync has read.
LEMMA AgreeStep ==
    ASSUME AgreeInv, [SyncNext]_syncVars, NEW w \in Writers
    PROVE  /\ \A r \in rows' : StillKnown(r.version, r.files)
           /\ row'[w] # NoRow => StillKnown(row'[w].version, row'[w].files)
           /\ job'[w] # NoJob =>
                \A v \in VersionsOf(job'[w].backup) : StillKnown(v, job'[w].backup.files[v])
           /\ job'[w] = NoJob => pc'[w] = "idle"
           /\ pc'[w] \notin AddLabels
<1>1. /\ SnapshotInv /\ SourceOK /\ RestoreInv /\ TypeOK /\ RowHeld /\ JobOK
      /\ \A r \in rows : r.version \in Nat /\ Known(r.version, r.files)
      /\ WriterKnows(w)
  BY VersionsAreNaturals DEF AgreeInv, SnapshotInv, RestoreInv, TableInv, TypeOK, Row
<1>2. /\ row[w] # NoRow => row[w].version \in Nat
      /\ job[w] # NoJob => VersionsOf(job[w].backup) \subseteq Nat
  BY <1>1, VersionsAreNaturals, BackupsAssumption DEF TypeOK, Row, JobOK, Job
<1>3. CASE UNCHANGED restoreVars /\ (SourceChange \/ UNCHANGED sourceVars)
  <2>1. /\ \A r \in rows : StillKnown(r.version, r.files)
        /\ row[w] # NoRow => StillKnown(row[w].version, row[w].files)
        /\ job[w] # NoJob =>
             \A v \in VersionsOf(job[w].backup) : StillKnown(v, job[w].backup.files[v])
    BY <1>1, <1>2, <1>3, KnownStays DEF WriterKnows
  <2> QED BY <1>1, <1>3, <2>1 DEF WriterKnows, restoreVars, vars, locals
<1>4. CASE SyncRestore(w)
  <2>1. /\ sync.at = "info" /\ sync.left = {} /\ RestoreBegin(w) /\ UNCHANGED sourceVars
        /\ job'[w].backup = sync.copy
    BY <1>1, <1>4 DEF SyncRestore, RestoreBegin, RestoreOf, SnapshotInv, SyncShape, JobOK
  <2>2. pc[w] = "idle" /\ job[w].at = "none" /\ UNCHANGED vars
    BY <2>1 DEF RestoreBegin, RestoreOf, At
  <2>3. \A v \in VersionsOf(sync.copy) : StillKnown(v, sync.copy.files[v])
    BY <1>1, <2>1, CopyKnown, VersionsAreNaturals, KnownStays
  <2>4. /\ \A r \in rows : StillKnown(r.version, r.files)
        /\ row[w] # NoRow => StillKnown(row[w].version, row[w].files)
    BY <1>1, <1>2, <2>1, KnownStays DEF WriterKnows
  <2> QED BY <2>1, <2>2, <2>3, <2>4 DEF vars, locals, AddLabels
<1>5. CASE SyncStores(w) \/ SyncMayFail(w)
  <2>1. job[w] # NoJob /\ UNCHANGED sourceVars /\ (Restore(w) \/ Operation(w))
    BY <1>5, SoundRestore, SoundOperation DEF SyncStores, SyncMayFail
  <2>2. ~RestoreBegin(w)
    BY <1>1, <2>1 DEF RestoreBegin, RestoreOf, At, JobOK, Job, JobLabels
  <2>3. KeepsKnown(w)
    BY <1>1, <2>1, <2>2, CallKnows, RestoreKnows DEF WriterKnows
  <2>4. \A v \in VersionsOf(job[w].backup) : StillKnown(v, job[w].backup.files[v])
    BY <1>1, <1>2, <2>1, KnownStays DEF WriterKnows
  <2>5. ASSUME NEW r, OfBackup(r, job[w])
        PROVE  StillKnown(r.version, r.files)
    BY <2>4, <2>5 DEF OfBackup
  <2>6. /\ \A r \in rows : StillKnown(r.version, r.files)
        /\ row[w] # NoRow => StillKnown(row[w].version, row[w].files)
    BY <1>1, <1>2, <2>1, KnownStays DEF WriterKnows
  <2>7. \A r \in rows' : StillKnown(r.version, r.files)
    BY <2>3, <2>5, <2>6 DEF KeepsKnown
  <2>8. row'[w] # NoRow => StillKnown(row'[w].version, row'[w].files)
    BY <2>3, <2>5, <2>6 DEF KeepsKnown
  <2> QED BY <2>3, <2>4, <2>7, <2>8 DEF KeepsKnown, SameBackup
<1>6. CASE SyncCompany \/ SyncVersions \/ SyncInfo \/ SyncFiles \/ SyncInvalid \/ SyncReturn(w)
  BY <1>3, <1>6
  DEF SyncCompany, SyncVersions, SyncInfo, SyncFiles, SyncInvalid, SyncReturn
<1>7. CASE SourceChange \/ UNCHANGED syncVars
  BY <1>3, <1>7 DEF SourceChange, syncVars
<1> QED
  BY <1>4, <1>5, <1>6, <1>7, SyncWriterAssumption DEF SyncNext, SyncStep

LEMMA AgreeInvStep == AgreeInv /\ [SyncNext]_syncVars => AgreeInv'
<1> SUFFICES ASSUME AgreeInv, [SyncNext]_syncVars
             PROVE  AgreeInv'
  OBVIOUS
<1>1. SnapshotInv'
  BY SnapshotInvStep DEF AgreeInv
<1>2. RestoreInv'
  BY DestinationStep, RestoreInvStep DEF AgreeInv
<1>3. \A w \in Writers : WriterKnows(w)'
  BY AgreeStep DEF WriterKnows, Known, StillKnown
<1>4. \A r \in rows' : StillKnown(r.version, r.files)
  <2>1. CASE Writers = {}
    <3>1. UNCHANGED restoreVars /\ (SourceChange \/ UNCHANGED sourceVars)
      BY <2>1
      DEF SyncNext, SyncStep, SourceChange, SyncCompany, SyncVersions, SyncInfo, SyncFiles,
          SyncInvalid, syncVars
    <3>2. /\ SourceOK /\ \A r \in rows : r.version \in Nat /\ Known(r.version, r.files)
      BY VersionsAreNaturals
      DEF AgreeInv, SnapshotInv, RestoreInv, TableInv, TypeOK, Row
    <3> QED BY <3>1, <3>2, KnownStays DEF restoreVars, vars
  <2>2. CASE Writers # {}
    BY <2>2, AgreeStep
  <2> QED BY <2>1, <2>2
<1> QED BY <1>1, <1>2, <1>3, <1>4 DEF AgreeInv, Known, StillKnown

\* A version that is at the destination has the files that it has at the source, for
\* any use of the source, any faults and crashes at the destination and any number of
\* syncs of either kind: RestoreDocument may take a version it finds, by its timestamp
\* alone, for the one in the backup.
THEOREM SidesStayInAgreement == SyncSpec => []SidesAgree
<1>1. AgreeInv => SidesAgree
  BY DEF AgreeInv, Known, SidesAgree
<1> QED
  BY InitAgreeInv, AgreeInvStep, <1>1, PTL DEF SyncSpec
----------------------------------------------------------------------------
(* The destination implements DocDb while syncs run, and what they bring   *)
(* over is complete.                                                       *)

\* The history variables of StoreConnAtomic beside a sync: they record what is seen
\* of the destination between two restores, and leave every other variable free.
HistoryStep ==
    IF UNCHANGED restoreVars THEN UNCHANGED <<seenDoc, seenOutcome>> ELSE NextSeen

WithHistory == InitSeen /\ [][HistoryStep]_atomicVars

LEMMA AtomicDestination ==
    ASSUME SnapshotInv, [SyncNext]_syncVars, [HistoryStep]_atomicVars
    PROVE  [AtomicNext]_atomicVars
<1>1. [RestoreNext]_restoreVars
  BY DestinationStep
<1>2. CASE UNCHANGED restoreVars
  BY <1>2 DEF HistoryStep, atomicVars
<1>3. CASE ~UNCHANGED restoreVars
  <2>1. NextSeen
    BY <1>3 DEF HistoryStep, atomicVars
  <2> QED BY <1>1, <1>3, <2>1 DEF RestoreNext, AtomicNext
<1> QED BY <1>2, <1>3

\* What the destination has of the versions that were listed at the source.
AsListed(r) == r.version \in DOMAIN sync.listed => r.files = sync.listed[r.version]

DeliverAt(w) ==
    /\ job[w] # NoJob => /\ sync.at = "restore"
                         /\ job[w].backup = sync.copy /\ job[w].recreate = sync.recreate
    /\ sync.at \in {"info", "files", "restore"} =>
        (\A r \in rows : AsListed(r)) /\ (row[w] # NoRow => AsListed(row[w]))
    /\ sync.at = "restore" /\ job[w] = NoJob /\ err[w] = "ok" => Holds(sync.copy)

DeliverInv ==
    /\ AgreeInv
    /\ AtomicInv
    /\ \A w \in Writers : DeliverAt(w)

LEMMA InitDeliverInv == SyncInit /\ InitSeen => DeliverInv
<1> SUFFICES ASSUME SyncInit, InitSeen
             PROVE  DeliverInv
  OBVIOUS
<1>1. AgreeInv /\ AtomicInv
  BY InitAgreeInv, InitAtomicInv DEF SyncInit, AtomicInit
<1>2. sync.at = "idle" /\ \A w \in Writers : job[w] = NoJob
  BY DEF SyncInit, RestoreInit, SyncResult
<1> QED BY <1>1, <1>2 DEF DeliverInv, DeliverAt

\* While the source is read, the destination rests.
LEMMA ReadingDelivers ==
    ASSUME DeliverInv, NEW w \in Writers, UNCHANGED restoreVars,
           \/ SourceChange
           \/ SyncCompany \/ SyncVersions \/ SyncInfo \/ SyncFiles \/ SyncInvalid
           \/ SyncReturn(w)
           \/ UNCHANGED syncVars
    PROVE  DeliverAt(w)'
<1>1. /\ DeliverAt(w) /\ SnapshotInv /\ SyncShape /\ SourceOK
      /\ UNCHANGED <<rows, blobs, row, err, job>>
  BY DEF DeliverInv, AgreeInv, SnapshotInv, restoreVars, vars, locals
<1>2. CASE sync' = sync
  BY <1>1, <1>2 DEF DeliverAt, AsListed, Holds, View
<1>3. CASE sync.at # "restore" /\ sync'.at \in {"idle", "versions"}
  BY <1>1, <1>3 DEF DeliverAt
<1>4. CASE /\ sync.at \in {"info", "files"} /\ sync'.at \in {"info", "files"}
           /\ sync'.listed = sync.listed
  BY <1>1, <1>4 DEF DeliverAt, AsListed
<1>5. CASE SyncReturn(w)
  BY <1>1, <1>5 DEF SyncReturn, SyncResult, DeliverAt
<1>6. CASE SyncVersions /\ sync'.at = "info"
  <2>1. sync.at = "versions" /\ sync'.listed = SourceFiles
    <3>1. sync' = [sync EXCEPT !.at = "info", !.left = DOMAIN SourceFiles,
                               !.listed = SourceFiles]
      BY <1>6 DEF SyncVersions, SyncFails, SyncResult
    <3> QED BY <1>1, <1>6, <3>1 DEF SyncVersions, SyncShape
  <2>2. ASSUME NEW v, NEW files, Known(v, files), v \in DOMAIN SourceFiles
        PROVE  files = SourceFiles[v]
    BY <1>1, <2>2, SourceFilesAre DEF Known
  <2>3. /\ \A r \in rows : Known(r.version, r.files)
        /\ row[w] # NoRow => Known(row[w].version, row[w].files)
    BY DEF DeliverInv, AgreeInv, WriterKnows
  <2> QED BY <1>1, <1>6, <2>1, <2>2, <2>3 DEF DeliverAt, AsListed
<1>7. SyncFails => sync'.at = "idle"
  BY DEF SyncFails, SyncResult
<1>8. SyncCompany => sync.at # "restore" /\ sync'.at \in {"idle", "versions"}
  BY <1>1, <1>7 DEF SyncCompany, SyncShape
<1>9. SyncVersions => sync.at # "restore" /\ sync'.at \in {"idle", "info"}
  BY <1>1, <1>7 DEF SyncVersions, SyncShape
<1>10. SyncInfo => /\ sync.at = "info"
                   /\ \/ sync'.at = "idle"
                      \/ sync'.at = "files" /\ sync'.listed = sync.listed
  BY <1>1, <1>7 DEF SyncInfo, SyncShape
<1>11. SyncFiles => /\ sync.at = "files"
                    /\ \/ sync'.at = "idle"
                       \/ sync'.at = "info" /\ sync'.listed = sync.listed
  BY <1>1, <1>7 DEF SyncFiles, SyncShape
<1>12. SyncInvalid => sync.at = "info" /\ sync'.at = "idle"
  BY <1>7 DEF SyncInvalid
<1> QED
  BY <1>2, <1>3, <1>4, <1>5, <1>6, <1>8, <1>9, <1>10, <1>11, <1>12
  DEF SourceChange, syncVars

\* The restore that a sync calls brings over what the sync has read.
LEMMA StoringDelivers ==
    ASSUME DeliverInv, FailuresTakenBack, NEW w \in Writers,
           SyncStores(w) \/ SyncMayFail(w), [AtomicNext]_atomicVars
    PROVE  DeliverAt(w)'
<1>1. /\ sync.at = "restore" /\ job[w] # NoJob /\ UNCHANGED sync
      /\ Restore(w) \/ Operation(w)
  BY SoundRestore, SoundOperation DEF SyncStores, SyncMayFail
<1>2. /\ DeliverAt(w) /\ SnapshotInv /\ RestoreInv /\ JobOK /\ TypeOK /\ RowHeld
      /\ pc[w] \notin AddLabels
  BY DEF DeliverInv, AgreeInv, RestoreInv, TableInv, WriterKnows
<1>3. KeepsKnown(w)
  <2>1. ~RestoreBegin(w)
    BY <1>1, <1>2 DEF RestoreBegin, RestoreOf, At, JobOK, Job, JobLabels
  <2> QED BY <1>1, <1>2, <2>1, CallKnows, RestoreKnows
<1>4. job[w].backup = sync.copy /\ job[w].recreate = sync.recreate
      /\ sync.copy.files = sync.listed
  BY <1>1, <1>2 DEF DeliverAt, SnapshotInv
<1>5. ASSUME NEW r, OfBackup(r, job[w])
      PROVE  AsListed(r)
  BY <1>4, <1>5 DEF OfBackup, AsListed, VersionsOf
<1>6. (\A r \in rows' : AsListed(r)) /\ (row'[w] # NoRow => AsListed(row'[w]))
  BY <1>1, <1>2, <1>3, <1>5 DEF KeepsKnown, DeliverAt
<1>7. job'[w] # NoJob => job'[w].backup = sync.copy /\ job'[w].recreate = sync.recreate
  BY <1>3, <1>4 DEF KeepsKnown, SameBackup
<1>8. ASSUME job'[w] = NoJob, err'[w] = "ok"
      PROVE  Holds(sync.copy)'
  <2>1. WholeStep(w)
    <3>1. ~UNCHANGED atomicVars
      BY <1>1, <1>8 DEF atomicVars, restoreVars
    <3> QED BY <3>1, AtomicStep DEF DeliverInv
  <2>2. View' = Merged(IF sync.recreate THEN {} ELSE seenDoc, sync.copy)
    BY <1>1, <1>4, <1>8, <2>1 DEF WholeStep, RestoresWell
  <2>3. CASE sync.recreate
    <3>1. View' = Restored(sync.copy)
      BY <2>2, <2>3 DEF Merged
    <3> QED BY <1>1, <2>3, <3>1 DEF Holds
  <2>4. CASE ~sync.recreate
    <3>1. Complete(rows)'
      <4>1. pc'[w] = "idle"
        BY <1>3, <1>8 DEF KeepsKnown
      <4> QED
        BY <1>8, <2>1, <4>1 DEF WholeStep, WholeAt, AloneAt, Untouched, Clean
    <3>2. ASSUME NEW new \in Restored(sync.copy)
          PROVE  \E d \in View' : d.version = new.version /\ d.files = new.files
      <4>1. PICK d \in View' : d.version = new.version
        BY <2>2, <2>4 DEF Merged
      <4>2. PICK r \in rows' : d.version = r.version /\ d.files = r.files \cap blobs'
        BY <4>1 DEF View
      <4>3. d.files = r.files
        BY <3>1, <4>2 DEF Complete
      <4>4. new.version \in VersionsOf(sync.copy)
            /\ new.files = sync.copy.files[new.version]
        BY DEF Restored
      <4>5. r.files = sync.listed[new.version]
        BY <1>4, <1>6, <4>1, <4>2, <4>4 DEF AsListed, VersionsOf
      <4> QED BY <1>4, <4>1, <4>3, <4>4, <4>5
    <3> QED BY <1>1, <2>4, <3>2 DEF Holds
  <2> QED BY <2>3, <2>4
<1> QED BY <1>1, <1>6, <1>7, <1>8 DEF DeliverAt, AsListed

LEMMA DeliverInvStep ==
    DeliverInv /\ FailuresTakenBack /\ [SyncNext]_syncVars /\ [HistoryStep]_atomicVars
        => DeliverInv'
<1> SUFFICES ASSUME DeliverInv, FailuresTakenBack, [SyncNext]_syncVars,
                    [HistoryStep]_atomicVars
             PROVE  DeliverInv'
  OBVIOUS
<1>1. [AtomicNext]_atomicVars
  BY AtomicDestination DEF DeliverInv, AgreeInv
<1>2. AgreeInv' /\ AtomicInv'
  BY <1>1, AgreeInvStep, AtomicInvStep DEF DeliverInv
<1>3. ASSUME NEW w \in Writers
      PROVE  DeliverAt(w)'
  <2>1. CASE SyncStores(w) \/ SyncMayFail(w)
    BY <1>1, <2>1, StoringDelivers
  <2>2. CASE SyncRestore(w)
    <3>1. /\ UNCHANGED vars /\ job'[w].backup = sync.copy
          /\ job'[w].recreate = sync.recreate
          /\ sync.at = "info" /\ sync' = [sync EXCEPT !.at = "restore"]
      BY <2>2 DEF SyncRestore, RestoreOf, DeliverInv, AgreeInv, RestoreInv, JobOK
    <3>2. sync'.at = "restore" /\ sync'.copy = sync.copy /\ sync'.listed = sync.listed
          /\ sync'.recreate = sync.recreate
      BY <3>1 DEF DeliverInv, AgreeInv, SnapshotInv, SyncShape
    <3>3. job'[w] # NoJob
      <4>1. JobOK
        BY DEF DeliverInv, AgreeInv, RestoreInv
      <4>2. job'[w].at \in {"loop", "delete", "company"}
        BY <2>2, <4>1 DEF SyncRestore, RestoreBegin, RestoreOf, JobOK
      <4> QED BY <4>2 DEF NoJob
    <3>4. DeliverAt(w)
      BY DEF DeliverInv
    <3> QED BY <3>1, <3>2, <3>3, <3>4 DEF DeliverAt, AsListed, vars, locals
  <2>3. CASE \/ SyncCompany \/ SyncVersions \/ SyncInfo \/ SyncFiles \/ SyncInvalid
             \/ SyncReturn(w)
    BY <2>3, ReadingDelivers
    DEF SyncCompany, SyncVersions, SyncInfo, SyncFiles, SyncInvalid, SyncReturn
  <2>4. CASE SourceChange \/ UNCHANGED syncVars
    BY <2>4, ReadingDelivers DEF SourceChange, syncVars
  <2> QED
    BY <2>1, <2>2, <2>3, <2>4, SyncWriterAssumption DEF SyncNext, SyncStep
<1> QED BY <1>2, <1>3 DEF DeliverInv

\* A Conn that only syncs use is a Conn used by one writer at a time, and implements
\* DocDb: as long as the calls that take back a failed restore succeed, no reader of
\* the destination sees a document that is restored in part when a sync has returned.
THEOREM SyncedActsAtomically ==
    ASSUME FailuresTakenBack
    PROVE  SyncSpec /\ WithHistory => AtomicSpec /\ ActsAtomically
<1>1. SyncInit /\ InitSeen => AtomicInit
  BY DEF SyncInit, AtomicInit
<1>2. SnapshotInv /\ [SyncNext]_syncVars /\ [HistoryStep]_atomicVars
          => [AtomicNext]_atomicVars
  BY AtomicDestination
<1>3. SyncSpec /\ WithHistory => AtomicSpec
  BY SyncInitInv, SnapshotInvStep, <1>1, <1>2, PTL DEF SyncSpec, WithHistory, AtomicSpec
<1> QED BY <1>3, StoreActsAtomically, PTL

\* Under the same premise, a SyncDocument that returns without an error has brought
\* over all versions that it read, with their content: exactly these after a recreate,
\* and in a merge each of them with its own files, although the merge takes the
\* versions that it finds for those of the backup without looking at them.
THEOREM SyncsDeliver ==
    ASSUME FailuresTakenBack
    PROVE  SyncSpec /\ WithHistory => []SyncDelivers
<1>1. DeliverInv => SyncDelivers
  BY DEF DeliverInv, DeliverAt, SyncDelivers
<1> QED
  BY InitDeliverInv, DeliverInvStep, <1>1, PTL DEF SyncSpec, WithHistory
=============================================================================
