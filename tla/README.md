# A TLA+ verification of go-docdb

docdb is a Go library that stores documents: a document belongs to a company and has
versions, and a version has files. `Conn` (`src/conn.go`) is its interface, and it has
two implementations that keep state: one splits a document over a metadata store
(Postgres) and a content-addressed document store (S3), the other keeps it in directories
of a local file system. This project models both call by call, checks them with TLC,
relates them to one statement of what `Conn` promises, adds what the library builds on any
`Conn` (adding versions to several documents, syncing one `Conn` to another), and proves some
of the results for every size of the system with TLAPS.

Contents: [the system](#1-the-system), [the plan](#2-the-plan),
[the modules](#3-modules-and-code), [the runs](#4-the-runs),
[bounds](#5-bounds), [fairness](#6-fairness-and-liveness), [proofs](#7-the-proofs),
[where code and documentation disagree](#8-where-code-and-documentation-disagree),
[what is left out](#9-what-is-not-modelled).

## 1. The system

| Component | State | Operations | Hard parts |
|---|---|---|---|
| `Conn` contract (`conn.go`, `createversion.go`) | a document: its versions | create, add a version, delete, delete a version, change the company, restore | "all or nothing" over callbacks and several stores |
| Split-store Conn (`storeconn/conn.go`) | none: two stores, no lock | the same, as sequences of store calls, with rollbacks | interleaving, lost answers, crashes, rollbacks that race |
| Postgres metadata store (`storeconn/pgstore`) | a row per version, its files and change lists | insert, delete, company update, queries | unique constraints, which hashes only one version references |
| S3 document store (`storeconn/s3store`) | objects `doc/name/hash` | put, list, delete by hash or prefix, provider | content shared by versions, listing then deleting |
| Backups and sync (`hasheddocument.go`) | a `HashedDocument` | validate, read, restore, sync | order of versions, merging into other versions, a source that changes while it is read, retries after failures |
| Local file system Conn (`localfsdb`) | a directory per document and version, a JSON file per version, `company.id`, a marker directory per company | the same as `Conn` | one fact kept in several files, readers without lock, crashes |
| Multi-document add (`docdb.go`) | the versions created so far, in the call | `AddMultiDocumentVersionImpl` | a rollback over documents that others use, by document and time |
| Routing Conn (`routerconn`) | none | dispatch by company | fan-out of lookups |
| Version times (`versiontime.go`) | none | truncation, ordering | two versions in one millisecond |
| Document locks (`pgstore/schema/lock.sql`) | lock rows | SQL functions | not called from Go |
| Providers, wrappers, errors, configuration | none | forwarding | none |

How they interact. Both Conns call back into the caller twice: `createVersion` returns the
new files while the latest version is already read, and `onNewVersion` may veto a version
that is already written. The split-store Conn calls the metadata store and the document
store in turn; nothing makes the two calls one transaction. The metadata store is the
truth about versions, the document store about existence (`DocumentExists` asks for
objects). The local Conn holds a mutex per document while it writes, and its readers take
none. `RestoreDocument` of the split-store Conn runs on its own `DeleteDocument`,
`CreateDocument` and `DeleteDocumentVersion`.

What makes them correct:

* *the table*: one row per version and one genesis row per document, whatever races;
  a committed version never changes;
* *content*: what a committed version references can be read, and a delete or rollback of
  one version spares the content that another one shares;
* *ownership*: a rollback takes back what its own operation wrote and nothing else;
* *atomicity*: an operation that fails has done nothing, one that succeeds everything;
* *agreement*: the places that say whether a document exists, and whose it is, agree;
* *restores*: a backup is restored as a whole, and a merge leaves what was there;
* *multi-document adds*: all documents get their version or none, and every call returns;
* *sync*: what is copied is one state of the source, and retries catch up with it at last.

`PROJECT.json` lists under "hazards" the lines of the code where each can break.

## 2. The plan

Written first, because most can go wrong there: the split-store Conn over its two stores,
the promise of `Conn`, restores, then the local Conn. In this order:

1. `VersionFiles`, `PgMetadataStore`, `S3DocumentStore`, `StoreConn`: done.
2. `DocDb`, the abstract specification, and `StoreConnAtomic`: done, for one writer.
3. `HashedDocument`, `StoreConnRestore`: restores on the split stores: done; in
   `StoreConnAtomic` they implement `DocDb` as well.
4. `StoreConnRaces`: writers that race on the split stores: done.
5. `LocalFsDb`, `LocalFsDbAtomic`: the local Conn implements `DocDb`: done.
6. `AddMulti`: `AddMultiDocumentVersionImpl` over documents of any Conn that keeps its promise:
   done.
7. `Sync`: `ReadHashedDocument` of a `DocDb` that others change, then a restore to the split
   stores, again and again: done.
8. Proofs about `StoreConn` (table, immutability, content, ownership, races) and `AddMulti`: done.
9. Proofs about `LocalFsDb`: types, complete versions, kept versions, markers, and its
   refinement of `DocDb`: done.
10. Proofs about restores (table and immutability carry over, with one more action that inserts
    and one more that deletes) and about `Sync` (copies are snapshots, the destination is a
    split-store Conn, both sides agree, a sync that succeeds delivers): done.
11. Proofs about `StoreConnAtomic`: its refinement of `DocDb`, whole restores, merges and no
    orphaned content: done.

To come:

12. The versions-exist mode of the metadata store (section 8), if its use is settled.

The abstract specification is `DocDb`, for one document. Both Conns refine it, `Sync` has it
as its source, and `AddMulti` assumes it of every document, with the steps of an add apart.

## 3. Modules and code

| Module | Models | Extends |
|---|---|---|
| `VersionFiles` | file maps, carrying files forward, change lists | |
| `HashedDocument` | a backup, `Validate`, what restoring it means | `VersionFiles` |
| `PgMetadataStore` | the statements of `pgstore` on the rows of a document | `VersionFiles` |
| `S3DocumentStore` | the calls of `s3store` on the keys of a document | `VersionFiles` |
| `StoreConn` | `storeconn.conn`: create, add, deletes, company | both stores |
| `StoreConnRestore` | `RestoreDocument` on top of it | `StoreConn`, `HashedDocument` |
| `DocDb` | the contract of `Conn` for one document | `HashedDocument` |
| `StoreConnAtomic` | `StoreConn` and its restores as an implementation of `DocDb` | `StoreConnRestore` |
| `StoreConnRaces` | where the content of a version is while writers race | `StoreConn` |
| `StoreConnClaims` | statements of the documentation that the code breaks | `StoreConn` |
| `LocalFsDb` | `localfsdb.Conn`, restores included | `HashedDocument` |
| `LocalFsDbAtomic` | `LocalFsDb` as an implementation of `DocDb` | `LocalFsDb` |
| `AddMulti` | `AddMultiDocumentVersionImpl` over the documents of a Conn | |
| `Sync` | `ReadHashedDocument`, `SyncDocument` and its retries | `StoreConnRestore`, an instance of `DocDb` |
| `HashedDocumentProofs` | lemmas on backups, file maps and change lists | `HashedDocument` |
| `StoreConnProofs` | theorems on the table, content, ownership and races | `StoreConnRaces`, `HashedDocumentProofs` |
| `StoreConnRestoreProofs` | theorems on restores | `StoreConnRestore`, `StoreConnProofs` |
| `StoreConnAtomicProofs` | theorems on the refinement of `DocDb`, restores and orphaned content | `StoreConnAtomic`, `StoreConnRestoreProofs` |
| `SyncProofs` | theorems on copies, on what syncs deliver and on their destination | `Sync`, `StoreConnAtomicProofs` |
| `LocalFsDbProofs` | theorems on types, complete and kept versions | `LocalFsDbAtomic`, `HashedDocumentProofs` |
| `LocalFsDbAtomicProofs` | theorems on markers and the refinement of `DocDb` | `LocalFsDbProofs` |
| `AddMultiProofs` | theorems | `AddMulti` |
| `MC*` | constants for TLC | |

A file is a pair of a name and a hash; its content is its hash, and two files with the same
hash have the same content. A version is a number (`Versions`), which stands for its time.
All modules follow *one* document but `AddMulti`: nothing else in the modelled code relates
two.

**StoreConn.** `rows` are the rows of the document in `document_version` with their files
joined in, `blobs` the object keys. Per writer, `pc` is the label of the call it makes next
and `row`, `inserted`, `todo`, `doomed`, `err` are the local variables of the Go function
that outlive a call (`versionInfo`, `versionInfo != nil`, the files not yet put, the hashes
or keys to delete, `err`). One action is one call of a store, or of a callback: for
example `CreateDocument` is `CreateBegin` (the `DocumentExists` guard), `CreatePut` per
object, `CreateInsert`, `CreateNotify`, and its deferred rollback is `CreateDropList`,
`CreateDrop`, `CreateDropRow`, reached through `Rollback`, with the condition under which
the rollback may delete blobs (`RollbackDropsBlobs`): not if the error is an
`ErrDocumentAlreadyExists`. The code tests every error for that, so `CreateNotifyFails` has
callbacks that return one (say, of another document they create) and callbacks that do not.
`AddDocumentVersion` reads the latest row (`AddReadLatest`), calls back (`AddPrepare`), inserts,
puts, notifies. Listing keys and deleting them are two calls and so two actions.

A statement of the metadata store is one step: `pgstore` runs each in one transaction.
`UniqueViolation` has the two unique constraints of the schema.

*Faults.* `Faults` is a set of pairs of a kind and a label: a call "fails" (a batch delete
perhaps in part, a put perhaps after it stored the object), its answer is "lost" after it
took effect, the callback "panics" or returns an error that says of some document that it
"exists", the process "crash"es before the call. Runs choose sets.

**StoreConnRestore.** `job` is the `RestoreDocument` that a writer runs; its calls of
`CreateDocument`, `DeleteDocument` and `DeleteDocumentVersion` are the actions of
`StoreConn` for the same writer, and its own inserts and puts are actions here.

**StoreConnAtomic.** `seenDoc` and `seenOutcome` are auxiliary: what could be read, and the
result, when the last operation or restore returned.

**DocDb.** `doc` is the set of versions with company, predecessor and files; an operation
is one step. The deletes may report a failure after they deleted, as `conn.go` documents no
atomicity for them, and a failed recreate may leave no document, as it does document.
The company in `doc` is the one recorded with each version. The company of the document
itself is left out: in the local Conn it is `company.id`, which agrees with the versions only
until a version is deleted or the company set, and `MarkersMatch` and `FailedAddKeepsCompany`
are about it. So `DocDb` allows a merge across companies, which both Conns refuse.

**AddMulti.** `versions` has the versions of every document. `call` is, per caller, the loop
of `AddMultiDocumentVersionImpl`: `left` the documents still to do, `created` the versions
noted by the wrapped `onNewVersion`, `err` the result. `AddDocumentVersion` of the Conn below is
taken apart where others can see it: it reads the latest version, inserts a version that is
visible from then on, calls back, and withdraws it if the callback refuses. A callback that
refuses with `ErrNoChanges` has the document skipped (`AddNotifyNoChanges`). That is what both
Conns do, as far as their rollbacks succeed. `owned` is auxiliary: what a call has inserted
and is still there. The rollback (`UndoVersion`) is the deferred loop over `created`; it goes
on when a delete fails, and joins the errors.

**Sync.** `source` is a `DocDb` document that is changed between any two reads: it grows,
shrinks and moves to another company. It never takes a time twice (`newest`), as versions are
times of the clock. `sync` is the `SyncDocument` that runs: one action per call of the source
Conn (`SyncCompany`, `SyncVersions`, then `SyncInfo` and `SyncFiles` per version). The reads of
the files of one version are one step: a version that is deleted in between makes one of them
fail or the sizes and hashes disagree, which is the same error. What these reads find depends
on the kind of source (`SplitSource`). A directory has just the files of the version. Split
stores have `objects`, and the provider of a version lists every name that any version stored
under one of its hashes, and reads the first key of a name (`SourceProvider`, `Readable`):
after a rename, or with a content under two names, the read fails for good. The destination is
`StoreConnRestore`: `SyncStores` is a step in which nothing fails (an instance without faults),
`SyncMayFail` one in which something may.

**LocalFsDb.** `docDir`, `dirs` (version directory to the files in it), `infos` (version to
the content of its JSON file), `companyId` and `markers` are the disk. `lock` is the mutex
of the document; it is released in the step in which the operation returns, after the
deferred rollback. Every call that changes the disk is a step and so is every file that is
written or removed, as readers and crashes see them. `RemoveDir` and `RemoveEntry` remove a
tree entry by entry in any order, since `os.RemoveAll` promises none. An add refuses a version
directory that is there (`MakeDirExists`); a restore takes it for the one it makes, with the
files that are in it (`RestoreVersion`), and so records them in the version's info.

**LocalFsDbAtomic.** `seenDoc`, `seenOutcome`, `seenCompany` are the view when the mutex
was last free, and `abandoned` the versions of which a removal has begun; all auxiliary.

## 4. The runs

| Run | Question | Distinct states |
|---|---|---|
| `CrashAndFaults` | One writer, every fault but seven: does every settled version keep its content? | 216,526 |
| `ConcurrentRollback` | Two writers create and add, everything fails: is the table consistent, does a rollback take only its own row, and while nothing fails, is missing content always on its way? | 692,020 |
| `MergeAndRecreate` | Does the split-store Conn with one writer, restores of every small backup included, implement `DocDb`, without orphaned content? | 284,267 |
| `RestoreRace` | Two writers restore, create, add and delete under every fault and crash: is the table consistent, are versions immutable? | 2,000,679 |
| `LocalAtomic` | Do two goroutines of the local Conn implement `DocDb`, and does no company list a document that is gone or not its own, also when a change of the company fails half-way? | 478,028 |
| `LocalFaults` | Everything fails, and the process dies anywhere: are listed versions complete, also those restored onto the leftovers of a crash, and are other versions kept? | 1,481,275 |
| `AddMulti` | Two callers add versions to the same documents, everything fails: is each all or nothing, does it undo only its own versions, does it return, and after how many steps? | 295,890 |
| `Sync` | A split-store source that changes while it is read, a destination that fails: is every copy a snapshot, do both sides agree, has a sync that succeeds brought everything over, is no content orphaned, and does a sync succeed at last? | 608,016 |
| `ClaimAddRollback`, `ClaimProviderReads`, `ClaimLocalCompany`, `ClaimSyncRetry` | Statements that do not hold: section 8 | |

What the passing runs show, and what each would catch:

* `ContentPresent`. A delete of a version, or a rollback, that took all hashes of the
  version instead of those no other version references would lose shared content; that is
  its mutant.
* `ContentArrives` is the right form of it for writers that race: `AddDocumentVersion` shows
  its row before it puts the content, and others build on the row. `Provided` says that what a
  row lacks is still to be put by a writer that has not failed; it holds of the empty document,
  and no step but a failing one may break it, also not after failures that are over. Its mutant
  is a create that loses the race and deletes the blobs all the same.
* `RollbackTakesOwnRow`. A writer that loses a timestamp must not take the winner's row.
  It needs writers that do not delete: after a delete and a second insert of the same
  version, a late rollback takes a row that is not its own, as it goes by document and time.
* `ActsAtomically` is refinement: `PROPERTY Promise!Spec`. It covers the effect of every
  operation on every version, what is readable of it, and that failures change nothing. For a
  restore that fails `conn.go` has two sentences: what it wrote "is rolled back" (`conn.go:140`),
  and "versions successfully written before the failing one stay written" (`conn.go:140-141`).
  Both Conns roll back all that the call wrote; `DocDb`, `ActsAtomically` and
  `RestoredAsAWhole` state that, and so the contrary of the second sentence (section 8).
* `NoOrphanContent`: the document store decides whether a document exists, so objects without
  a version block it for ever. `MergeAndRecreate` checks it after every operation, and `Sync`
  with two names and two contents, so that puts and deletes of several objects fail in
  between. One failure of a create, that is rolled back too, is left out of the faults, as the
  property does not hold with it: a callback that returns an `ErrDocumentAlreadyExists`
  (section 8). The mutant is a create whose rollback leaves blobs.
* `RestoredAsAWhole` says, where `ActsAtomically` allows any failure, which: a restore that
  fails leaves the document as it was, or absent if an existing one was to be recreated.
  `MergeKeepsVersions` holds at every step, not only when the restore returns.
* `AllOrNothing` is about the moment at which a call returns: its versions are all there,
  or none is, or the error says that an undo failed. Its mutant returns without the rollback
  when the time of a version is taken by another caller. After a crash nothing undoes what
  was added: the property, like the code, says nothing of it.
* `RollbackTakesOwnVersions`: the rollback goes by document and time, and the Conn has already
  withdrawn a version that `onNewVersion` refused. If such a version were noted as created
  (the mutant), the rollback would later delete what another caller added at the same time.
* `CallsWindDown`: what a call has left to do is bounded by the documents it was given, and
  no step of its own turns back and none of another caller adds to it. Its mutant tries a
  failed undo again and again.
* `NoStrayMarkers`: whose a document is stands in `company.id` and in the marker directories. A
  change of the company that fails half-way inside an add is not taken back when the version is
  (section 8), and `LocalAtomic` has these failures. What holds even then is this: no document
  is listed for a company that is not its own, none that is gone is listed, and it is there just
  if it has a version. It needs removals that succeed. Its mutant is a company change that
  leaves the old marker. That the company does list the document, `MarkersMatch`, takes company
  changes that do not fail as well; it is proved (section 7).
* `CopyIsSnapshot`: versions are listed once and read one by one, and still no copy mixes two
  states of the source, because a version never changes and one that is gone is an error.
  Its mutant skips it instead. The company is read once and first: a copy may have an
  earlier company than its versions.
* `SidesAgree`: a merge takes a version that it finds for the one of the backup, by the
  timestamp alone. That is right because a version that both sides have has the same files on
  both, whatever failed before and whatever the source did between two syncs but to take a
  version's time twice. Its mutant gives
  a restored version the files of its predecessor.
* `SyncDelivers`: a sync that returns without an error has brought over all that it read,
  with its content, and after a recreate nothing else is there. Its mutant takes a row that
  the table refuses for one that is there already.
* `SyncArrives` is liveness: whatever failed before, and whatever it left at the destination,
  a sync that is retried while the source rests ends with the source's document at the
  destination, except in the cases that `Refused` names, and unless the source is `Unreadable`
  (which only a split-store source can be). It supposes, with `SyncDelivers`, that no process
  dies and that what takes back a failed restore succeeds: `ClaimSyncRetry` is what happens
  otherwise, and section 8 says what becomes of an unreadable source. Its mutant is a create
  that leaves blobs behind: the document then exists for every retry, and none can delete or
  create it.
* `ListedComplete` speaks to readers, who may look between any two calls: a version with a
  JSON file has the files recorded in it, unless a removal has begun. What a crash left in a
  directory is no exception, since a restore onto it records what is there: `LocalFaults` has
  versions of two files, so that directories with some of them are left. That the restored
  version then has files that the backup has not is reported in section 8; the mutant of this
  run records the backup's files instead.
* `KeepsOtherVersions`: whatever fails (but the listing of the versions that are left, section
  8), an operation that was not asked to delete a version leaves it listed, complete and
  unchanged.

Every property has a mutant in `PROJECT.json`: a plausible bug of a mapped definition with
which the same run finds the property violated.

## 5. Bounds

| Constant | Values | Why enough |
|---|---|---|
| `Names` | 1 or 2 | two names are needed for removed files, shared content under two names and a put or copy that fails between two files: `CrashAndFaults`, `Sync` and `LocalFaults` have them; the others are about versions that follow, replace or race each other, for which one name in two contents shows added, modified and unchanged |
| `Hashes` | 2 (1 in `LocalFaults`) | same and different content; the local Conn never compares contents across versions but to name the modified files, and a version directory with some of its files takes two names, not two contents |
| `Versions` | 2 or 3 | a predecessor, a latest and one in between or before; three where rows are chained (a version between two others), two where writers and restores interleave, in the local Conn and in `Sync`. There a third version needs room made elsewhere: the same `.cfg` passes with three versions and one content (205,832 states), and with three, two contents and one company (461,462) |
| `Companies` | 1 or 2 | a change and no change; `LocalFaults` has one, and failing changes of company are in `LocalAtomic` |
| `Writers` | 1 or 2 | a race is between two; the proofs have any number |
| `Backups` | all valid ones over the above, or the full ones, and small ones of another company | merge, recreate, refused |
| `Callers`, `Docs`, `DocLists` | 2 callers, 2 documents; both orders, one document alone, twice, none | two calls that meet in the opposite order, and one that adds twice to a document |
| `SplitSource` | split stores (directories in `ClaimSyncRetry`) | a source of directories shows its versions and no more, which the other does too as long as no hash is shared |
| `MaxChanges` | 3 (1 in `ClaimSyncRetry`) | the source gets two versions and loses one, or changes company, while it is read |
| `MaxFailures` | 1 | the destination fails once per behaviour, in any step of any sync; what a failure leaves behind blocks a retry or does not, and a second failure of the same kind begins from the same state |

`MaxChanges` and `MaxFailures` are the only counters: the first is what makes the source rest
at last. Symmetry is used for names, hashes and writers in
runs of safety properties whose constants are not ordered or distinguished; versions are
ordered and never symmetric. `LocalAtomic` has two writers and every fault that an operation's
rollback follows (`WriteFaults`), `LocalFaults` one writer and every fault: as the mutex
excludes the second one except in the rollback, a fault and a race meet in `LocalAtomic`, where
every failing call that is rolled back happens to both. Deadlock is checked in every run: an
idle writer can always call.

## 6. Fairness and liveness

The library has no loop that waits for another actor and no background work, so an operation
ends when its store calls return. Two liveness properties are stated, each under weak fairness
of the steps of the calls, and nothing else:

* `MultiReturns`, under `MultiFairness`: the steps of a call after its first. It assumes that
  the calls of the Conn and the callbacks return, with whatever result; a caller need not call,
  no result is fair, and a crash is never forced. What is checked is the loop over documents
  and the loop of the rollback: that every error path leads on.
* `SyncArrives`, under `SyncFairness`: the steps of `SyncDocument`, the next call of it
  included. The retry is the caller's, as the documentation of a recreate says
  (`hasheddocument.go:184`, `conn.go:122`). Steps that fail are not fair (`SyncMayFail` is no
  part of `SyncStep`) and there are at most `MaxFailures`, and the source is at rest after
  `MaxChanges` changes: without either, no sync can be expected to arrive.

That content of a committed version arrives at last is false as soon as a process dies after
the insert, since nothing repairs it; `ContentArrives` is its safety part.

## 7. The proofs

Checked by `tlapm` for every value of the constants:

*Split stores* (`StoreConnProofs`, one section per theorem).

* `TableInvariant`: `Spec => [](TypeOK /\ TableConsistent)`, for any number
  of writers, every operation and fault; `StoreTypesCorrect` is its first half. The inductive
  invariant is `TableInv`: `TableConsistent` alone is not inductive, since an insert writes the
  row a writer has held over several calls; `RowHeld` says that such a row is well formed and
  newer than its predecessor at each label at which it is held.
* `VersionsStayTheSame`: `Spec => VersionsImmutable`, from the same invariant:
  an insert is refused when its version is there, and no statement updates anything but the
  company.
* `ContentIsKept`: `ContentPresent` for one writer
  (`OneWriter`) and no fault of `ContentLosingFaults` (`NoContentLosingFault`). The invariant
  `ContentInv` has, per label, what the writer relies on: that its rows and its blobs are
  those it saw before (`AtCreate`, `AtAdd`, `AtDelete`), and that the hashes it is about to
  delete are exclusive to the version that goes. `ExclusiveHashesAreExclusive` is the lemma
  on the SQL query that carries it.
* `RollbacksTakeOwnRows`: `RollbackTakesOwnRow` for any number of
  writers that only create and add (`OnlyGrowing`), under every fault. `OwnInv`: a writer
  whose insert succeeded still finds its row, and no two writers own the same version.
* `ContentKeepsArriving`: `ContentArrives` under the same premise
  (`OnlyGrowing`) and every fault. Besides `OwnInv` it needs `PhaseInv`: a writer that is done
  putting owes nothing when it returns, and only a failure is rolled back. `Delivers` says what
  a step does to the content of the document, and one lemma shows that it preserves `Provided`.

*Restores and sync.*

* `StoreConnRestoreProofs!RestoresKeepTable` and `RestoresKeepVersions`: `TableConsistent` and
  `VersionsImmutable` for `RestoreSpec`, with any writers, backups and faults. Every step of a
  restore is a step of `StoreConn`, one that leaves the table, or the insert of
  `RestoredRow`, of which `RestoredRowType` and `PredecessorIsNewestOlder` show that it is
  of type `Row` and newer than its predecessor. `RestoreInv` adds to `TableInv` what a
  restore remembers: the versions it has left are versions of a valid backup (`JobOK`).
* `StoreConnAtomicProofs!StoreActsAtomically`, `NoContentOrphaned` and `RestoresAreWhole`: the
  refinement of `DocDb` (`ActsAtomically`), `NoOrphanContent` and `RestoredAsAWhole`, for one
  writer (`OneWriterAssumption`). The premise is `FailuresTakenBack`, the faults of the run
  `MergeAndRecreate`: a call or a callback may fail before or while something is written, the
  calls that take that back succeed, and no callback returns an `ErrDocumentAlreadyExists`,
  which CreateDocument would take for a race that it lost. With a failing rollback TLC finds
  all three violated, as it leaves its blobs, or a row; with such a callback added to the
  faults of that run, only `NoOrphanContent`, since no version shows the blobs that it leaves
  (section 8). The invariant `WholeInv`
  relates the two stores to what was last seen (`seenDoc`), per label of the call to come:
  `CreateAt` and `DeleteAt` for a create or delete, whoever called it, `AddAt` and `AloneAt`
  for an operation that no restore has called, `JobAt` for a restore. A restore has inserted,
  oldest first, the versions of the backup that were not there (`Inserted`), keeps those that
  it found (`Base`), and only the version whose files are being put is incomplete; a rollback
  takes away what was `created`, and leaves `Base`. The calls of the operations are proved once
  (`CreateCalls`, `DeleteCalls`, `DeleteVersionCalls`) and used for operations of their own
  (`AloneWhole`) and for those of a restore (`JobCalls`). Each step of a restore keeps `JobAt`,
  or returns with what `RestoredAsAWhole` says (`JobWhole`), which `DocDb` allows
  (`PromiseRestores`). `RowGoes` says that deleting a row and the hashes that are exclusive to
  it leaves what the other rows need and no more.
* `StoreConnAtomicProofs!MergesKeepVersions`: `MergeKeepsVersions` for one writer and every
  fault and crash, more than the run has. Its invariant `MergeInv` is a smaller one: what the
  merge found is still there (`Found`), none of it is among the versions that the merge has
  noted as created and may take back, and none of its files among the keys that a delete in
  the rollback is about to take (`MergesOn`); or no file could be read to begin with, and the
  document is created.
* `SyncProofs!SyncCopiesSnapshot`: `[]CopyIsSnapshot`, for any source, destination, backups and
  faults. `SnapshotInv`: what was copied so far is what was listed, what is left of the list is
  still to be copied, no version is newer than `newest`, and a listed version that is still at
  the source still has the files it had when it was listed; the last holds because no time is
  taken twice (`SourceOK`).
* `SyncProofs!SyncUsesDestination`: `SyncSpec => RestoreSpec`, step by step (`DestinationStep`):
  a step of the instance without faults is one of `StoreConnRestore` with any faults
  (`SoundRestore`, `SoundOperation`), and everything else leaves the destination alone. So
  every theorem about restores holds of the destination; `SyncKeepsTable` and
  `SyncKeepsVersions` say so for the table and for `VersionsImmutable`.
* `SyncProofs!SidesStayInAgreement`: `[]SidesAgree`, with every fault and crash. `AgreeInv`:
  each version in a row, in a row that a writer holds and in the backup of the restore that
  runs is `Known`, which is that it is not newer than `newest` and has the files that the
  source has for it, if the source has it. What is no longer in the source needs the first
  half: that time will not come back with other files, since the source takes no time twice.
  `KeepsKnown` says what any step of a restore, or of an operation it calls, can do to what the
  writer has.
* `SyncProofs!SyncedActsAtomically` and `SyncsDeliver`: while syncs run, the destination
  implements `DocDb` (`ActsAtomically`), and `[]SyncDelivers`. The premise is again
  `FailuresTakenBack`, the faults of the run `Sync`. The history variables of `StoreConnAtomic`
  stand beside `Sync` (`WithHistory`): they record and constrain nothing, and `SyncSpec` with
  them implements `AtomicSpec`. `DeliverInv` adds that, from the listing on, every row at the
  destination that was listed agrees with the listing; with that, what a merge found and left
  is what it read. Without the premise it does not hold (section 8).

*Local file system Conn*, for any writers, names, hashes, versions, companies and backups.

* `LocalFsDbProofs!LocalTypesCorrect` and `ListedVersionsComplete`: `TypeOK` and
  `ListedComplete`, with every fault and crash, "unlisted" included, and with restores and adds
  onto whatever they left. `LocalInv` ties `lock` and
  `pc` together (`ControlOK`: who does not hold the mutex makes no call, who holds it makes one of
  its operation), and says what the writing of a version relies on over several calls
  (`WritingOK`): its directory and the files still to be written make a file map, nothing is
  left to write when the info is written, and an info that is there already is one whose
  version lost files before (a removal that failed). A restore writes into directories that are
  there, so that it has to be said that it never writes into that of a listed version (`LeftOK`).
* `LocalFsDbProofs!OtherVersionsKept`: `KeepsOtherVersions`, with every fault and crash but
  "unlisted" (section 8), which is the premise of the theorem. `KeepInv`: of what could be read
  before the operation and it was not asked to delete, everything can be read as it was, and it
  is none of the versions that the operation may touch from here on (`Mine`). That takes what a
  restore knows of itself (`MergeAt`): whatever it writes it has noted as created, and one that
  found a document never reaches the calls that remove one.
* `LocalFsDbAtomicProofs!MarkersNeverStray` and `MarkersAlwaysMatch`: `NoStrayMarkers` and
  `MarkersMatch`. The premise of the first is `FailuresRolledBack`: the process lives, and what
  fails is a call of `setDocumentCompanyID` or one that a deferred rollback follows, so no call of
  a removal, of a rollback, or of a restore before it registers its own. That of the second is
  also `CompanyChangesSucceed`. The faults of `LocalAtomic` are those of the first, and TLC finds
  `MarkersMatch` violated with them and `NoStrayMarkers` with a failing removal, so that neither
  premise can go. `LocalActsAtomically`: the
  refinement of `DocDb`,
  initial states and every step, from `FailuresRolledBack`, for writers that do not call
  `SetDocumentCompanyID`, which `DocDb` describes otherwise (section 3). All rest on `WholeInv`:
  between operations the disk is tidy (`QuietOK`, of which `Marked` lets the marker be missing
  after a company change that failed); during one, it differs from the last view in
  what the calls made so far account for, per operation and label (`CreateAt`, `AddAt`,
  `DeleteAt`, `DeleteVersionAt`, `RestoreAt`). One lemma per operation (`CreateWhole` and so on)
  shows that each of its calls either keeps that or, if the mutex becomes free, makes a step of
  `DocDb`.

*Multi-document adds.*

* `AddMultiProofs!MultiIsAllOrNothing` and `MultiTakesOwnVersions`: `AllOrNothing` and
  `RollbackTakesOwnVersions` for any callers, documents, versions, lists of documents and
  faults. The inductive invariant `MultiInv` ties what a call has noted (`created`) to what it
  owns: what is noted is owned and noted once, the version that `onNewVersion` is asked about
  is owned and not noted yet, in a rollback without a failed undo all that is owned is noted,
  what is owned is there, and no two calls own the same version. The last two are what makes a
  delete by document and time hit the right version; neither property is inductive without
  them. `OwnStep` reduces every action to what it does to its own call.
* `AddMultiProofs!MultiCallsWindDown`: `CallsWindDown`. `StepsLeft` is the measure: a call with
  n documents ends after at most 4 n + 2 steps, its rollback included. Of `MultiReturns` only
  that the steps are taken is left to fairness.

Assumptions on the constants are those of the modules (`VersionsAssumption`,
`MultiVersionsAssumption`: versions are positive numbers; `BackupsAssumption`: a backup is one
that `Validate` accepts, of known companies, versions and files; `NamesAssumption`,
`RestoreOpsAssumption`, `FaultsAssumption`, `OpsAssumption`, `MultiDocListsAssumption`,
`MultiFaultsAssumption`), which TLC evaluates in the runs, and the premises named above, which
stand in the theorems.

Only model-checked: the two liveness properties, `MultiReturns` (of which `MultiCallsWindDown`
proves the part that needs no fairness) and `SyncArrives`. Every
invariant and every action property of the passing runs is proved. Out of the prover's reach
are liveness under fairness, `ENABLED` and induction over data; recursion is avoided throughout.

## 8. Where code and documentation disagree

Four runs check a statement of the documentation and find it violated (`findings` in
`PROJECT.json`).

* `ClaimAddRollback`: a failed put in the split-store `AddDocumentVersion` takes the row back, but
  a second writer may have added a version on it, which carries a file forward that was never
  put.
* `ClaimProviderReads`: the S3 provider reads the first key with the file's name, which may
  have the content of another version whose hash this version also references.
* `ClaimLocalCompany`: the local `AddDocumentVersion` undoes a change of company to the company
  in the latest JSON file, which `SetDocumentCompanyID` does not update; after the latest version
  is deleted the two differ as well.
* `ClaimSyncRetry`: `DeleteDocument` of a recreate deletes the rows and then fails to delete
  the blobs. "The sync can simply be re-run" (`conn.go:125`), but every retry finds that the
  document exists, tries to delete it and gets "not found". A `CreateDocument` that died
  between its puts and its insert leaves the same state.

Five more cases, in which the code does not do what a statement of the documentation says or
lets expect, have no run of their own; the passing properties leave them out by name, or state
what the code does.

* *A create whose callback meets an existing document.* If `onNewVersion` fails, "the entire
  document creation is atomically rolled back" (`conn.go:73`). The rollback of the split-store
  `CreateDocument` keeps the blobs if the error is an `ErrDocumentAlreadyExists`, which is to say
  that another create won; but it tests any error (`storeconn/conn.go:187`). A callback that
  creates another document, finds it there and returns that error leaves blobs without a row:
  the document exists, has no version, and can be neither created nor deleted. The model has
  it (`CreateNotifyFails`, the fault "exists"); `NoOrphanContent` is violated with it, so that
  `FailuresTakenBack` and the runs of that property exclude it.
* *A restore that fails after some versions.* "Versions successfully written before the failing
  one stay written" (`conn.go:140-141`). Both implementations delete every version that the
  failed call wrote (`storeconn/conn.go:458`, `localfsdb/conn.go:1056`), which is what the
  sentence before that one says, and what `DocDb`, `ActsAtomically` and `RestoredAsAWhole` state.
  Code and documentation disagree here, and the documentation with itself; which was meant is
  not for a model to say.
* *A change of company that fails half-way.* If it does in an `AddDocumentVersion` of the local
  Conn, the version is rolled back and the change is not (`localfsdb/conn.go:864`): the document
  has the new company, or the old one whose list lacks it, and no version says so. The promise
  that "the entire version creation is atomically rolled back" (`conn.go:90-91`) is given for
  the callbacks, after whose failure the code does undo the change; of an error in between
  nothing is said. The model has it (`SetFails`): `MarkersMatch` excludes it
  (`CompanyChangesSucceed`), `NoStrayMarkers` does not.
* *A local restore onto leftovers.* A restore adds the versions of the backup that are not there
  (`conn.go:134-135`). Where an add has died, `MakeDir` takes the version's directory that is there
  for the one it makes (`localfsdb/conn.go:1081`), and files in it that the backup does not have
  become files of the restored version (`:1094`). The model has it (`RestoreVersion`), and
  `LocalFaults` explores it: the version is complete as recorded (`ListedComplete`), but not the
  backup's. `LocalActsAtomically` is about processes that live.
* *A sync from split stores after a rename.* "SyncDocument copies a document with all its
  versions and file content" (`hasheddocument.go:168`). From split stores a version cannot be read
  if another one stored one of its contents under another name, as a rename does: the provider
  lists both names, and the reader refuses the one that is not in the info
  (`hasheddocument.go:139`), or reads the wrong content for a name (`:151`). No fault is needed,
  and no retry helps. The model has it (`SyncFiles`); `SyncArrives` exempts it (`Unreadable`).

*Seven faults lose content* of a committed version in the split stores
(`ContentLosingFaults`): a lost answer of the insert in create or add, a failed or crashed
delete of the row in either rollback, and a crash while an added version's files are put.

*The local `DeleteDocumentVersion`* takes an error of listing the remaining versions for no
versions and removes the whole document (`conn.go:562`). The model has it as the fault
"unlisted"; `KeepsOtherVersions` fails with it, so `LocalFaults` leaves it out by name.

Also seen in the code while modelling, without a run:

* The split-store Conn never returns `ErrNoChanges`, which `conn.go` documents.
* In the split-store Conn, added and modified files are told apart by the blobs that are
  stored and not by the previous version.
* A panic in `onNewVersion` of the split-store `CreateDocument` rolls nothing back, because
  `recover` is called one function too deep in the deferred closure (`storeconn/conn.go:165`;
  `conn.go:73` says it is rolled back). The model has it as `CreateNotifyPanics`.
* Deleting a version between two with the same files leaves a legal document whose backup
  `Validate` refuses (`hasheddocument.go:88`), so it can neither be synced nor restored.
* `SyncDocument` never deletes at the destination in a merge, and a copy may carry the company
  from before its versions were listed.
* While a multi-document add runs, others see its versions and can build on them; its rollback
  then takes a version from the middle of the document.
* When a put of a merge fails and then a delete of its rollback, a row without its files stays.
  The next merge takes the version for one that is there and returns without an error: with
  the fault "undo" and `MaxFailures = 2`, `SyncDelivers` is violated.
* In the versions-exist mode (`pgstore/metadatastore.go:33`), made for copying blobs to a new
  document store, a merge takes every version for one that is there: after a copy that died
  with some blobs put, a second merge skips all versions and succeeds without the others
  (`storeconn/conn.go:441`, `:475`). A recreate does not have the problem.
* `RouterConn.CreateDocument` and `RestoreDocument` go by company: with the company of another
  backend they make a second copy of a document, and `SetDocumentCompanyID` to such a company
  leaves a document that `CompanyDocumentIDs` does not find, although "a document lives
  entirely on one backend" (`routerconn.go:15`).
* `CompanyDocumentIDs` of `pgstore` also lists a document for companies it has left.
* The rollback of a failed create deletes the blobs of a second create of the document that
  passed the guard before and commits after.
* A merge of a version older than the genesis row is refused as already existing, and a
  failed restore's rollback deletes versions that other writers wrote since.
* A local restore that fails before its rollback is registered leaves a document directory
  without versions, and the local Conn ignores a `NewCompanyID` equal to the company in the
  latest JSON file even if the document's company is another one by now.

## 9. What is not modelled

* The versions-exist mode of the metadata store: a field-by-field comparison in place of the
  insert, and deletes that delete nothing. Only tests of the metadata store alone use it; no
  code in the repository drives a copy in it.
* `RouterConn`: it keeps nothing and forwards every call to the Conn that a callback of the
  caller names; a model would be a guess about the callback.
* `lock.sql`: SQL functions that nothing in the repository calls.
* `VersionTime`: parsing, formatting and truncation. All the modelled code uses is the order
  of versions; that two writers choose the same time is modelled.
* `SubstituteDeletedDocumentVersion`, the reads of the latest version's files and the copy
  helpers of `docdb.go`: two or more reads of a document, some of them written to directories
  outside the database; what can change between two reads is what `Sync` shows.
* `SyncAllCompanyDocuments`: `SyncDocument` for one document after the other.
* Files of one version being read one at a time: a version's files never change
  (`VersionsImmutable`), so that they differ only in whether the version is still there.
* A transaction of the caller around store calls, and statements that overlap under READ
  COMMITTED: each statement of the metadata store is one step.
* Duplicate names in `WriteFiles`, pagination of listings, and the batches of 1000 keys (a
  failing delete takes any subset of the keys).
* Torn files: a JSON file, `company.id` or a copied file is written whole or not at all. The
  `doc.json` fallback and the misspelled field of older formats of the local Conn.
* Several processes on one local directory: the mutex is in the process.
* Directories that `uuiddir` shares between documents. Whether removing a marker that is
  missing is an error depends on it: both happen.
* File providers, logging, wrappers, configuration and error texts.
