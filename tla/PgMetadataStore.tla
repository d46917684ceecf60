-------------------------- MODULE PgMetadataStore --------------------------
(***************************************************************************)
(* The Postgres metadata store of one document: the statements of          *)
(* storeconn/pgstore as operators on the table document_version joined     *)
(* with document_version_file.  A table is a set of rows; every statement  *)
(* runs in one transaction, so an operator here is one atomic step of the  *)
(* modules that use it.                                                    *)
(***************************************************************************)
EXTENDS VersionFiles

CONSTANTS Versions,    \* version timestamps, ordered as numbers
          Companies    \* company IDs

ASSUME VersionsAssumption == Versions \subseteq Nat \ {0}

\* A row with the file rows that belong to it.  "document_version_file" has a
\* unique (document_version_id, name), hence the file maps.
Row == [version  : Versions,
        company  : Companies,
        prev     : Versions \cup {NoVersion},
        files    : FileMaps \ {{}},
        added    : SUBSET Names,
        removed  : SUBSET Names,
        modified : SUBSET Names]

HasVersion(table, v) == \E r \in table : r.version = v

IsGenesis(r) == r.prev = NoVersion

\* LatestDocumentVersionInfo: "order by version desc limit 1".
IsLatest(table, r) == \A q \in table : q.version <= r.version

\* Mutation of UniqueViolation: the partial unique index is missing.
UniqueViolationByVersionOnly(table, r) == HasVersion(table, r.version)

\* Mutation of UniqueViolation: no constraint on (document_id, version).
UniqueViolationGenesisOnly(table, r) == IsGenesis(r) /\ \E q \in table : IsGenesis(q)

\* The unique constraint on (document_id, version) and the partial unique
\* index that allows one row per document with a NULL prev_version.
UniqueViolation(table, r) ==
    \/ HasVersion(table, r.version)
    \/ IsGenesis(r) /\ \E q \in table : IsGenesis(q)

\* DeleteDocumentVersion, the delete: the file rows go by cascade.
WithoutVersion(table, v) == {r \in table : r.version # v}

\* Mutation of ExclusiveHashes: every hash of the deleted version.
AllHashesOfVersion(table, v) ==
    UNION {HashesOf(r.files) : r \in {q \in table : q.version = v}}

\* DeleteDocumentVersion, the common table expression hashes_to_delete:
\* hashes that only the deleted version references.
ExclusiveHashes(table, v) ==
    {h \in Hashes :
        /\ \E r \in table : r.version = v /\ h \in HashesOf(r.files)
        /\ ~ \E r \in table : r.version # v /\ h \in HashesOf(r.files)}

\* SetDocumentCompanyID updates the rows of all versions.
WithCompany(table, c) == {[r EXCEPT !.company = c] : r \in table}

\* DocumentCompanyID: the company of the latest version's row.
CompanyOf(table) == (CHOOSE r \in table : IsLatest(table, r)).company
=============================================================================
