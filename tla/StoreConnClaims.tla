-------------------------- MODULE StoreConnClaims --------------------------
(***************************************************************************)
(* Sentences of the documentation and of comments about the split-store    *)
(* Conn that its code does not keep, each with the run that refutes it.    *)
(***************************************************************************)
EXTENDS StoreConn

\* The file provider of a version: DocumentVersionFileProvider.
VersionProvider(r) == ProviderKeys(blobs, HashesOf(r.files))

\* storeconn/README.md: to read a version, the Conn asks the metadata store for
\* its files and the document store "for exactly those hashes".  A read through
\* the provider is to return the content that the version recorded for the name.
ProviderReadsVersion ==
    Quiescent => \A r \in rows : \A f \in r.files :
        FirstHash(VersionProvider(r), f[1]) = f[2]

\* storeconn/conn.go: the rollbacks of CreateDocument (the objects "may be deleted"
\* as "every object now under docID was written here") and of AddDocumentVersion
\* ("so the store is not left with a version that references missing file
\* content") leave no version that lacks a file.
NoVersionLacksContent == Quiescent => \A r \in rows : r.files \subseteq blobs
=============================================================================
