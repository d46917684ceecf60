-------------------------- MODULE S3DocumentStore --------------------------
(***************************************************************************)
(* The S3 document store of one document: operators on the set of object   *)
(* keys under the document's prefix.  A key is <docID>/<name>/<hash>, so   *)
(* for one document it is a file, and putting a key twice is idempotent.   *)
(***************************************************************************)
EXTENDS VersionFiles

\* DocumentExists: any object under the document's prefix.
DocumentExists(keys) == keys # {}

\* filterKeysByHash: the keys whose hash component is one of the hashes.
KeysByHash(keys, hashes) == keys \cap FilesWithHash(hashes)

\* DocumentHashFileProvider: the keys a file provider for hashes works on.
ProviderKeys(keys, hashes) == KeysByHash(keys, hashes)

\* fileProvider.HasFile on the keys of a provider.
HasFile(keys, name) == name \in NamesOf(keys)

\* fileProvider.ReadFile: findKey takes the first key with the name in the order
\* of the listing.  S3 lists keys in string order, so that among keys with equal
\* names the smallest hash comes first (hashes are numbered in that order).
FirstHash(keys, name) ==
    CHOOSE h \in HashesOf(keys) :
        /\ <<name, h>> \in keys
        /\ \A f \in keys : f[1] = name => h <= f[2]
=============================================================================
