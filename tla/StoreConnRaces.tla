--------------------------- MODULE StoreConnRaces ---------------------------
(***************************************************************************)
(* Writers of the split-store Conn that race: where the content of a       *)
(* version is while its row is visible before its blobs are put.           *)
(***************************************************************************)
EXTENDS StoreConn

\* Files that belong to a committed version and are still to be put.
Coming == UNION {todo[w] : w \in {u \in Writers : inserted[u]}}

\* The content of every row is stored or on its way, and so is that of a row
\* which a writer has read or is about to insert.
Provided ==
    /\ \A r \in rows : r.files \subseteq blobs \cup Coming
    /\ \A w \in Writers :
        row[w] # NoRow => row[w].files \subseteq blobs \cup Coming \cup todo[w]

\* An operation that runs has not failed so far: losing a race is no failure.
Unfailing == \A w \in Writers : pc[w] # "idle" => err[w] \in {"ok", "exists"}

\* No running operation fails, panics or dies in this step.
StaysUnfailing == \A w \in Writers : pc[w] # "idle" => err'[w] \in {"ok", "exists"}

\* AddDocumentVersion shows its row before it puts the blobs, and a second writer
\* may add a version on top of it in between; the loser of a race for a timestamp
\* or for the first version must take nothing from the winner.  As long as nothing
\* fails, and again once what failed is over, no step takes away content that a
\* version has or that is on its way to it.
ContentArrives == [][Unfailing /\ StaysUnfailing /\ Provided => Provided']_vars
=============================================================================
