--------------------------- MODULE AddMultiProofs ---------------------------
(***************************************************************************)
(* AddMulti keeps its promises for any documents, versions, callers and    *)
(* faults: what a call has inserted, and is still there, is what it has    *)
(* noted to be undone, and no two calls own the same version; and every    *)
(* step of a call brings it nearer to its end.                             *)
(***************************************************************************)
EXTENDS AddMulti, TLAPS

Pair == Docs \X Versions

Call == [at : {"idle", "read", "insert", "notify", "undo"},
         left : Seq(Docs),
         latest : Versions \cup {NoVersion},
         new : Versions \cup {NoVersion},
         created : Seq(Pair),
         err : {"ok", "failed", "noChanges", "undoFailed", "crashed"}]

MultiTypeOK ==
    /\ versions \in [Docs -> SUBSET Versions]
    /\ call \in [Callers -> Call]
    /\ owned \in [Callers -> SUBSET Pair]

Distinct(s) == \A i, j \in 1..Len(s) : s[i] = s[j] => i = j

\* The version that onNewVersion is asked about: inserted and not yet noted.
Pending(c) == IF c.at = "notify" THEN {<<Head(c.left), c.new>>} ELSE {}

\* The call c owns the pairs o.
CallInv(c, o) ==
    /\ c.at = "idle" => c.created = <<>>
    /\ c.at \in {"insert", "notify"} => c.left # <<>>
    /\ c.at = "notify" => c.new \in Versions
    /\ c.at = "undo" => c.err \in {"failed", "undoFailed"}
    /\ Distinct(c.created)
    /\ Pending(c) \cap Range(c.created) = {}
    /\ Range(c.created) \cup Pending(c) \subseteq o
    /\ c.at # "undo" \/ c.err = "failed" => o = Range(c.created) \cup Pending(c)

OwnedThere == \A w \in Callers : \A p \in owned[w] : p[2] \in versions[p[1]]

OwnersDiffer == \A u, w \in Callers : u # w => owned[u] \cap owned[w] = {}

MultiInv ==
    /\ MultiTypeOK
    /\ OwnedThere
    /\ OwnersDiffer
    /\ \A w \in Callers : CallInv(call[w], owned[w])

----------------------------------------------------------------------------
(* Sequences without repetition.                                           *)

\* What the wrapped onNewVersion notes is added to what was noted.
LEMMA AppendNotes ==
    ASSUME NEW S, NEW s \in Seq(S), NEW e \in S, Distinct(s), e \notin Range(s)
    PROVE  /\ Append(s, e) \in Seq(S)
           /\ Range(Append(s, e)) = Range(s) \cup {e}
           /\ Distinct(Append(s, e))
  <1>1. /\ Append(s, e) \in Seq(S)
        /\ Len(Append(s, e)) = Len(s) + 1
        /\ \A i \in 1..Len(s) : Append(s, e)[i] = s[i]
        /\ Append(s, e)[Len(s) + 1] = e
        /\ Len(s) \in Nat
    OBVIOUS
  <1>2. /\ Range(s) = {s[i] : i \in 1..Len(s)}
        /\ Range(Append(s, e)) = {Append(s, e)[i] : i \in 1..Len(s) + 1}
    BY <1>1 DEF Range
  <1>3. 1..Len(s) + 1 = (1..Len(s)) \cup {Len(s) + 1}
    BY <1>1
  <1>4. Range(Append(s, e)) = Range(s) \cup {e}
    BY <1>1, <1>2, <1>3
  <1>5. Distinct(Append(s, e))
    BY <1>1, <1>2, <1>3 DEF Distinct
  <1> QED
    BY <1>1, <1>4, <1>5

\* The rollback is left with all that was noted but the version it undid.
LEMMA TailNotes ==
    ASSUME NEW S, NEW s \in Seq(S), s # <<>>, Distinct(s)
    PROVE  /\ Head(s) \in S
           /\ Head(s) \in Range(s)
           /\ Tail(s) \in Seq(S)
           /\ Range(Tail(s)) = Range(s) \ {Head(s)}
           /\ Distinct(Tail(s))
  <1>1. /\ Len(s) \in Nat \ {0}
        /\ Head(s) = s[1]
        /\ Head(s) \in S
        /\ Tail(s) \in Seq(S)
        /\ Len(Tail(s)) = Len(s) - 1
        /\ \A i \in 1..Len(s) - 1 : Tail(s)[i] = s[i + 1]
    OBVIOUS
  <1>2. /\ Range(s) = {s[i] : i \in 1..Len(s)}
        /\ Range(Tail(s)) = {Tail(s)[i] : i \in 1..Len(s) - 1}
    <2>1. DOMAIN s = 1..Len(s)
      OBVIOUS
    <2>2. DOMAIN Tail(s) = 1..Len(Tail(s))
      BY <1>1
    <2> QED
      BY <1>1, <2>1, <2>2 DEF Range
  <1>3. Head(s) \in Range(s)
    BY <1>1, <1>2
  <1>4. Range(Tail(s)) \subseteq Range(s) \ {Head(s)}
    BY <1>1, <1>2 DEF Distinct
  <1>5. ASSUME NEW x \in Range(s), x # Head(s)
        PROVE  x \in Range(Tail(s))
    <2>1. PICK i \in 1..Len(s) : x = s[i]
      BY <1>2
    <2>2. i # 1 /\ i - 1 \in 1..Len(s) - 1 /\ (i - 1) + 1 = i
      BY <1>1, <1>5, <2>1
    <2>3. Tail(s)[i - 1] = x
      BY <1>1, <2>1, <2>2
    <2> QED
      BY <1>2, <2>2, <2>3
  <1>6. Distinct(Tail(s))
    BY <1>1 DEF Distinct
  <1> QED
    BY <1>1, <1>3, <1>4, <1>5, <1>6
----------------------------------------------------------------------------
(* What an action does to its own call and to what that call owns is all   *)
(* that the invariant depends on.                                          *)

\* A step of one call: no other call notes, owns or loses a version by it.
LEMMA OwnStep ==
    ASSUME MultiInv, NEW w \in Callers, NEW c \in Call, NEW o \in SUBSET Pair,
           call' = [call EXCEPT ![w] = c],
           owned' = [owned EXCEPT ![w] = o],
           versions' \in [Docs -> SUBSET Versions],
           CallInv(c, o),
           \A p \in o : p[2] \in versions'[p[1]],
           \A u \in Callers \ {w} :
               /\ o \cap owned[u] = {}
               /\ \A p \in owned[u] : p[2] \in versions'[p[1]]
    PROVE  MultiInv'
  <1>1. /\ call'[w] = c /\ owned'[w] = o
        /\ \A u \in Callers \ {w} : call'[u] = call[u] /\ owned'[u] = owned[u]
    BY DEF MultiInv, MultiTypeOK
  <1>2. MultiTypeOK'
    BY DEF MultiInv, MultiTypeOK
  <1>3. OwnedThere'
    BY <1>1 DEF OwnedThere
  <1>4. OwnersDiffer'
    BY <1>1 DEF OwnersDiffer, MultiInv
  <1>5. \A u \in Callers : CallInv(call'[u], owned'[u])
    BY <1>1 DEF MultiInv
  <1> QED
    BY <1>2, <1>3, <1>4, <1>5 DEF MultiInv

\* Nothing is inserted and nothing is taken away.
LEMMA CallStep ==
    ASSUME MultiInv, NEW w \in Callers, NEW c \in Call,
           call' = [call EXCEPT ![w] = c],
           UNCHANGED <<versions, owned>>,
           CallInv(c, owned[w])
    PROVE  MultiInv'
  <1>1. owned' = [owned EXCEPT ![w] = owned[w]] /\ owned[w] \in SUBSET Pair
    BY DEF MultiInv, MultiTypeOK
  <1>2. versions' \in [Docs -> SUBSET Versions]
    BY DEF MultiInv, MultiTypeOK
  <1>3. /\ \A u \in Callers \ {w} : owned[w] \cap owned[u] = {}
        /\ \A u \in Callers : \A p \in owned[u] : p[2] \in versions'[p[1]]
    BY DEF MultiInv, OwnersDiffer, OwnedThere
  <1> QED
    BY <1>1, <1>2, <1>3, OwnStep

\* A call returns, with whatever result.
LEMMA ReturnStep ==
    ASSUME MultiInv, NEW w \in Callers,
           NEW e \in {"ok", "failed", "noChanges", "undoFailed", "crashed"},
           Return(w, e), UNCHANGED versions
    PROVE  MultiInv'
  <1>1. Returned(e) \in Call
    BY DEF Returned, Call
  <1>2. /\ <<>> \in Seq(Pair)
        /\ Range(<<>>) = {}
        /\ Distinct(<<>>)
    BY DEF Range, Distinct
  <1>3. CallInv(Returned(e), {})
    BY <1>2 DEF CallInv, Returned, Pending
  <1>4. /\ \A p \in {} : p[2] \in versions'[p[1]]
        /\ \A u \in Callers \ {w} :
            /\ {} \cap owned[u] = {}
            /\ \A p \in owned[u] : p[2] \in versions'[p[1]]
    BY DEF MultiInv, OwnedThere
  <1>5. versions' \in [Docs -> SUBSET Versions] /\ {} \in SUBSET Pair
    BY DEF MultiInv, MultiTypeOK
  <1>6. call' = [call EXCEPT ![w] = Returned(e)] /\ owned' = [owned EXCEPT ![w] = {}]
    BY DEF Return
  <1> QED
    BY <1>1, <1>3, <1>4, <1>5, <1>6, OwnStep

\* A call takes away a version that it owns: nobody else owned it.
LEMMA WithdrawStep ==
    ASSUME MultiInv, NEW w \in Callers, NEW c \in Call, NEW d, NEW v,
           <<d, v>> \in owned[w], Withdraw(d, v),
           call' = [call EXCEPT ![w] = c],
           CallInv(c, owned[w] \ {<<d, v>>})
    PROVE  MultiInv'
  <1> DEFINE o == owned[w] \ {<<d, v>>}
  <1>1. d \in Docs /\ v \in Versions /\ o \in SUBSET Pair
    BY DEF MultiInv, MultiTypeOK, Pair
  <1>2. \A u \in Callers \ {w} : <<d, v>> \notin owned[u]
    BY DEF MultiInv, OwnersDiffer
  <1>3. owned' = [owned EXCEPT ![w] = o]
    <2>1. owned' = [u \in Callers |-> owned[u] \ {<<d, v>>}]
      BY DEF Withdraw
    <2>2. DOMAIN owned = Callers /\ owned = [u \in Callers |-> owned[u]]
      BY DEF MultiInv, MultiTypeOK
    <2>3. \A u \in Callers \ {w} : owned[u] \ {<<d, v>>} = owned[u]
      BY <1>2
    <2> QED BY <2>1, <2>2, <2>3
  <1>4. versions' \in [Docs -> SUBSET Versions]
    BY DEF Withdraw, MultiInv, MultiTypeOK
  <1>5. ASSUME NEW u \in Callers, NEW p \in owned[u], p # <<d, v>>
        PROVE  p[2] \in versions'[p[1]]
    <2>1. p \in Pair /\ p = <<p[1], p[2]>> /\ p[1] \in Docs /\ p[2] \in versions[p[1]]
      BY DEF MultiInv, MultiTypeOK, OwnedThere, Pair
    <2>2. CASE p[1] = d
      <3>1. p[2] # v
        BY <1>5, <2>1, <2>2
      <3> QED
        BY <1>1, <2>1, <2>2, <3>1 DEF Withdraw, MultiInv, MultiTypeOK
    <2>3. CASE p[1] # d
      BY <1>1, <2>1, <2>3 DEF Withdraw, MultiInv, MultiTypeOK
    <2> QED
      BY <2>2, <2>3
  <1>6. \A p \in o : p[2] \in versions'[p[1]]
    BY <1>5
  <1>7. \A u \in Callers \ {w} :
            /\ o \cap owned[u] = {}
            /\ \A p \in owned[u] : p[2] \in versions'[p[1]]
    BY <1>2, <1>5 DEF MultiInv, OwnersDiffer
  <1> QED
    BY <1>1, <1>3, <1>4, <1>6, <1>7, OwnStep
----------------------------------------------------------------------------
\* The initial states.
LEMMA MultiInitInv ==
    ASSUME MultiInit
    PROVE  MultiInv
  <1>1. Returned("ok") \in Call
    BY DEF Returned, Call
  <1>2. MultiTypeOK
    BY <1>1 DEF MultiInit, MultiTypeOK
  <1>3. CallInv(Returned("ok"), {})
    <2>1. Range(<<>>) = {} /\ Distinct(<<>>)
      BY DEF Range, Distinct
    <2> QED
      BY <2>1 DEF CallInv, Returned, Pending
  <1> QED
    BY <1>2, <1>3 DEF MultiInit, MultiInv, OwnedThere, OwnersDiffer

\* Reading, skipping and refusing documents.
LEMMA ReadingSteps ==
    ASSUME MultiInv, NEW w \in Callers,
           \/ MultiBegin(w) \/ AddRead(w) \/ AddNoChanges(w)
           \/ AddInsertExists(w) \/ AddFails(w)
    PROVE  MultiInv'
  <1>1. call[w] \in Call /\ CallInv(call[w], owned[w])
    BY DEF MultiInv, MultiTypeOK
  <1>2. CASE Fail(w) /\ call[w].at \in {"read", "insert"} /\ UNCHANGED <<versions, owned>>
    <2> DEFINE c == [call[w] EXCEPT !.at = "undo", !.err = "failed"]
    <2>1. c \in Call
      BY <1>1 DEF Call
    <2>2. CallInv(c, owned[w])
      BY <1>1, <1>2 DEF CallInv, Pending, Call
    <2>3. call' = [call EXCEPT ![w] = c]
      BY <1>1, <1>2 DEF Fail, Call, MultiInv, MultiTypeOK
    <2> QED
      BY <1>2, <2>1, <2>2, <2>3, CallStep
  <1>3. CASE MultiBegin(w)
    <2>1. PICK docIDs \in DocLists :
            call' = [call EXCEPT ![w] =
                        [Returned("ok") EXCEPT !.at = "read", !.left = docIDs]]
      BY <1>3 DEF MultiBegin
    <2> DEFINE c == [Returned("ok") EXCEPT !.at = "read", !.left = docIDs]
    <2>2. c \in Call
      <3>1. docIDs \in Seq(Docs)
        BY <2>1, MultiDocListsAssumption
      <3>2. Returned("ok") \in Call
        BY DEF Returned, Call
      <3> QED
        BY <3>1, <3>2 DEF Call
    <2>3. CallInv(c, owned[w])
      BY <1>1, <1>3 DEF MultiBegin, CallInv, Pending, Returned
    <2> QED
      BY <1>3, <2>1, <2>2, <2>3, CallStep DEF MultiBegin
  <1>4. CASE AddRead(w)
    <2>1. CASE Fail(w)
      BY <1>2, <1>4, <2>1 DEF AddRead
    <2>2. CASE ~Fail(w)
      <3>1. PICK v \in versions[Doc(w)] :
              call' = [call EXCEPT ![w].at = "insert", ![w].latest = v]
        BY <1>4, <2>2 DEF AddRead
      <3> DEFINE c == [call[w] EXCEPT !.at = "insert", !.latest = v]
      <3>2. v \in Versions
        <4>1. Doc(w) \in Docs
          <5>1. call[w].left \in Seq(Docs) /\ call[w].left # <<>>
            BY <1>1, <1>4 DEF AddRead, Call
          <5> QED BY <5>1 DEF Doc
        <4> QED
          BY <3>1, <4>1 DEF MultiInv, MultiTypeOK
      <3>3. c \in Call
        BY <1>1, <3>2 DEF Call
      <3>4. CallInv(c, owned[w])
        BY <1>1, <1>4 DEF AddRead, CallInv, Pending, Call
      <3>5. call' = [call EXCEPT ![w] = c]
        BY <1>1, <3>1 DEF Call, MultiInv, MultiTypeOK
      <3> QED
        BY <1>4, <3>3, <3>4, <3>5, CallStep DEF AddRead
    <2> QED
      BY <2>1, <2>2
  <1>5. CASE AddNoChanges(w)
    <2> DEFINE c == [call[w] EXCEPT !.at = "read", !.left = Tail(@)]
    <2>1. c \in Call
      <3>1. Tail(call[w].left) \in Seq(Docs)
        BY <1>1, <1>5 DEF AddNoChanges, CallInv, Call
      <3> QED
        BY <1>1, <3>1 DEF Call
    <2>2. CallInv(c, owned[w])
      BY <1>1, <1>5 DEF AddNoChanges, CallInv, Pending, Call
    <2>3. call' = [call EXCEPT ![w] = c]
      BY <1>1, <1>5 DEF AddNoChanges, Call, MultiInv, MultiTypeOK
    <2> QED
      BY <1>5, <2>1, <2>2, <2>3, CallStep DEF AddNoChanges
  <1>6. CASE AddInsertExists(w) \/ AddFails(w)
    BY <1>2, <1>6 DEF AddInsertExists, AddFails
  <1> QED
    BY <1>3, <1>4, <1>5, <1>6

\* A version is inserted, accepted or refused.
LEMMA VersionSteps ==
    ASSUME MultiInv, NEW w \in Callers,
           AddInsert(w) \/ AddNotify(w) \/ AddNotifyFails(w) \/ AddNotifyNoChanges(w)
    PROVE  MultiInv'
  <1>1. call[w] \in Call /\ CallInv(call[w], owned[w])
    BY DEF MultiInv, MultiTypeOK
  <1>2. Doc(w) \in Docs /\ Doc(w) = Head(call[w].left) /\ Tail(call[w].left) \in Seq(Docs)
    <2>1. call[w].left \in Seq(Docs) /\ call[w].left # <<>>
      BY <1>1 DEF AddInsert, AddNotify, AddNotifyFails, AddNotifyNoChanges, CallInv, Call
    <2> QED BY <2>1 DEF Doc
  <1>3. CASE AddInsert(w)
    <2>1. PICK v \in Versions \ versions[Doc(w)] :
            /\ versions' = [versions EXCEPT ![Doc(w)] = @ \cup {v}]
            /\ call' = [call EXCEPT ![w].at = "notify", ![w].new = v]
            /\ owned' = [owned EXCEPT ![w] = @ \cup {<<Doc(w), v>>}]
      BY <1>3 DEF AddInsert
    <2> DEFINE c == [call[w] EXCEPT !.at = "notify", !.new = v]
               o == owned[w] \cup {<<Doc(w), v>>}
    <2>2. c \in Call /\ o \in SUBSET Pair
      <3>1. c \in Call
        BY <1>1, <2>1 DEF Call
      <3>2. o \in SUBSET Pair
        BY <1>2, <2>1 DEF Pair, MultiInv, MultiTypeOK
      <3> QED
        BY <3>1, <3>2
    <2>3. \A u \in Callers : <<Doc(w), v>> \notin owned[u]
      BY <2>1 DEF MultiInv, OwnedThere
    <2>4. CallInv(c, o)
      <3>1. call[w].at = "insert" /\ Pending(call[w]) = {}
        BY <1>3 DEF AddInsert, Pending
      <3>2. /\ c.at = "notify" /\ c.new = v /\ c.left = call[w].left
            /\ c.created = call[w].created
        BY <1>1 DEF Call
      <3>3. Pending(c) = {<<Doc(w), v>>}
        BY <1>2, <3>2 DEF Pending
      <3> QED
        BY <1>1, <2>3, <3>1, <3>2, <3>3 DEF CallInv
    <2>5. call' = [call EXCEPT ![w] = c] /\ owned' = [owned EXCEPT ![w] = o]
      BY <1>1, <2>1 DEF Call, MultiInv, MultiTypeOK
    <2>6. /\ versions' \in [Docs -> SUBSET Versions]
          /\ \A d \in Docs : versions[d] \subseteq versions'[d]
          /\ v \in versions'[Doc(w)]
      BY <1>2, <2>1 DEF MultiInv, MultiTypeOK
    <2>7. \A u \in Callers : \A p \in owned[u] : p[2] \in versions'[p[1]]
      BY <2>6 DEF MultiInv, MultiTypeOK, OwnedThere, Pair
    <2>8. /\ \A p \in o : p[2] \in versions'[p[1]]
          /\ \A u \in Callers \ {w} :
                /\ o \cap owned[u] = {}
                /\ \A p \in owned[u] : p[2] \in versions'[p[1]]
      BY <2>3, <2>6, <2>7 DEF MultiInv, OwnersDiffer
    <2> HIDE DEF c, o
    <2> QED
      BY <2>2, <2>4, <2>5, <2>6, <2>8, OwnStep
  <1>4. CASE AddNotify(w)
    <2> DEFINE e == <<Doc(w), call[w].new>>
               c == [call[w] EXCEPT !.at = "read", !.left = Tail(@),
                                    !.created = Append(@, e)]
    <2>1. call[w].at = "notify" /\ Pending(call[w]) = {e} /\ e \in Pair
      BY <1>1, <1>2, <1>4 DEF AddNotify, CallInv, Pending, Pair
    <2>2. /\ call[w].created \in Seq(Pair)
          /\ Distinct(call[w].created)
          /\ e \notin Range(call[w].created)
      BY <1>1, <2>1 DEF CallInv, Call
    <2>3. /\ Append(call[w].created, e) \in Seq(Pair)
          /\ Range(Append(call[w].created, e)) = Range(call[w].created) \cup {e}
          /\ Distinct(Append(call[w].created, e))
      BY <2>1, <2>2, AppendNotes
    <2>4. c \in Call
      BY <1>1, <1>2, <2>3 DEF Call
    <2>5. CallInv(c, owned[w])
      <3>1. c.at = "read" /\ c.created = Append(call[w].created, e)
        BY <1>1 DEF Call
      <3>2. Pending(c) = {}
        BY <3>1 DEF Pending
      <3> QED
        BY <1>1, <2>1, <2>3, <3>1, <3>2 DEF CallInv
    <2>6. call' = [call EXCEPT ![w] = c]
      BY <1>1, <1>4 DEF AddNotify, Call, MultiInv, MultiTypeOK
    <2> QED
      BY <1>4, <2>4, <2>5, <2>6, CallStep DEF AddNotify
  <1>5. CASE AddNotifyFails(w)
    <2> DEFINE e == <<Doc(w), call[w].new>>
               c == [call[w] EXCEPT !.at = "undo", !.err = "failed"]
    <2>1. call[w].at = "notify" /\ Pending(call[w]) = {e} /\ e \in owned[w]
      BY <1>1, <1>2, <1>5 DEF AddNotifyFails, CallInv, Pending
    <2>2. c \in Call
      BY <1>1 DEF Call
    <2>3. CallInv(c, owned[w] \ {e})
      <3>1. c.at = "undo" /\ c.created = call[w].created
        BY <1>1 DEF Call
      <3>2. Pending(c) = {}
        BY <3>1 DEF Pending
      <3> QED
        BY <1>1, <2>1, <3>1, <3>2 DEF CallInv
    <2>4. call' = [call EXCEPT ![w] = c]
      BY <1>1, <1>5 DEF AddNotifyFails, Fail, Call, MultiInv, MultiTypeOK
    <2> QED
      BY <1>5, <2>1, <2>2, <2>3, <2>4, WithdrawStep DEF AddNotifyFails
  <1>6. CASE AddNotifyNoChanges(w)
    <2> DEFINE e == <<Doc(w), call[w].new>>
               c == [call[w] EXCEPT !.at = "read", !.left = Tail(@)]
    <2>1. call[w].at = "notify" /\ Pending(call[w]) = {e} /\ e \in owned[w]
      BY <1>1, <1>2, <1>6 DEF AddNotifyNoChanges, CallInv, Pending
    <2>2. c \in Call
      BY <1>1, <1>2 DEF Call
    <2>3. CallInv(c, owned[w] \ {e})
      <3>1. c.at = "read" /\ c.created = call[w].created
        BY <1>1 DEF Call
      <3>2. Pending(c) = {}
        BY <3>1 DEF Pending
      <3> QED
        BY <1>1, <2>1, <3>1, <3>2 DEF CallInv
    <2>4. call' = [call EXCEPT ![w] = c]
      BY <1>1, <1>6 DEF AddNotifyNoChanges, Call, MultiInv, MultiTypeOK
    <2> QED
      BY <1>6, <2>1, <2>2, <2>3, <2>4, WithdrawStep DEF AddNotifyNoChanges
  <1> QED
    BY <1>3, <1>4, <1>5, <1>6

\* The rollback undoes the next version that was noted.
LEMMA UndoSteps ==
    ASSUME MultiInv, NEW w \in Callers, UndoVersion(w) \/ UndoVersionFails(w)
    PROVE  MultiInv'
  <1> DEFINE e == Head(call[w].created)
  <1>1. call[w] \in Call /\ CallInv(call[w], owned[w])
    BY DEF MultiInv, MultiTypeOK
  <1>2. /\ call[w].at = "undo" /\ Pending(call[w]) = {}
        /\ call[w].created \in Seq(Pair) /\ call[w].created # <<>>
        /\ Distinct(call[w].created)
    BY <1>1 DEF UndoVersion, UndoVersionFails, Pending, Call, CallInv
  <1>3. /\ e \in Pair /\ e \in Range(call[w].created)
        /\ Tail(call[w].created) \in Seq(Pair)
        /\ Range(Tail(call[w].created)) = Range(call[w].created) \ {e}
        /\ Distinct(Tail(call[w].created))
    BY <1>2, TailNotes
  <1>4. e \in owned[w] /\ e = <<e[1], e[2]>> /\ e[2] \in versions[e[1]]
    BY <1>1, <1>3 DEF CallInv, Pair, MultiInv, OwnedThere
  <1>5. CASE UndoVersion(w)
    <2> DEFINE c == [call[w] EXCEPT !.created = Tail(@)]
    <2>1. c \in Call /\ c.at = "undo" /\ c.created = Tail(call[w].created)
      BY <1>1, <1>2, <1>3 DEF Call
    <2>2. Pending(c) = {}
      BY <2>1 DEF Pending
    <2>3. c.err = call[w].err
      BY <1>1 DEF Call
    <2>4. CallInv(c, owned[w] \ {e})
      BY <1>1, <1>2, <1>3, <2>1, <2>2, <2>3 DEF CallInv
    <2>5. Withdraw(e[1], e[2])
      BY <1>5 DEF UndoVersion
    <2>6. call' = [call EXCEPT ![w] = c]
      BY <1>1, <1>4, <1>5 DEF UndoVersion, Call, MultiInv, MultiTypeOK
    <2> QED
      BY <1>4, <2>1, <2>4, <2>5, <2>6, WithdrawStep
  <1>6. CASE UndoVersionFails(w)
    <2> DEFINE c == [call[w] EXCEPT !.created = Tail(@), !.err = "undoFailed"]
    <2>1. /\ c \in Call /\ c.at = "undo" /\ c.created = Tail(call[w].created)
          /\ c.err = "undoFailed"
      BY <1>1, <1>2, <1>3 DEF Call
    <2>2. Pending(c) = {}
      BY <2>1 DEF Pending
    <2>3. CallInv(c, owned[w])
      BY <1>1, <1>2, <1>3, <2>1, <2>2 DEF CallInv
    <2>4. call' = [call EXCEPT ![w] = c]
      BY <1>1, <1>6 DEF UndoVersionFails, Call, MultiInv, MultiTypeOK
    <2> QED
      BY <1>6, <2>1, <2>3, <2>4, CallStep DEF UndoVersionFails
  <1> QED
    BY <1>5, <1>6

\* A call ends.
LEMMA EndingSteps ==
    ASSUME MultiInv, NEW w \in Callers, MultiDone(w) \/ UndoDone(w) \/ MultiCrash(w)
    PROVE  MultiInv'
  <1>1. call[w].err \in {"ok", "failed", "noChanges", "undoFailed", "crashed"}
    BY DEF MultiInv, MultiTypeOK, Call
  <1> QED
    BY <1>1, ReturnStep DEF MultiDone, UndoDone, MultiCrash

\* Every step of AddMultiDocumentVersionImpl keeps what its calls rely on.
LEMMA MultiNextInv ==
    ASSUME MultiInv, [MultiNext]_multiVars
    PROVE  MultiInv'
  <1>1. CASE UNCHANGED multiVars
    BY <1>1 DEF multiVars, MultiInv, MultiTypeOK, OwnedThere, OwnersDiffer
  <1>2. ASSUME NEW w \in Callers, MultiBegin(w) \/ MultiStep(w) \/ MultiCrash(w)
        PROVE  MultiInv'
    BY <1>2, ReadingSteps, VersionSteps, UndoSteps, EndingSteps DEF MultiStep
  <1> QED
    BY <1>1, <1>2 DEF MultiNext
----------------------------------------------------------------------------
\* Whatever other calls do to the same documents, a call owns what it noted.
THEOREM MultiInvariant == MultiSpec => []MultiInv
  <1>1. MultiInit => MultiInv
    BY MultiInitInv
  <1>2. MultiInv /\ [MultiNext]_multiVars => MultiInv'
    BY MultiNextInv
  <1> QED
    BY <1>1, <1>2, PTL DEF MultiSpec

\* A call that returns without a crash leaves all of its versions or none, or
\* reports that an undo failed.
LEMMA ReturnsAllOrNothing ==
    ASSUME MultiInv, MultiNext, NEW w \in Callers,
           call[w].at # "idle", call'[w].at = "idle"
    PROVE  /\ call'[w].err = "ok" => owned[w] # {} /\ owned[w] = Range(call[w].created)
           /\ call'[w].err \in {"failed", "noChanges"} => owned[w] = {}
  <1>1. PICK u \in Callers : MultiBegin(u) \/ MultiStep(u) \/ MultiCrash(u)
    BY DEF MultiNext
  <1>2. call[w] \in Call /\ CallInv(call[w], owned[w]) /\ call \in [Callers -> Call]
    BY DEF MultiInv, MultiTypeOK
  <1>3. u = w /\ (MultiDone(w) \/ UndoDone(w) \/ MultiCrash(w))
    <2>1. CASE MultiBegin(u)
      BY <1>2, <2>1 DEF MultiBegin, Returned, Call
    <2>2. CASE AddRead(u)
      BY <1>2, <2>2 DEF AddRead, Fail, Call
    <2>3. CASE AddNoChanges(u) \/ AddInsert(u) \/ AddNotify(u) \/ AddNotifyNoChanges(u)
      BY <1>2, <2>3 DEF AddNoChanges, AddInsert, AddNotify, AddNotifyNoChanges, Call
    <2>4. CASE AddInsertExists(u) \/ AddFails(u) \/ AddNotifyFails(u)
      BY <1>2, <2>4 DEF AddInsertExists, AddFails, AddNotifyFails, Fail, Call
    <2>5. CASE UndoVersion(u) \/ UndoVersionFails(u)
      BY <1>2, <2>5 DEF UndoVersion, UndoVersionFails, Call
    <2>6. CASE MultiDone(u) \/ UndoDone(u) \/ MultiCrash(u)
      BY <1>2, <2>6 DEF MultiDone, UndoDone, MultiCrash, Return
    <2> QED
      BY <1>1, <2>1, <2>2, <2>3, <2>4, <2>5, <2>6 DEF MultiStep
  <1>4. Range(<<>>) = {} /\ \A s \in Seq(Pair) : s # <<>> => Range(s) # {}
    <2>1. \A s \in Seq(Pair) : s # <<>> => s[1] \in Range(s)
      BY DEF Range
    <2> QED
      BY <2>1 DEF Range
  <1>5. CASE MultiDone(w)
    <2>1. /\ Pending(call[w]) = {} /\ call[w].at = "read"
          /\ call'[w].err = IF call[w].created = <<>> THEN "noChanges" ELSE "ok"
      BY <1>2, <1>5 DEF MultiDone, Return, Returned, Pending
    <2>2. owned[w] = Range(call[w].created) /\ call[w].created \in Seq(Pair)
      BY <1>2, <2>1 DEF CallInv, Call
    <2>3. CASE call[w].created = <<>>
      BY <1>4, <2>1, <2>2, <2>3
    <2>4. CASE call[w].created # <<>>
      BY <1>4, <2>1, <2>2, <2>4
    <2> QED
      BY <2>3, <2>4
  <1>6. CASE UndoDone(w)
    <2>1. /\ Pending(call[w]) = {} /\ call[w].at = "undo" /\ call[w].created = <<>>
          /\ call'[w].err = call[w].err
      BY <1>2, <1>6 DEF UndoDone, Return, Returned, Pending
    <2> QED
      BY <1>2, <1>4, <2>1 DEF CallInv
  <1>7. CASE MultiCrash(w)
    BY <1>2, <1>7 DEF MultiCrash, Return, Returned
  <1> QED
    BY <1>3, <1>5, <1>6, <1>7

\* AddMultiDocumentVersion is all or nothing, for any number of concurrent callers,
\* documents and versions, and whatever goes wrong.
THEOREM MultiIsAllOrNothing == MultiSpec => AllOrNothing
  <1>1. MultiInv /\ [MultiNext]_multiVars =>
            [\A w \in Callers :
                call[w].at # "idle" /\ call'[w].at = "idle" =>
                    /\ call'[w].err = "ok" =>
                            owned[w] # {} /\ owned[w] = Range(call[w].created)
                    /\ call'[w].err \in {"failed", "noChanges"} =>
                            owned[w] = {}]_multiVars
    BY ReturnsAllOrNothing
  <1> QED
    BY <1>1, MultiInvariant, PTL DEF MultiSpec, AllOrNothing

\* A version that leaves a document is taken by a call that owns it.
LEMMA WithdrawsOwn ==
    ASSUME MultiInv, MultiNext, NEW d \in Docs, NEW v \in versions[d] \ versions'[d]
    PROVE  \E w \in Callers : <<d, v>> \in owned[w] /\ call'[w] # call[w]
  <1>1. PICK w \in Callers : MultiBegin(w) \/ MultiStep(w) \/ MultiCrash(w)
    BY DEF MultiNext
  <1>2. /\ call[w] \in Call /\ CallInv(call[w], owned[w]) /\ call \in [Callers -> Call]
        /\ versions \in [Docs -> SUBSET Versions]
    BY DEF MultiInv, MultiTypeOK
  <1>3. versions' # versions
    OBVIOUS
  <1>4. CASE AddInsert(w)
    BY <1>2, <1>4 DEF AddInsert
  <1>5. CASE AddNotifyFails(w) \/ AddNotifyNoChanges(w)
    <2>1. d = Doc(w) /\ v = call[w].new
      BY <1>2, <1>5 DEF AddNotifyFails, AddNotifyNoChanges, Withdraw
    <2>2. <<d, v>> \in owned[w]
      BY <1>2, <1>5, <2>1 DEF AddNotifyFails, AddNotifyNoChanges, CallInv, Pending, Doc
    <2>3. call'[w].at # call[w].at
      BY <1>2, <1>5 DEF AddNotifyFails, AddNotifyNoChanges, Fail, Call
    <2> QED
      BY <2>2, <2>3
  <1>6. CASE UndoVersion(w)
    <2> DEFINE s == call[w].created
    <2>1. s \in Seq(Pair) /\ s # <<>> /\ Distinct(s)
      BY <1>2, <1>6 DEF UndoVersion, CallInv, Call
    <2>2. Head(s) \in Range(s) /\ Head(s) \in Pair /\ Range(Tail(s)) = Range(s) \ {Head(s)}
      BY <2>1, TailNotes
    <2>3. d = Head(s)[1] /\ v = Head(s)[2]
      BY <1>2, <1>6 DEF UndoVersion, Withdraw
    <2>4. <<d, v>> = Head(s)
      BY <2>2, <2>3 DEF Pair
    <2>5. <<d, v>> \in owned[w]
      BY <1>2, <2>2, <2>4 DEF CallInv
    <2>6. call'[w].created = Tail(s)
      BY <1>2, <1>6 DEF UndoVersion, Call
    <2> QED
      BY <2>2, <2>5, <2>6
  <1> QED
    BY <1>1, <1>3, <1>4, <1>5, <1>6 DEF MultiBegin, MultiStep, MultiCrash, AddRead,
        AddNoChanges, AddInsertExists, AddFails, AddNotify, MultiDone, UndoVersionFails,
        UndoDone

\* The rollback of a call takes no version that another call inserted, although it
\* goes by document and timestamp.
THEOREM MultiTakesOwnVersions == MultiSpec => RollbackTakesOwnVersions
  <1>1. MultiInv /\ [MultiNext]_multiVars =>
            [\A d \in Docs : \A v \in versions[d] \ versions'[d] :
                \E w \in Callers : <<d, v>> \in owned[w] /\ call'[w] # call[w]]_multiVars
    BY WithdrawsOwn
  <1> QED
    BY <1>1, MultiInvariant, PTL DEF MultiSpec, RollbackTakesOwnVersions
----------------------------------------------------------------------------
(* Every call ends after a number of steps known when it begins.           *)

\* A call that runs has a step left.
LEMMA StepsLeftCounts ==
    ASSUME NEW c \in Call, c.at = "notify" => c.left # <<>>
    PROVE  StepsLeft(c) \in Nat /\ (c.at # "idle" => StepsLeft(c) > 0)
  <1> DEFINE n == Len(c.left)
             k == Len(c.created)
  <1>1. n \in Nat /\ k \in Nat /\ (c.left # <<>> => n > 0)
    BY DEF Call
  <1>2. /\ c.at = "idle" => StepsLeft(c) = 0
        /\ c.at = "read" => StepsLeft(c) = 4 * n + k + 2
        /\ c.at = "insert" => StepsLeft(c) = 4 * n + k + 1
        /\ c.at = "notify" => StepsLeft(c) = 4 * n + k
        /\ c.at = "undo" => StepsLeft(c) = k + 1
    BY DEF StepsLeft
  <1>3. c.at \in {"idle", "read", "insert", "notify", "undo"}
    BY DEF Call
  <1> HIDE DEF n, k
  <1> QED
    BY <1>1, <1>2, <1>3

\* A step of one call leaves the others as they are.
LEMMA StepsOfOthers ==
    ASSUME MultiInv, NEW u \in Callers, NEW w \in Callers \ {u},
           MultiBegin(u) \/ MultiStep(u) \/ MultiCrash(u)
    PROVE  call'[w] = call[w]
  <1>1. call \in [Callers -> Call]
    BY DEF MultiInv, MultiTypeOK
  <1>2. CASE MultiBegin(u) \/ AddRead(u) \/ AddNoChanges(u) \/ AddInsert(u)
    BY <1>1, <1>2 DEF MultiBegin, AddRead, AddNoChanges, AddInsert, Fail
  <1>3. CASE \/ AddInsertExists(u) \/ AddFails(u) \/ AddNotify(u) \/ AddNotifyFails(u)
             \/ AddNotifyNoChanges(u)
    BY <1>1, <1>3
    DEF AddInsertExists, AddFails, AddNotify, AddNotifyFails, AddNotifyNoChanges, Fail
  <1>4. CASE UndoVersion(u) \/ UndoVersionFails(u)
    BY <1>1, <1>4 DEF UndoVersion, UndoVersionFails
  <1>5. CASE MultiDone(u) \/ UndoDone(u) \/ MultiCrash(u)
    BY <1>1, <1>5 DEF MultiDone, UndoDone, MultiCrash, Return
  <1> QED
    BY <1>2, <1>3, <1>4, <1>5 DEF MultiStep

\* The loop over the documents: one is read, skipped, added to or refused.
LEMMA LoopWindsDown ==
    ASSUME MultiInv, NEW w \in Callers,
           \/ AddRead(w) \/ AddNoChanges(w) \/ AddInsert(w) \/ AddInsertExists(w)
           \/ AddFails(w) \/ AddNotify(w) \/ AddNotifyFails(w) \/ AddNotifyNoChanges(w)
    PROVE  StepsLeft(call'[w]) < StepsLeft(call[w])
  <1> DEFINE n == Len(call[w].left)
             k == Len(call[w].created)
  <1>0. call \in [Callers -> Call] /\ CallInv(call[w], owned[w])
    BY DEF MultiInv, MultiTypeOK
  <1>1. /\ call[w] \in Call /\ call[w].left \in Seq(Docs) /\ call[w].left # <<>>
        /\ call[w].created \in Seq(Pair)
    BY <1>0
    DEF AddRead, AddNoChanges, AddInsert, AddInsertExists, AddFails, AddNotify,
        AddNotifyFails, AddNotifyNoChanges, CallInv, Call
  <1>2. n \in Nat /\ n > 0 /\ k \in Nat /\ Len(Tail(call[w].left)) = n - 1
    BY <1>1
  <1>3. /\ call[w].at = "read" => StepsLeft(call[w]) = 4 * n + k + 2
        /\ call[w].at = "insert" => StepsLeft(call[w]) = 4 * n + k + 1
        /\ call[w].at = "notify" => StepsLeft(call[w]) = 4 * n + k
    BY DEF StepsLeft
  <1>4. call[w].at \in {"read", "insert", "notify"}
    BY DEF AddRead, AddNoChanges, AddInsert, AddInsertExists, AddFails, AddNotify,
           AddNotifyFails, AddNotifyNoChanges
  <1> HIDE DEF n, k
  <1>5. CASE Fail(w)
    <2>1. call'[w] = [call[w] EXCEPT !.at = "undo", !.err = "failed"]
      BY <1>0, <1>5 DEF Fail
    <2>2. call'[w].at = "undo" /\ call'[w].created = call[w].created
      BY <1>1, <2>1 DEF Call
    <2>3. StepsLeft(call'[w]) = k + 1
      BY <2>2 DEF StepsLeft, k
    <2> QED
      BY <1>2, <1>3, <1>4, <2>3
  <1>6. CASE AddRead(w) /\ ~Fail(w)
    <2>1. PICK v : call'[w] = [call[w] EXCEPT !.at = "insert", !.latest = v]
      <3>1. PICK v : call' = [call EXCEPT ![w].at = "insert", ![w].latest = v]
        BY <1>6 DEF AddRead
      <3> QED
        BY <1>0, <3>1
    <2>2. /\ call'[w].at = "insert" /\ call'[w].left = call[w].left
          /\ call'[w].created = call[w].created
      BY <1>1, <2>1 DEF Call
    <2>3. StepsLeft(call'[w]) = 4 * n + k + 1
      BY <2>2 DEF StepsLeft, n, k
    <2>4. call[w].at = "read"
      BY <1>6 DEF AddRead
    <2> QED
      BY <1>2, <1>3, <2>3, <2>4
  <1>7. CASE AddNoChanges(w) \/ AddNotifyNoChanges(w)
    <2>1. call'[w] = [call[w] EXCEPT !.at = "read", !.left = Tail(call[w].left)]
      BY <1>0, <1>7 DEF AddNoChanges, AddNotifyNoChanges
    <2>2. /\ call'[w].at = "read" /\ call'[w].left = Tail(call[w].left)
          /\ call'[w].created = call[w].created
      BY <1>1, <2>1 DEF Call
    <2>3. StepsLeft(call'[w]) = 4 * (n - 1) + k + 2
      BY <1>2, <2>2 DEF StepsLeft, k
    <2>4. call[w].at \in {"insert", "notify"}
      BY <1>7 DEF AddNoChanges, AddNotifyNoChanges
    <2> QED
      BY <1>2, <1>3, <2>3, <2>4
  <1>8. CASE AddInsert(w)
    <2>1. PICK v : call'[w] = [call[w] EXCEPT !.at = "notify", !.new = v]
      <3>1. PICK v : call' = [call EXCEPT ![w].at = "notify", ![w].new = v]
        BY <1>8 DEF AddInsert
      <3> QED
        BY <1>0, <3>1
    <2>2. /\ call'[w].at = "notify" /\ call'[w].left = call[w].left
          /\ call'[w].created = call[w].created
      BY <1>1, <2>1 DEF Call
    <2>3. StepsLeft(call'[w]) = 4 * n + k
      BY <2>2 DEF StepsLeft, n, k
    <2>4. call[w].at = "insert"
      BY <1>8 DEF AddInsert
    <2> QED
      BY <1>2, <1>3, <2>3, <2>4
  <1>9. CASE AddNotify(w)
    <2> DEFINE e == <<Doc(w), call[w].new>>
    <2>1. call' = [call EXCEPT ![w].at = "read", ![w].left = Tail(call[w].left),
                               ![w].created = Append(call[w].created, e)]
      BY <1>0, <1>9 DEF AddNotify
    <2> HIDE DEF e
    <2>2. call'[w] = [call[w] EXCEPT !.at = "read", !.left = Tail(call[w].left),
                                     !.created = Append(call[w].created, e)]
      BY <1>0, <2>1
    <2>3. /\ call'[w].at = "read" /\ call'[w].left = Tail(call[w].left)
          /\ call'[w].created = Append(call[w].created, e)
      BY <1>1, <2>2 DEF Call
    <2>4. Len(call'[w].created) = k + 1
      BY <1>1, <2>3 DEF k
    <2>5. StepsLeft(call'[w]) = 4 * (n - 1) + (k + 1) + 2
      BY <1>2, <2>3, <2>4 DEF StepsLeft
    <2>6. call[w].at = "notify"
      BY <1>9 DEF AddNotify
    <2> QED
      BY <1>2, <1>3, <2>5, <2>6
  <1> QED
    BY <1>5, <1>6, <1>7, <1>8, <1>9
    DEF AddInsertExists, AddFails, AddNotifyFails

\* The rollback, the steps with which a call returns, and its death.
LEMMA EndWindsDown ==
    ASSUME MultiInv, NEW w \in Callers,
           \/ UndoVersion(w) \/ UndoVersionFails(w)
           \/ MultiDone(w) \/ UndoDone(w) \/ MultiCrash(w)
    PROVE  StepsLeft(call'[w]) < StepsLeft(call[w])
  <1>0. call \in [Callers -> Call] /\ CallInv(call[w], owned[w])
    BY DEF MultiInv, MultiTypeOK
  <1>1. /\ call[w] \in Call /\ call[w].created \in Seq(Pair)
        /\ Len(call[w].left) \in Nat /\ Len(call[w].created) \in Nat
        /\ call[w].at = "notify" => call[w].left # <<>>
    BY <1>0 DEF Call, CallInv
  <1>2. CASE UndoVersion(w) \/ UndoVersionFails(w)
    <2>1. PICK e : call' = [call EXCEPT ![w].created = Tail(call[w].created),
                                        ![w].err = e]
      BY <1>0, <1>2 DEF UndoVersion, UndoVersionFails
    <2>2. call'[w] = [call[w] EXCEPT !.created = Tail(call[w].created), !.err = e]
      BY <1>0, <2>1
    <2>3. call[w].at = "undo" /\ call[w].created # <<>>
      BY <1>2 DEF UndoVersion, UndoVersionFails
    <2>4. call'[w].at = "undo" /\ Len(call'[w].created) = Len(call[w].created) - 1
      BY <1>1, <2>2, <2>3 DEF Call
    <2> QED
      BY <1>1, <2>3, <2>4 DEF StepsLeft
  <1>3. CASE MultiDone(w) \/ UndoDone(w) \/ MultiCrash(w)
    <2>1. PICK e : call' = [call EXCEPT ![w] = Returned(e)]
      BY <1>3 DEF MultiDone, UndoDone, MultiCrash, Return
    <2>2. StepsLeft(call'[w]) = 0
      BY <1>0, <2>1 DEF Returned, StepsLeft
    <2>3. call[w].at # "idle"
      BY <1>3 DEF MultiDone, UndoDone, MultiCrash
    <2> QED
      BY <1>1, <2>2, <2>3, StepsLeftCounts
  <1> QED
    BY <1>2, <1>3

\* A call uses up one of its steps with every step, whatever fails and whatever the
\* others do, who cannot add to them: AddMultiDocumentVersion of n documents returns
\* after at most 4 n + 2 steps, each one call of the Conn or of a callback, its
\* rollback included.  What MultiReturns adds to that is that the steps are taken.
THEOREM MultiCallsWindDown == MultiSpec => CallsWindDown
  <1>1. ASSUME MultiInv, [MultiNext]_multiVars, NEW w \in Callers, ~UNCHANGED multiVars
        PROVE  /\ MultiStep(w) \/ MultiCrash(w) =>
                    StepsLeft(call'[w]) < StepsLeft(call[w])
               /\ call[w].at # "idle" => StepsLeft(call'[w]) <= StepsLeft(call[w])
    <2>1. MultiStep(w) \/ MultiCrash(w) => StepsLeft(call'[w]) < StepsLeft(call[w])
      BY <1>1, LoopWindsDown, EndWindsDown DEF MultiStep
    <2>2. StepsLeft(call[w]) \in Nat
      BY <1>1, StepsLeftCounts DEF MultiInv, MultiTypeOK, CallInv
    <2>3. StepsLeft(call'[w]) \in Nat
      <3>1. MultiInv'
        BY <1>1, MultiNextInv
      <3> QED
        BY <3>1, StepsLeftCounts DEF MultiInv, MultiTypeOK, CallInv
    <2>4. CASE MultiBegin(w) \/ MultiStep(w) \/ MultiCrash(w)
      <3>1. CASE MultiBegin(w)
        BY <2>1, <3>1 DEF MultiBegin
      <3>2. CASE MultiStep(w) \/ MultiCrash(w)
        BY <2>1, <2>2, <2>3, <3>2
      <3> QED
        BY <2>4, <3>1, <3>2
    <2>5. ASSUME NEW u \in Callers \ {w}, MultiBegin(u) \/ MultiStep(u) \/ MultiCrash(u)
          PROVE  StepsLeft(call'[w]) <= StepsLeft(call[w])
      <3>1. call'[w] = call[w]
        BY <1>1, <2>5, StepsOfOthers
      <3> QED
        BY <2>2, <3>1
    <2> QED
      BY <1>1, <2>1, <2>4, <2>5 DEF MultiNext
  <1>2. MultiInv /\ [MultiNext]_multiVars =>
            [\A w \in Callers :
                /\ MultiStep(w) \/ MultiCrash(w) =>
                        StepsLeft(call'[w]) < StepsLeft(call[w])
                /\ call[w].at # "idle" =>
                        StepsLeft(call'[w]) <= StepsLeft(call[w])]_multiVars
    BY <1>1
  <1> QED
    BY <1>2, MultiInvariant, PTL DEF MultiSpec, CallsWindDown
=============================================================================
