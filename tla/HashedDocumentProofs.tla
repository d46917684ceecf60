------------------------ MODULE HashedDocumentProofs ------------------------
(***************************************************************************)
(* Lemmas about file maps and backups, for any names, hashes and versions. *)
(***************************************************************************)
EXTENDS HashedDocument, TLAPS, WellFoundedInduction

\* A non-empty set of naturals has a least element, and Min finds it.
LEMMA MinOfNaturals ==
    ASSUME NEW S, S \subseteq Nat, S # {}
    PROVE  Min(S) \in S /\ \A n \in S : Min(S) <= n
<1> DEFINE Less == {pair \in Nat \X Nat : pair[1] < pair[2]}
<1>1. IsWellFoundedOn(Less, Nat)
  BY NatLessThanWellFounded DEF OpToRel
<1>2. \A m, n \in Nat : <<n, m>> \in Less <=> n < m
  OBVIOUS
<1> HIDE DEF Less
<1>3. PICK m \in S : \A n \in S : ~(<<n, m>> \in Less)
  BY <1>1, WFMin
<1>4. \A n \in S : n \in Nat /\ ~(n < m)
  BY <1>2, <1>3
<1>5. m \in Nat
  OBVIOUS
<1>6. \A n \in S : m <= n
  BY <1>4, <1>5
<1> QED BY <1>6 DEF Min

\* A bounded one has a greatest element, and Max finds it.
LEMMA MaxOfBounded ==
    ASSUME NEW S, S \subseteq Nat, S # {}, NEW b \in Nat, \A n \in S : n < b
    PROVE  Max(S) \in S /\ \A n \in S : n <= Max(S)
<1> DEFINE Distances == {b - n : n \in S}
<1>1. Distances \subseteq Nat /\ Distances # {}
  <2>1. \A n \in S : n \in Nat /\ n < b
    OBVIOUS
  <2>2. \A n \in S : b - n \in Nat
    BY <2>1
  <2> QED BY <2>2
<1>2. Min(Distances) \in Distances /\ \A d \in Distances : Min(Distances) <= d
  BY <1>1, MinOfNaturals
<1>3. PICK m \in S : Min(Distances) = b - m
  BY <1>2
<1>4. \A n \in S : b - m <= b - n
  BY <1>2, <1>3
<1>5. \A n \in S : m \in Nat /\ n \in Nat
  OBVIOUS
<1>6. \A n \in S : m >= n
  BY <1>4, <1>5
<1>7. Max(S) \in S /\ \A n \in S : Max(S) >= n
  BY <1>6 DEF Max
<1> QED BY <1>5, <1>7

\* The predecessor of a version is the newest older version of the backup.
LEMMA PredecessorIsNewestOlder ==
    ASSUME NEW backup, VersionsOf(backup) \subseteq Nat, NEW v \in Nat
    PROVE  IF Predecessor(backup, v) = NoVersion
           THEN \A u \in VersionsOf(backup) \ {NoVersion} : u >= v
           ELSE /\ Predecessor(backup, v) \in VersionsOf(backup)
                /\ Predecessor(backup, v) < v
                /\ \A u \in VersionsOf(backup) : u < v => u <= Predecessor(backup, v)
<1> DEFINE older == {u \in VersionsOf(backup) : u < v}
<1>1. CASE older = {}
  <2>1. Predecessor(backup, v) = NoVersion
    BY <1>1 DEF Predecessor
  <2> QED BY <1>1, <2>1
<1>2. CASE older # {}
  <2>1. older \subseteq Nat /\ \A n \in older : n < v
    OBVIOUS
  <2>2. Max(older) \in older /\ \A n \in older : n <= Max(older)
    BY <1>2, <2>1, MaxOfBounded
  <2>3. Predecessor(backup, v) = Max(older)
    BY <1>2 DEF Predecessor
  <2>4. CASE Max(older) = NoVersion
    BY <2>2, <2>3, <2>4 DEF NoVersion
  <2> QED BY <2>2, <2>3, <2>4
<1> QED BY <1>1, <1>2

----------------------------------------------------------------------------
(* File maps                                                               *)

LEMMA CarryForwardType ==
    ASSUME NEW prev \in FileMaps, NEW removed \in SUBSET Names, NEW written \in FileMaps
    PROVE  CarryForward(prev, removed, written) \in FileMaps
BY DEF CarryForward, FileMaps, IsFileMap, NamesOf, File

LEMMA NamesOfType ==
    ASSUME NEW files \in SUBSET File
    PROVE  NamesOf(files) \in SUBSET Names
BY DEF NamesOf, File

\* The change lists of a version name files.
LEMMA ChangeListsType ==
    ASSUME NEW old \in SUBSET File, NEW new \in SUBSET File
    PROVE  /\ AddedNames(old, new) \in SUBSET Names
           /\ RemovedNames(old, new) \in SUBSET Names
           /\ ModifiedNames(old, new) \in SUBSET Names
BY DEF AddedNames, RemovedNames, ModifiedNames, NamesOf, File
=============================================================================
