-------------------------- MODULE KVCacheOpsProofs --------------------------
(***************************************************************************)
(* Proofs about the operations of KVCacheOps, for every value of the       *)
(* constants.  Each operation yields a cache record again and advances the *)
(* versions: no version falls, and a key whose entry changed has a higher  *)
(* version than before.                                                    *)
(*                                                                         *)
(* Two facts about the cache have to be carried along.  A version number   *)
(* is at most `generation`, so that the next one is new; and every present *)
(* key is linked in `order`, so that a loop over `order` misses none.      *)
(*                                                                         *)
(* The second part is about storage: which keys are linked, what they      *)
(* weigh, what an eviction removes and in which order.                     *)
(***************************************************************************)
EXTENDS KVCacheOps, SequenceFacts

VersionsBounded(c) ==
  /\ c.absentEpoch <= c.generation
  /\ \A k \in Key : c.version[k] <= c.generation

PresentLinked(c) ==
  \A k \in Key : Has(c, k) => \E i \in DOMAIN c.order : c.order[i] = k

GoodCache == {c \in CacheRecord : VersionsBounded(c) /\ PresentLinked(c)}

Advances(c, d) ==
  /\ c.generation <= d.generation
  /\ \A k \in Key :
       /\ Version(c, k) <= Version(d, k)
       /\ c.entry[k] # d.entry[k] => Version(c, k) < Version(d, k)
       /\ k \in d.expired \ c.expired => Version(c, k) < Version(d, k)

Advanced(c) == {d \in GoodCache : Advances(c, d)}

-----------------------------------------------------------------------------
(* The relation is a preorder.                                             *)

LEMMA VersionType ==
  ASSUME NEW c \in CacheRecord, NEW k \in Key
  PROVE  Version(c, k) \in Nat
BY DEF CacheRecord, Version

LEMMA AdvancesReflexive ==
  ASSUME NEW c \in GoodCache
  PROVE  c \in Advanced(c)
<1>1. c \in CacheRecord
  BY DEF GoodCache
<1>2. \A k \in Key : Version(c, k) \in Nat
  BY <1>1, VersionType
<1>3. c.generation \in Nat
  BY <1>1 DEF CacheRecord
<1>4. QED
  BY <1>2, <1>3 DEF Advanced, Advances

LEMMA AdvancesTransitive ==
  ASSUME NEW c \in GoodCache, NEW d \in Advanced(c), NEW e \in Advanced(d)
  PROVE  e \in Advanced(c)
<1>1. c \in CacheRecord /\ d \in CacheRecord /\ e \in CacheRecord
  BY DEF Advanced, GoodCache
<1>2. \A k \in Key : /\ Version(c, k) \in Nat
                     /\ Version(d, k) \in Nat
                     /\ Version(e, k) \in Nat
  BY <1>1, VersionType
<1>3. c.generation \in Nat /\ d.generation \in Nat /\ e.generation \in Nat
  BY <1>1 DEF CacheRecord
<1>4. Advances(c, d) /\ Advances(d, e) /\ e \in GoodCache
  BY DEF Advanced
<1>5. c.generation <= e.generation
  BY <1>3, <1>4 DEF Advances
<1>6. ASSUME NEW k \in Key
      PROVE  /\ Version(c, k) <= Version(e, k)
             /\ c.entry[k] # e.entry[k] => Version(c, k) < Version(e, k)
             /\ k \in e.expired \ c.expired => Version(c, k) < Version(e, k)
  <2>1. Version(c, k) <= Version(d, k) /\ Version(d, k) <= Version(e, k)
    BY <1>4 DEF Advances
  <2>2. c.entry[k] # e.entry[k] =>
          Version(c, k) < Version(d, k) \/ Version(d, k) < Version(e, k)
    BY <1>4 DEF Advances
  <2>3. k \in e.expired \ c.expired =>
          Version(c, k) < Version(d, k) \/ Version(d, k) < Version(e, k)
    BY <1>4 DEF Advances
  <2>4. QED
    BY <1>2, <2>1, <2>2, <2>3
<1>7. QED
  BY <1>4, <1>5, <1>6 DEF Advanced, Advances

-----------------------------------------------------------------------------
(* The map operations change one entry and no version, and report nothing. *)

SameVersions(c, d) ==
  /\ d.expired = c.expired
  /\ d.version = c.version
  /\ d.versionOrder = c.versionOrder
  /\ d.absentEpoch = c.absentEpoch
  /\ d.generation = c.generation
  /\ d.now = c.now

(* d is c with at most the entry of k changed.                             *)
Edits(c, k, d) ==
  /\ d \in GoodCache
  /\ SameVersions(c, d)
  /\ \A j \in Key \ {k} : d.entry[j] = c.entry[j]

LEMMA EditOfEdit ==
  ASSUME NEW c, NEW k \in Key, NEW d, NEW e, Edits(c, k, d), Edits(d, k, e)
  PROVE  Edits(c, k, e)
BY DEF Edits, SameVersions

LEMMA UnlinkedEdits ==
  ASSUME NEW c \in GoodCache, NEW k \in Key, Has(c, k)
  PROVE  Edits(c, k, Unlinked(c, k))
<1>1. PICK d : d = Unlinked(c, k)
  OBVIOUS
<1>2. c \in CacheRecord
  BY DEF GoodCache
<1>3. c.entry[k] \in EntryRecord
  BY <1>2 DEF CacheRecord, Has
<1>4. RemoveFirst(c.order, k) \in Seq(Key)
  BY <1>2, RemoveFirstKeeps DEF CacheRecord
<1>5. c.bytes - c.entry[k].size \in Int
  BY <1>2, <1>3 DEF CacheRecord, EntryRecord
<1>6. d \in CacheRecord
  BY <1>1, <1>2, <1>4, <1>5 DEF CacheRecord, Unlinked
<1>7. /\ d.order = RemoveFirst(c.order, k)
      /\ d.entry = [c.entry EXCEPT ![k] = None]
      /\ SameVersions(c, d)
  BY <1>1, <1>2 DEF CacheRecord, Unlinked, SameVersions
<1>8. PresentLinked(d)
  <2>1. SUFFICES ASSUME NEW j \in Key, Has(d, j)
                 PROVE  \E i \in DOMAIN d.order : d.order[i] = j
    BY DEF PresentLinked
  <2>2. j # k /\ Has(c, j)
    BY <2>1, <1>2, <1>7 DEF Has, CacheRecord
  <2>3. PICK i \in DOMAIN c.order : c.order[i] = j
    BY <2>2 DEF GoodCache, PresentLinked
  <2>4. c.order \in Seq(Key)
    BY <1>2 DEF CacheRecord
  <2>5. QED
    BY <2>2, <2>3, <2>4, <1>7, RemoveFirstKeeps
<1>9. VersionsBounded(d)
  BY <1>7 DEF GoodCache, VersionsBounded, SameVersions
<1>10. QED
  BY <1>1, <1>2, <1>6, <1>7, <1>8, <1>9 DEF Edits, GoodCache, CacheRecord

LEMMA WithoutEdits ==
  ASSUME NEW c \in GoodCache, NEW k \in Key
  PROVE  Edits(c, k, Without(c, k))
<1>1. Edits(c, k, c)
  BY DEF Edits, SameVersions
<1>2. QED
  BY <1>1, UnlinkedEdits DEF Without

LEMMA PutEdits ==
  ASSUME NEW c \in GoodCache, NEW k \in Key, NEW e \in EntryRecord
  PROVE  Edits(c, k, Put(c, k, e))
<1>1. PICK d : d = Put(c, k, e)
  OBVIOUS
<1>2. c \in CacheRecord
  BY DEF GoodCache
<1>3. /\ c.order \in Seq(Key)
      /\ Append(c.order, k) \in Seq(Key)
      /\ c.bytes + e.size \in Int
  BY <1>2 DEF CacheRecord, EntryRecord
<1>4. d \in CacheRecord
  BY <1>1, <1>2, <1>3 DEF CacheRecord, Put
<1>5. /\ d.order = IF Has(c, k) THEN c.order ELSE Append(c.order, k)
      /\ d.entry = [c.entry EXCEPT ![k] = e]
      /\ SameVersions(c, d)
  BY <1>1, <1>2 DEF CacheRecord, Put, SameVersions
<1>6. PresentLinked(d)
  <2>1. SUFFICES ASSUME NEW j \in Key, Has(d, j)
                 PROVE  \E i \in DOMAIN d.order : d.order[i] = j
    BY DEF PresentLinked
  <2>2. CASE Has(c, j)
    <3>1. PICK i \in DOMAIN c.order : c.order[i] = j
      BY <2>2 DEF GoodCache, PresentLinked
    <3>2. i \in DOMAIN d.order /\ d.order[i] = j
      BY <3>1, <1>3, <1>5
    <3>3. QED
      BY <3>2
  <2>3. CASE ~ Has(c, j)
    <3>1. j = k
      BY <2>1, <2>3, <1>2, <1>5 DEF Has, CacheRecord
    <3>2. d.order = Append(c.order, k)
      BY <2>3, <3>1, <1>5
    <3>3. Len(c.order) + 1 \in DOMAIN d.order /\ d.order[Len(c.order) + 1] = k
      BY <3>2, <1>3
    <3>4. QED
      BY <3>1, <3>3
  <2>4. QED
    BY <2>2, <2>3
<1>7. VersionsBounded(d)
  BY <1>5 DEF GoodCache, VersionsBounded, SameVersions
<1>8. QED
  BY <1>1, <1>2, <1>4, <1>5, <1>6, <1>7 DEF Edits, GoodCache, CacheRecord

-----------------------------------------------------------------------------
(* Bumping a version.                                                      *)

PruneOp(p, c, k) == PruneVersion(c, k)
Pruning == INSTANCE FoldTheorems WITH Op <- PruneOp

LEMMA PruningFold ==
  ASSUME NEW c, NEW seq
  PROVE  FoldLeft(PruneVersion, c, seq) = Pruning!Folded(0, c, seq)
BY Zenon DEF PruneOp, Pruning!Folded, FoldLeft,
   Pruning!MapThenFoldSet, MapThenFoldSet, Pruning!Top, Max

(* d is c after its generation became g and k was given that version.      *)
AfterBump(c, k) ==
  {d \in GoodCache :
     /\ d.entry = c.entry
     /\ d.order = c.order
     /\ d.now = c.now
     /\ d.expired = c.expired
     /\ d.generation = c.generation + 1
     /\ \A j \in Key : Version(c, j) <= Version(d, j)
     /\ Version(d, k) = c.generation + 1}

LEMMA RecordedIsBumped ==
  ASSUME NEW c \in GoodCache, NEW k \in Key
  PROVE  Recorded(c, k) \in AfterBump(c, k)
<1>1. PICK d : d = Recorded(c, k)
  OBVIOUS
<1>2. c \in CacheRecord
  BY DEF GoodCache
<1>3. /\ c.generation \in Nat /\ c.absentEpoch \in Nat
      /\ c.version \in [Key -> Nat]
      /\ c.versionOrder \in Seq(Key)
      /\ c.changed \in Seq(Key)
  BY <1>2 DEF CacheRecord
<1>4. /\ Append(c.versionOrder, k) \in Seq(Key)
      /\ Append(c.changed, k) \in Seq(Key)
  BY <1>3
<1>5. d \in CacheRecord
  <2>1. PICK w : w = IF c.version[k] = 0 THEN Append(c.versionOrder, k)
                     ELSE c.versionOrder
    OBVIOUS
  <2>2. PICK h : h = IF k \in ToSet(c.changed) THEN c.changed
                     ELSE Append(c.changed, k)
    OBVIOUS
  <2>3. w \in Seq(Key) /\ h \in Seq(Key)
    BY <2>1, <2>2, <1>3, <1>4
  <2>4. d = [c EXCEPT !.generation = c.generation + 1,
                      !.version = [c.version EXCEPT ![k] = c.generation + 1],
                      !.versionOrder = w,
                      !.changed = h]
    BY <1>1, <2>1, <2>2 DEF Recorded
  <2>5. [c.version EXCEPT ![k] = c.generation + 1] \in [Key -> Nat]
    BY <1>3
  <2>6. QED
    BY <1>2, <1>3, <2>3, <2>4, <2>5 DEF CacheRecord
<1>6. /\ d.entry = c.entry
      /\ d.order = c.order
      /\ d.now = c.now
      /\ d.expired = c.expired
      /\ d.generation = c.generation + 1
      /\ d.absentEpoch = c.absentEpoch
      /\ d.version = [c.version EXCEPT ![k] = c.generation + 1]
  BY <1>1, <1>2 DEF CacheRecord, Recorded
<1>7. PresentLinked(d)
  BY <1>6 DEF GoodCache, PresentLinked, Has
<1>8. c.absentEpoch <= c.generation /\ \A j \in Key : c.version[j] <= c.generation
  BY DEF GoodCache, VersionsBounded
<1>9. VersionsBounded(d)
  BY <1>3, <1>6, <1>8 DEF VersionsBounded
<1>10. Version(d, k) = c.generation + 1
  BY <1>3, <1>6 DEF Version
<1>11. ASSUME NEW j \in Key PROVE Version(c, j) <= Version(d, j)
  BY <1>3, <1>6, <1>8 DEF Version
<1>12. QED
  BY <1>1, <1>5, <1>6, <1>7, <1>9, <1>10, <1>11 DEF AfterBump, GoodCache

LEMMA PruneKeepsBumped ==
  ASSUME NEW c \in GoodCache, NEW k \in Key,
         NEW d \in AfterBump(c, k), NEW j \in Key
  PROVE  PruneVersion(d, j) \in AfterBump(c, k)
<1>1. CASE PruneVersion(d, j) = d
  BY <1>1
<1>2. PICK e : e = [d EXCEPT !.version = [@ EXCEPT ![j] = 0],
                             !.versionOrder = RemoveFirst(@, j),
                             !.absentEpoch = d.generation]
  OBVIOUS
<1>3. d \in CacheRecord /\ c \in CacheRecord
  BY DEF AfterBump, GoodCache
<1>4. /\ d.generation \in Nat /\ d.absentEpoch \in Nat
      /\ d.version \in [Key -> Nat]
      /\ d.versionOrder \in Seq(Key)
  BY <1>3 DEF CacheRecord
<1>5. RemoveFirst(d.versionOrder, j) \in Seq(Key)
  BY <1>4, RemoveFirstKeeps
<1>6. e \in CacheRecord
  BY <1>2, <1>3, <1>4, <1>5 DEF CacheRecord
<1>7. /\ e.entry = d.entry
      /\ e.order = d.order
      /\ e.now = d.now
      /\ e.expired = d.expired
      /\ e.generation = d.generation
      /\ e.absentEpoch = d.generation
      /\ e.version = [d.version EXCEPT ![j] = 0]
  BY <1>2, <1>3 DEF CacheRecord
<1>8. PresentLinked(e)
  BY <1>7 DEF AfterBump, GoodCache, PresentLinked, Has
<1>9. /\ d.absentEpoch <= d.generation
      /\ \A i \in Key : d.version[i] <= d.generation
  BY DEF AfterBump, GoodCache, VersionsBounded
<1>10. VersionsBounded(e)
  BY <1>4, <1>7, <1>9 DEF VersionsBounded
<1>11. ASSUME NEW i \in Key PROVE Version(d, i) <= Version(e, i)
  BY <1>4, <1>7, <1>9 DEF Version
<1>12. Version(e, k) = Version(d, k)
  <2>1. Version(d, k) = d.generation
    BY DEF AfterBump
  <2>2. QED
    BY <2>1, <1>4, <1>7 DEF Version
<1>13. \A i \in Key : /\ Version(c, i) \in Nat
                      /\ Version(d, i) \in Nat
                      /\ Version(e, i) \in Nat
  BY <1>3, <1>6, VersionType
<1>14. \A i \in Key : Version(c, i) <= Version(e, i)
  BY <1>11, <1>13 DEF AfterBump
<1>15. e \in AfterBump(c, k)
  BY <1>6, <1>7, <1>8, <1>10, <1>12, <1>14 DEF AfterBump, GoodCache
<1>16. QED
  BY <1>1, <1>2, <1>15 DEF PruneVersion

LEMMA BumpVersionBumps ==
  ASSUME NEW c \in GoodCache, NEW k \in Key
  PROVE  BumpVersion(c, k) \in AfterBump(c, k)
<1>1. PICK d : d = Recorded(c, k)
  OBVIOUS
<1>2. d \in AfterBump(c, k)
  BY <1>1, RecordedIsBumped
<1>3. d.versionOrder \in Seq(Key)
  BY <1>2 DEF AfterBump, GoodCache, CacheRecord
<1>4. PICK B : B = AfterBump(c, k)
  OBVIOUS
<1>5. \A a \in B, j \in Key : PruneOp(0, a, j) \in B
  BY <1>4, PruneKeepsBumped DEF PruneOp
<1>6. Pruning!Folded(0, d, d.versionOrder) \in B
  BY <1>2, <1>3, <1>4, <1>5, Pruning!FoldLeftInvariant
<1>7. QED
  BY <1>1, <1>2, <1>4, <1>6, PruningFold DEF BumpVersion

(* The common shape of every mutation: edit the entry of k, then bump k.   *)
LEMMA EditThenBump ==
  ASSUME NEW c \in GoodCache, NEW k \in Key, NEW d, Edits(c, k, d)
  PROVE  BumpVersion(d, k) \in Advanced(c)
<1>1. PICK e : e = BumpVersion(d, k)
  OBVIOUS
<1>2. d \in GoodCache
  BY DEF Edits
<1>3. e \in AfterBump(d, k)
  BY <1>1, <1>2, BumpVersionBumps
<1>4. c \in CacheRecord /\ d \in CacheRecord /\ e \in CacheRecord
  BY <1>2, <1>3 DEF AfterBump, GoodCache
<1>5. \A j \in Key : /\ Version(c, j) \in Nat
                     /\ Version(d, j) \in Nat
                     /\ Version(e, j) \in Nat
                     /\ Version(d, j) = Version(c, j)
  BY <1>4, VersionType DEF Edits, SameVersions, Version
<1>6. c.generation \in Nat /\ d.generation = c.generation
  BY <1>4 DEF CacheRecord, Edits, SameVersions
<1>7. \A j \in Key : Version(c, j) <= c.generation
  BY <1>4 DEF GoodCache, VersionsBounded, Version
<1>8. /\ c.generation <= e.generation
      /\ \A j \in Key : Version(c, j) <= Version(e, j)
      /\ Version(c, k) < Version(e, k)
  BY <1>3, <1>5, <1>6, <1>7 DEF AfterBump
<1>9. /\ \A j \in Key : c.entry[j] # e.entry[j] => j = k
      /\ e.expired = c.expired
  BY <1>3 DEF AfterBump, Edits, SameVersions
<1>10. e \in GoodCache
  BY <1>3 DEF AfterBump
<1>11. QED
  BY <1>1, <1>8, <1>9, <1>10 DEF Advanced, Advances

(* What a transition that only writes the clock or a history does: it      *)
(* reports no key that had not been reported.                              *)
Annotates(c, d) ==
  /\ d \in CacheRecord
  /\ d.entry = c.entry
  /\ d.order = c.order
  /\ d.version = c.version
  /\ d.absentEpoch = c.absentEpoch
  /\ d.generation = c.generation
  /\ d.expired \subseteq c.expired

LEMMA AnnotationAdvances ==
  ASSUME NEW c \in GoodCache, NEW d, Annotates(c, d)
  PROVE  d \in Advanced(c)
<1>1. c \in CacheRecord
  BY DEF GoodCache
<1>2. c.generation \in Nat /\ \A k \in Key : Version(c, k) \in Nat
  BY <1>1, VersionType DEF CacheRecord
<1>3. \A k \in Key : Version(d, k) = Version(c, k)
  BY DEF Annotates, Version
<1>4. VersionsBounded(d) /\ PresentLinked(d)
  BY DEF GoodCache, VersionsBounded, PresentLinked, Has, Annotates
<1>5. QED
  BY <1>2, <1>3, <1>4 DEF Annotates, Advanced, Advances, GoodCache

LEMMA LaterAdvances ==
  ASSUME NEW c \in GoodCache, NEW n \in Nat
  PROVE  Later(c, n) \in Advanced(c)
<1>1. c \in CacheRecord
  BY DEF GoodCache
<1>2. c.now + n \in Nat
  BY <1>1 DEF CacheRecord
<1>3. Annotates(c, Later(c, n))
  BY <1>1, <1>2 DEF Annotates, Later, CacheRecord
<1>4. QED
  BY <1>3, AnnotationAdvances

-----------------------------------------------------------------------------
(* Removal.                                                                *)

LEMMA DropAdvances ==
  ASSUME NEW c \in GoodCache, NEW k \in Key
  PROVE  Drop(c, k) \in Advanced(c)
BY WithoutEdits, EditThenBump DEF Drop

LEMMA DropRaisesVersion ==
  ASSUME NEW c \in GoodCache, NEW k \in Key
  PROVE  Version(c, k) < Version(Drop(c, k), k)
<1>1. PICK w : w = Without(c, k)
  OBVIOUS
<1>2. Edits(c, k, w) /\ w \in GoodCache
  BY <1>1, WithoutEdits DEF Edits
<1>3. PICK d : d = BumpVersion(w, k)
  OBVIOUS
<1>4. Version(d, k) = w.generation + 1
  BY <1>2, <1>3, BumpVersionBumps DEF AfterBump
<1>5. w.generation = c.generation /\ c.generation \in Nat
  BY <1>2 DEF Edits, SameVersions, GoodCache, CacheRecord
<1>6. Version(c, k) <= c.generation /\ Version(c, k) \in Nat
  BY VersionType DEF GoodCache, VersionsBounded, Version
<1>7. QED
  BY <1>1, <1>3, <1>4, <1>5, <1>6 DEF Drop

LEMMA RemoveExpiredAdvances ==
  ASSUME NEW c \in GoodCache, NEW k \in Key
  PROVE  RemoveExpired(c, k) \in Advanced(c)
<1>1. PICK d : d = Drop(c, k)
  OBVIOUS
<1>2. d \in Advanced(c) /\ d \in GoodCache /\ d \in CacheRecord
  BY <1>1, DropAdvances DEF Advanced, GoodCache
<1>3. PICK e : e = [d EXCEPT !.expired = @ \cup {k}]
  OBVIOUS
<1>4. /\ e \in CacheRecord
      /\ e.entry = d.entry /\ e.order = d.order
      /\ e.version = d.version /\ e.absentEpoch = d.absentEpoch
      /\ e.generation = d.generation
      /\ e.expired = d.expired \cup {k}
  BY <1>2, <1>3 DEF CacheRecord
<1>5. \A j \in Key : Version(e, j) = Version(d, j)
  BY <1>4 DEF Version
<1>6. e \in GoodCache
  BY <1>2, <1>4 DEF GoodCache, VersionsBounded, PresentLinked, Has
<1>7. Version(c, k) < Version(e, k)
  BY <1>1, <1>5, DropRaisesVersion
<1>8. e \in Advanced(c)
  BY <1>2, <1>4, <1>5, <1>6, <1>7 DEF Advanced, Advances
<1>9. QED
  BY <1>1, <1>3, <1>8 DEF RemoveExpired

LEMMA ReapAdvances ==
  ASSUME NEW c \in GoodCache, NEW k \in Key
  PROVE  Reap(c, k) \in Advanced(c)
BY AdvancesReflexive, RemoveExpiredAdvances DEF Reap

LEMMA EvictAdvances ==
  ASSUME NEW c \in GoodCache, NEW k \in Key
  PROVE  Evict(c, k) \in Advanced(c) /\ EvictAny(c, k) \in Advanced(c)
BY AdvancesReflexive, RemoveExpiredAdvances, DropAdvances DEF Evict, EvictAny

-----------------------------------------------------------------------------
(* The loops over `order`.                                                 *)

EvictOp(p, c, x) == Evict(c, x)
Evicting == INSTANCE FoldTheorems WITH Op <- EvictOp

LEMMA EvictingAdvances ==
  ASSUME NEW c \in GoodCache, NEW seq \in Seq(Key)
  PROVE  FoldLeft(Evict, c, seq) \in Advanced(c)
<1>1. FoldLeft(Evict, c, seq) = Evicting!Folded(0, c, seq)
  BY Zenon DEF EvictOp, Evicting!Folded, FoldLeft,
     Evicting!MapThenFoldSet, MapThenFoldSet, Evicting!Top, Max
<1>2. PICK A : A = Advanced(c)
  OBVIOUS
<1>3. PICK B : B = Key
  OBVIOUS
<1>4. \A a \in A, b \in B : EvictOp(0, a, b) \in A
  <2>1. SUFFICES ASSUME NEW a \in Advanced(c), NEW b \in Key
                 PROVE  Evict(a, b) \in Advanced(c)
    BY <1>2, <1>3 DEF EvictOp
  <2>2. a \in GoodCache
    BY DEF Advanced
  <2>3. Evict(a, b) \in Advanced(a)
    BY <2>2, EvictAdvances
  <2>4. QED
    BY <2>2, <2>3, AdvancesTransitive
<1>5. Evicting!Folded(0, c, seq) \in A
  BY <1>2, <1>3, <1>4, AdvancesReflexive, Evicting!FoldLeftInvariant
<1>6. QED
  BY <1>1, <1>2, <1>5

EvictAnyOp(p, c, x) == EvictAny(c, x)
EvictingAny == INSTANCE FoldTheorems WITH Op <- EvictAnyOp

LEMMA EvictingAnyAdvances ==
  ASSUME NEW c \in GoodCache, NEW seq \in Seq(Key)
  PROVE  FoldLeft(EvictAny, c, seq) \in Advanced(c)
<1>1. FoldLeft(EvictAny, c, seq) = EvictingAny!Folded(0, c, seq)
  BY Zenon DEF EvictAnyOp, EvictingAny!Folded, FoldLeft,
     EvictingAny!MapThenFoldSet, MapThenFoldSet, EvictingAny!Top, Max
<1>2. PICK A : A = Advanced(c)
  OBVIOUS
<1>3. PICK B : B = Key
  OBVIOUS
<1>4. \A a \in A, b \in B : EvictAnyOp(0, a, b) \in A
  <2>1. SUFFICES ASSUME NEW a \in Advanced(c), NEW b \in Key
                 PROVE  EvictAny(a, b) \in Advanced(c)
    BY <1>2, <1>3 DEF EvictAnyOp
  <2>2. a \in GoodCache
    BY DEF Advanced
  <2>3. EvictAny(a, b) \in Advanced(a)
    BY <2>2, EvictAdvances
  <2>4. QED
    BY <2>2, <2>3, AdvancesTransitive
<1>5. EvictingAny!Folded(0, c, seq) \in A
  BY <1>2, <1>3, <1>4, AdvancesReflexive, EvictingAny!FoldLeftInvariant
<1>6. QED
  BY <1>1, <1>2, <1>5

ReapOp(p, c, x) == Reap(c, x)
Reaping == INSTANCE FoldTheorems WITH Op <- ReapOp

LEMMA ReapingAdvances ==
  ASSUME NEW c \in GoodCache, NEW seq \in Seq(Key)
  PROVE  FoldLeft(Reap, c, seq) \in Advanced(c)
<1>1. FoldLeft(Reap, c, seq) = Reaping!Folded(0, c, seq)
  BY Zenon DEF ReapOp, Reaping!Folded, FoldLeft,
     Reaping!MapThenFoldSet, MapThenFoldSet, Reaping!Top, Max
<1>2. PICK A : A = Advanced(c)
  OBVIOUS
<1>3. PICK B : B = Key
  OBVIOUS
<1>4. \A a \in A, b \in B : ReapOp(0, a, b) \in A
  <2>1. SUFFICES ASSUME NEW a \in Advanced(c), NEW b \in Key
                 PROVE  Reap(a, b) \in Advanced(c)
    BY <1>2, <1>3 DEF ReapOp
  <2>2. a \in GoodCache
    BY DEF Advanced
  <2>3. Reap(a, b) \in Advanced(a)
    BY <2>2, ReapAdvances
  <2>4. QED
    BY <2>2, <2>3, AdvancesTransitive
<1>5. Reaping!Folded(0, c, seq) \in A
  BY <1>2, <1>3, <1>4, AdvancesReflexive, Reaping!FoldLeftInvariant
<1>6. QED
  BY <1>1, <1>2, <1>5

LEMMA EvictIfNeededAdvances ==
  ASSUME NEW c \in GoodCache
  PROVE  EvictIfNeeded(c) \in Advanced(c)
<1>1. c.order \in Seq(Key)
  BY DEF GoodCache, CacheRecord
<1>2. QED
  BY <1>1, EvictingAdvances DEF EvictIfNeeded

-----------------------------------------------------------------------------
(* Writes.                                                                 *)

LEMMA EntryOfType ==
  ASSUME NEW k \in Key, NEW v \in Value, NEW at \in Deadline
  PROVE  EntryOf(k, v, at) \in EntryRecord
<1>1. KeySize[k] \in Nat /\ ValueSize[v] \in Nat
  BY CacheAssumption
<1>2. QED
  BY <1>1 DEF EntryOf, EntryRecord, EntrySize

LEMMA ResolveTTLType ==
  ASSUME NEW c \in CacheRecord, NEW k \in Key, NEW ttl \in Nat \cup {None}
  PROVE  ResolveTTL(c, k, ttl) \in Deadline
<1>1. KeyTTL[k] \in Nat \cup {None}
  BY CacheAssumption
<1>2. c.now \in Nat
  BY DEF CacheRecord
<1>3. QED
  BY <1>1, <1>2 DEF ResolveTTL, Deadline

LEMMA RelinkEdits ==
  ASSUME NEW c \in GoodCache, NEW k \in Key, NEW e \in EntryRecord, Has(c, k)
  PROVE  Edits(c, k, Relink(c, k, e))
<1>1. PICK d : d = Unlinked(c, k)
  OBVIOUS
<1>2. Edits(c, k, d) /\ d \in GoodCache
  BY <1>1, UnlinkedEdits DEF Edits
<1>3. Edits(d, k, Put(d, k, e))
  BY <1>2, PutEdits
<1>4. QED
  BY <1>1, <1>2, <1>3, EditOfEdit DEF Relink

(* A write that starts from an edit of c leads to an advanced cache.       *)
LEMMA StoreAdvances ==
  ASSUME NEW c \in GoodCache, NEW k \in Key, NEW e \in EntryRecord,
         NEW d, Edits(c, k, d)
  PROVE  Store(d, k, e) \in Advanced(c)
<1>1. PICK p : p = Put(d, k, e)
  OBVIOUS
<1>2. Edits(c, k, p)
  <2>1. d \in GoodCache
    BY DEF Edits
  <2>2. Edits(d, k, p)
    BY <1>1, <2>1, PutEdits
  <2>3. QED
    BY <2>2, EditOfEdit
<1>3. PICK b : b = BumpVersion(p, k)
  OBVIOUS
<1>4. b \in Advanced(c) /\ b \in GoodCache
  BY <1>2, <1>3, EditThenBump DEF Advanced
<1>5. EvictIfNeeded(b) \in Advanced(b)
  BY <1>4, EvictIfNeededAdvances
<1>6. EvictIfNeeded(b) \in Advanced(c)
  BY <1>4, <1>5, AdvancesTransitive
<1>7. QED
  BY <1>1, <1>3, <1>6 DEF Store

LEMMA SetOwnedAdvances ==
  ASSUME NEW c \in GoodCache, NEW k \in Key, NEW v \in Value,
         NEW at \in Deadline
  PROVE  SetOwned(c, k, v, at) \in Advanced(c)
<1>1. EntryOf(k, v, at) \in EntryRecord
  BY EntryOfType
<1>2. Edits(c, k, Without(c, k))
  BY WithoutEdits
<1>3. Store(Without(c, k), k, EntryOf(k, v, at)) \in Advanced(c)
  BY <1>1, <1>2, StoreAdvances
<1>4. QED
  BY <1>3, AdvancesReflexive, DropAdvances DEF SetOwned

-----------------------------------------------------------------------------
(* The public operations.                                                  *)

Outcomes(c) == [ok : BOOLEAN, cache : Advanced(c)]

LEMMA OutcomeTransitive ==
  ASSUME NEW c \in GoodCache, NEW d \in Advanced(c), NEW r \in Outcomes(d)
  PROVE  r \in Outcomes(c)
<1>1. r.cache \in Advanced(d) /\ r.ok \in BOOLEAN
  BY DEF Outcomes
<1>2. r.cache \in Advanced(c)
  BY <1>1, AdvancesTransitive
<1>3. r = [ok |-> r.ok, cache |-> r.cache]
  BY DEF Outcomes
<1>4. QED
  BY <1>1, <1>2, <1>3 DEF Outcomes

LEMMA EndOutcome ==
  ASSUME NEW c, NEW d \in Advanced(c)
  PROVE  Done(d) \in Outcomes(c) /\ Thrown(d) \in Outcomes(c)
BY DEF Done, Thrown, Outcomes

(* delete and set of one key followed by a bump, from a reaped cache.      *)
LEMMA RelinkThenBump ==
  ASSUME NEW c \in GoodCache, NEW k \in Key, NEW e \in EntryRecord, Has(c, k)
  PROVE  BumpVersion(Relink(c, k, e), k) \in Advanced(c)
BY RelinkEdits, EditThenBump

LEMMA GetAdvances ==
  ASSUME NEW c \in GoodCache, NEW k \in Key
  PROVE  Get(c, k) \in Outcomes(c)
<1>1. Thrown(c) \in Outcomes(c)
  BY AdvancesReflexive, EndOutcome
<1>2. PICK r : r = Reap(c, k)
  OBVIOUS
<1>3. r \in Advanced(c) /\ r \in GoodCache /\ r \in CacheRecord
  BY <1>2, ReapAdvances DEF Advanced, GoodCache
<1>4. ASSUME Has(r, k)
      PROVE  Relink(r, k, r.entry[k]) \in Advanced(c)
  <2>1. r.entry[k] \in EntryRecord
    BY <1>3, <1>4 DEF CacheRecord, Has
  <2>2. PICK d : d = Relink(r, k, r.entry[k])
    OBVIOUS
  <2>3. Edits(r, k, d)
    BY <1>3, <1>4, <2>1, <2>2, RelinkEdits
  <2>4. d.entry[k] = r.entry[k]
    BY <1>3, <1>4, <2>2 DEF Relink, Put, Unlinked, CacheRecord
  <2>5. d \in Advanced(r)
    <3>1. d \in GoodCache /\ d \in CacheRecord
      BY <2>3 DEF Edits, GoodCache
    <3>2. \A j \in Key : /\ Version(r, j) \in Nat
                         /\ Version(d, j) = Version(r, j)
                         /\ d.entry[j] = r.entry[j]
      BY <1>3, <2>3, <2>4, VersionType DEF Edits, SameVersions, Version
    <3>3. /\ r.generation \in Nat /\ d.generation = r.generation
          /\ d.expired = r.expired
      BY <1>3, <2>3 DEF CacheRecord, Edits, SameVersions
    <3>4. QED
      BY <3>1, <3>2, <3>3 DEF Advanced, Advances
  <2>6. QED
    BY <1>3, <2>2, <2>5, AdvancesTransitive
<1>5. QED
  BY <1>1, <1>2, <1>3, <1>4, EndOutcome DEF Get

LEMMA SetAdvances ==
  ASSUME NEW c \in GoodCache, NEW k \in Key, NEW v \in Value,
         NEW ttl \in Nat \cup {None}, NEW d \in Nat
  PROVE  Set(c, k, v, ttl, d) \in Outcomes(c)
<1>1. PICK at : at = ResolveTTL(c, k, ttl)
  OBVIOUS
<1>2. at \in Deadline
  BY <1>1, ResolveTTLType DEF GoodCache
<1>3. PICK l : l = Later(c, d)
  OBVIOUS
<1>4. l \in Advanced(c) /\ l \in GoodCache
  BY <1>3, LaterAdvances DEF Advanced
<1>5. SetOwned(l, k, v, at) \in Advanced(c)
  BY <1>2, <1>4, SetOwnedAdvances, AdvancesTransitive
<1>6. QED
  BY <1>1, <1>3, <1>5, AdvancesReflexive, EndOutcome DEF Set

LEMMA DelAdvances ==
  ASSUME NEW c \in GoodCache, NEW k \in Key
  PROVE  Del(c, k) \in Outcomes(c)
<1>1. PICK r : r = Reap(c, k)
  OBVIOUS
<1>2. r \in Advanced(c) /\ r \in GoodCache
  BY <1>1, ReapAdvances DEF Advanced
<1>3. Drop(r, k) \in Advanced(c)
  BY <1>2, DropAdvances, AdvancesTransitive
<1>4. QED
  BY <1>1, <1>2, <1>3, AdvancesReflexive, EndOutcome DEF Del

LEMMA TTLAdvances ==
  ASSUME NEW c \in GoodCache, NEW k \in Key
  PROVE  TTL(c, k) \in Outcomes(c)
BY ReapAdvances, AdvancesReflexive, EndOutcome DEF TTL

LEMMA PersistAdvances ==
  ASSUME NEW c \in GoodCache, NEW k \in Key
  PROVE  Persist(c, k) \in Outcomes(c)
<1>1. PICK r : r = Reap(c, k)
  OBVIOUS
<1>2. r \in Advanced(c) /\ r \in GoodCache /\ r \in CacheRecord
  BY <1>1, ReapAdvances DEF Advanced, GoodCache
<1>3. PICK e : e = [r.entry[k] EXCEPT !.expiresAt = None]
  OBVIOUS
<1>4. ASSUME Has(r, k)
      PROVE  BumpVersion(Relink(r, k, e), k) \in Advanced(c)
  <2>1. r.entry[k] \in EntryRecord
    BY <1>2, <1>4 DEF CacheRecord, Has
  <2>2. e \in EntryRecord
    BY <1>3, <2>1 DEF EntryRecord, Deadline
  <2>3. QED
    BY <1>2, <1>4, <2>2, RelinkThenBump, AdvancesTransitive
<1>5. QED
  BY <1>1, <1>2, <1>3, <1>4, AdvancesReflexive, EndOutcome DEF Persist

LEMMA ExpireAtAdvances ==
  ASSUME NEW c \in GoodCache, NEW k \in Key, NEW at \in Nat, NEW d \in Nat
  PROVE  ExpireAt(c, k, at, d) \in Outcomes(c)
<1>1. PICK r : r = Reap(c, k)
  OBVIOUS
<1>2. r \in Advanced(c) /\ r \in GoodCache
  BY <1>1, ReapAdvances DEF Advanced
<1>3. PICK l : l = Later(r, d)
  OBVIOUS
<1>4. l \in Advanced(c) /\ l \in GoodCache /\ l \in CacheRecord
  BY <1>2, <1>3, LaterAdvances, AdvancesTransitive DEF Advanced, GoodCache
<1>5. PICK e : e = [l.entry[k] EXCEPT !.expiresAt = at]
  OBVIOUS
<1>6. RemoveExpired(l, k) \in Advanced(c)
  BY <1>4, RemoveExpiredAdvances, AdvancesTransitive
<1>7. ASSUME Has(r, k)
      PROVE  BumpVersion(Relink(l, k, e), k) \in Advanced(c)
  <2>1. Has(l, k)
    BY <1>2, <1>3, <1>7 DEF Later, Has, GoodCache, CacheRecord
  <2>2. l.entry[k] \in EntryRecord
    BY <1>4, <2>1 DEF CacheRecord, Has
  <2>3. e \in EntryRecord
    BY <1>5, <2>2 DEF EntryRecord, Deadline
  <2>4. QED
    BY <1>4, <2>1, <2>3, RelinkThenBump, AdvancesTransitive
<1>8. QED
  BY <1>1, <1>2, <1>3, <1>5, <1>6, <1>7, AdvancesReflexive, EndOutcome
     DEF ExpireAt

LEMMA ExpireAdvances ==
  ASSUME NEW c \in GoodCache, NEW k \in Key, NEW ttl \in Nat, NEW d \in Nat
  PROVE  Expire(c, k, ttl, d) \in Outcomes(c)
<1>1. PICK r : r = Reap(c, k)
  OBVIOUS
<1>2. r \in Advanced(c) /\ r \in GoodCache
  BY <1>1, ReapAdvances DEF Advanced
<1>3. PICK l : l = Later(r, d)
  OBVIOUS
<1>4. l \in Advanced(c) /\ l \in GoodCache /\ l \in CacheRecord
  BY <1>2, <1>3, LaterAdvances, AdvancesTransitive DEF Advanced, GoodCache
<1>5. PICK e : e = [l.entry[k] EXCEPT !.expiresAt = l.now + ttl]
  OBVIOUS
<1>6. ASSUME Has(r, k)
      PROVE  BumpVersion(Relink(l, k, e), k) \in Advanced(c)
  <2>1. Has(l, k)
    BY <1>2, <1>3, <1>6 DEF Later, Has, GoodCache, CacheRecord
  <2>2. l.entry[k] \in EntryRecord /\ l.now + ttl \in Nat
    BY <1>4, <2>1 DEF CacheRecord, Has
  <2>3. e \in EntryRecord
    BY <1>5, <2>2 DEF EntryRecord, Deadline
  <2>4. QED
    BY <1>4, <2>1, <2>3, RelinkThenBump, AdvancesTransitive
<1>7. QED
  BY <1>1, <1>2, <1>3, <1>5, <1>6, AdvancesReflexive, EndOutcome DEF Expire

LEMMA IncrAdvances ==
  ASSUME NEW c \in GoodCache, NEW k \in Key, NEW by \in Int, NEW d \in Nat
  PROVE  Incr(c, k, by, d) \in Outcomes(c)
<1>1. PICK r : r = Reap(c, k)
  OBVIOUS
<1>2. r \in Advanced(c) /\ r \in GoodCache /\ r \in CacheRecord
  BY <1>1, ReapAdvances DEF Advanced, GoodCache
<1>3. PICK base : base = IF r.entry[k] = None THEN 0 ELSE r.entry[k].value
  OBVIOUS
<1>4. PICK at : at = IF r.entry[k] = None THEN None ELSE r.entry[k].expiresAt
  OBVIOUS
<1>5. PICK l : l = Later(r, d)
  OBVIOUS
<1>6. l \in Advanced(c) /\ l \in GoodCache
  BY <1>2, <1>5, LaterAdvances, AdvancesTransitive DEF Advanced
<1>7. PICK u : u = IF Live(l, k) THEN Unlinked(l, k) ELSE l
  OBVIOUS
<1>8. Edits(l, k, u)
  <2>1. Edits(l, k, l)
    BY <1>6 DEF Edits, SameVersions
  <2>2. QED
    BY <1>6, <1>7, <2>1, UnlinkedEdits DEF Live
<1>9. at \in Deadline
  BY <1>2, <1>4 DEF CacheRecord, EntryRecord, Deadline
<1>10. ASSUME base + by \in Number
       PROVE  Store(u, k, EntryOf(k, base + by, at)) \in Advanced(c)
  <2>1. base + by \in Value
    BY <1>10, CacheAssumption
  <2>2. EntryOf(k, base + by, at) \in EntryRecord
    BY <1>9, <2>1, EntryOfType
  <2>3. Store(u, k, EntryOf(k, base + by, at)) \in Advanced(l)
    BY <1>6, <1>8, <2>2, StoreAdvances
  <2>4. QED
    BY <1>6, <2>3, AdvancesTransitive
<1>11. Thrown(c) \in Outcomes(c) /\ Thrown(r) \in Outcomes(c)
  BY <1>2, AdvancesReflexive, EndOutcome
<1>12. Incr(c, k, by, d) =
         IF ~ KeyFits(k) THEN Thrown(c)
         ELSE IF base \notin Number THEN Thrown(r)
         ELSE IF base + by \notin Number \/ ~ ValueFits(k, base + by)
              THEN Thrown(r)
         ELSE Done(Store(u, k, EntryOf(k, base + by, at)))
  BY <1>1, <1>3, <1>4, <1>5, <1>7, Zenon DEF Incr
<1>13. QED
  BY <1>10, <1>11, <1>12, EndOutcome

LEMMA CasAdvances ==
  ASSUME NEW c \in GoodCache, NEW k \in Key, NEW expected, NEW v \in Value,
         NEW ttl \in Nat \cup {None}, NEW d \in Nat
  PROVE  Cas(c, k, expected, v, ttl, d) \in Outcomes(c)
<1>1. PICK r : r = Reap(c, k)
  OBVIOUS
<1>2. r \in Advanced(c) /\ r \in GoodCache /\ r \in CacheRecord
  BY <1>1, ReapAdvances DEF Advanced, GoodCache
<1>3. PICK at : at = IF ttl # None THEN c.now + ttl
                     ELSE IF r.entry[k] # None THEN r.entry[k].expiresAt
                     ELSE ResolveTTL(c, k, None)
  OBVIOUS
<1>4. at \in Deadline
  <2>1. c \in CacheRecord /\ c.now \in Nat
    BY DEF GoodCache, CacheRecord
  <2>2. ResolveTTL(c, k, None) \in Deadline
    BY <2>1, ResolveTTLType
  <2>3. QED
    BY <1>2, <1>3, <2>1, <2>2, SMTT(30) DEF CacheRecord, EntryRecord, Deadline
<1>5. PICK w : w = Without(r, k)
  OBVIOUS
<1>6. Edits(r, k, w) /\ w \in GoodCache /\ w \in CacheRecord
  BY <1>2, <1>5, WithoutEdits DEF Edits, GoodCache
<1>7. PICK l : l = Later(w, d)
  OBVIOUS
<1>8. Store(l, k, EntryOf(k, v, at)) \in Advanced(c)
  <2>1. PICK m : m = Later(r, d)
    OBVIOUS
  <2>2. m \in Advanced(c) /\ m \in GoodCache /\ m \in CacheRecord
    BY <1>2, <2>1, LaterAdvances, AdvancesTransitive DEF Advanced, GoodCache
  <2>3. l \in GoodCache
    BY <1>6, <1>7, LaterAdvances DEF Advanced
  <2>4. l.now = m.now
    BY <1>2, <1>6, <1>7, <2>1 DEF Later, CacheRecord, Edits, SameVersions
  <2>5. Edits(m, k, l)
    BY <1>2, <1>6, <1>7, <2>1, <2>3, <2>4
       DEF Edits, SameVersions, Later, CacheRecord
  <2>6. Store(l, k, EntryOf(k, v, at)) \in Advanced(m)
    BY <1>4, <2>2, <2>5, EntryOfType, StoreAdvances
  <2>7. QED
    BY <2>2, <2>6, AdvancesTransitive
<1>9. Drop(r, k) \in Advanced(c)
  BY <1>2, DropAdvances, AdvancesTransitive
<1>10. PICK cur : cur = IF r.entry[k] = None THEN None ELSE r.entry[k].value
  OBVIOUS
<1>11. Cas(c, k, expected, v, ttl, d) =
         IF ~ ValueFits(k, v) THEN Thrown(c)
         ELSE IF cur # expected THEN Done(r)
         ELSE IF at # None /\ at <= c.now
              THEN Done(IF Has(r, k) THEN Drop(r, k) ELSE r)
         ELSE Done(Store(l, k, EntryOf(k, v, at)))
  BY <1>1, <1>3, <1>5, <1>7, <1>10, Zenon DEF Cas
<1>12. QED
  BY <1>2, <1>8, <1>9, <1>11, AdvancesReflexive, EndOutcome

-----------------------------------------------------------------------------
(* The operations that are loops.                                          *)

SetRecordArgument == [key : Key, value : Value, expiresAt : Deadline]

LEMMA SetRecordAdvances ==
  ASSUME NEW c \in GoodCache, NEW e \in SetRecordArgument
  PROVE  SetRecord(c, e) \in Advanced(c)
BY SetOwnedAdvances DEF SetRecord, SetRecordArgument

LEMMA RestoreOneAdvances ==
  ASSUME NEW c \in GoodCache, NEW e \in SetRecordArgument
  PROVE  RestoreOne(c, e) \in Advanced(c)
<1>1. e.key \in Key /\ e.value \in Value /\ e.expiresAt \in Deadline
  BY DEF SetRecordArgument
<1>2. PICK w : w = Without(c, e.key)
  OBVIOUS
<1>3. Edits(c, e.key, w) /\ w \in GoodCache
  BY <1>1, <1>2, WithoutEdits DEF Edits
<1>4. PICK p : p = Put(w, e.key, EntryOf(e.key, e.value, e.expiresAt))
  OBVIOUS
<1>5. EntryOf(e.key, e.value, e.expiresAt) \in EntryRecord
  BY <1>1, EntryOfType
<1>6. Edits(w, e.key, p)
  BY <1>1, <1>3, <1>4, <1>5, PutEdits
<1>7. Edits(c, e.key, p)
  BY <1>1, <1>3, <1>6, EditOfEdit
<1>8. BumpVersion(p, e.key) \in Advanced(c)
  BY <1>1, <1>7, EditThenBump
<1>9. QED
  BY <1>2, <1>4, <1>8, AdvancesReflexive DEF RestoreOne

SetRecordOp(p, c, x) == SetRecord(c, x)
Setting == INSTANCE FoldTheorems WITH Op <- SetRecordOp

LEMMA SettingAdvances ==
  ASSUME NEW c \in GoodCache, NEW seq \in Seq(SetRecordArgument)
  PROVE  FoldLeft(SetRecord, c, seq) \in Advanced(c)
<1>1. FoldLeft(SetRecord, c, seq) = Setting!Folded(0, c, seq)
  BY Zenon DEF SetRecordOp, Setting!Folded, FoldLeft,
     Setting!MapThenFoldSet, MapThenFoldSet, Setting!Top, Max
<1>2. PICK A : A = Advanced(c)
  OBVIOUS
<1>3. PICK B : B = SetRecordArgument
  OBVIOUS
<1>4. \A a \in A, b \in B : SetRecordOp(0, a, b) \in A
  <2>1. SUFFICES ASSUME NEW a \in Advanced(c), NEW b \in SetRecordArgument
                 PROVE  SetRecord(a, b) \in Advanced(c)
    BY <1>2, <1>3 DEF SetRecordOp
  <2>2. a \in GoodCache
    BY DEF Advanced
  <2>3. SetRecord(a, b) \in Advanced(a)
    BY <2>2, SetRecordAdvances
  <2>4. QED
    BY <2>2, <2>3, AdvancesTransitive
<1>5. Setting!Folded(0, c, seq) \in A
  BY <1>2, <1>3, <1>4, AdvancesReflexive, Setting!FoldLeftInvariant
<1>6. QED
  BY <1>1, <1>2, <1>5

RestoreOneOp(p, c, x) == RestoreOne(c, x)
Restoring == INSTANCE FoldTheorems WITH Op <- RestoreOneOp

LEMMA RestoringAdvances ==
  ASSUME NEW c \in GoodCache, NEW seq \in Seq(SetRecordArgument)
  PROVE  FoldLeft(RestoreOne, c, seq) \in Advanced(c)
<1>1. FoldLeft(RestoreOne, c, seq) = Restoring!Folded(0, c, seq)
  BY Zenon DEF RestoreOneOp, Restoring!Folded, FoldLeft,
     Restoring!MapThenFoldSet, MapThenFoldSet, Restoring!Top, Max
<1>2. PICK A : A = Advanced(c)
  OBVIOUS
<1>3. PICK B : B = SetRecordArgument
  OBVIOUS
<1>4. \A a \in A, b \in B : RestoreOneOp(0, a, b) \in A
  <2>1. SUFFICES ASSUME NEW a \in Advanced(c), NEW b \in SetRecordArgument
                 PROVE  RestoreOne(a, b) \in Advanced(c)
    BY <1>2, <1>3 DEF RestoreOneOp
  <2>2. a \in GoodCache
    BY DEF Advanced
  <2>3. RestoreOne(a, b) \in Advanced(a)
    BY <2>2, RestoreOneAdvances
  <2>4. QED
    BY <2>2, <2>3, AdvancesTransitive
<1>5. Restoring!Folded(0, c, seq) \in A
  BY <1>2, <1>3, <1>4, AdvancesReflexive, Restoring!FoldLeftInvariant
<1>6. QED
  BY <1>1, <1>2, <1>5

LEMMA MSetAdvances ==
  ASSUME NEW c \in GoodCache, NEW d \in Nat,
         NEW batch \in Seq([key : Key, value : Value, ttl : Nat \cup {None}])
  PROVE  MSet(c, batch, d) \in Outcomes(c)
<1>1. PICK l : l = Later(c, d)
  OBVIOUS
<1>2. l \in Advanced(c) /\ l \in GoodCache
  BY <1>1, LaterAdvances DEF Advanced
<1>3. PICK seq : seq = [i \in DOMAIN batch |->
                          [key |-> batch[i].key, value |-> batch[i].value,
                           expiresAt |->
                             ResolveTTL(c, batch[i].key, batch[i].ttl)]]
  OBVIOUS
<1>4. seq \in Seq(SetRecordArgument)
  <2>1. ASSUME NEW i \in DOMAIN batch
        PROVE  [key |-> batch[i].key, value |-> batch[i].value,
                expiresAt |-> ResolveTTL(c, batch[i].key, batch[i].ttl)]
                 \in SetRecordArgument
    <3>1. /\ batch[i].key \in Key
          /\ batch[i].value \in Value
          /\ batch[i].ttl \in Nat \cup {None}
      <4>1. PICK B : B = [key : Key, value : Value, ttl : Nat \cup {None}]
        OBVIOUS
      <4>2. batch \in Seq(B)
        BY <4>1, Zenon
      <4>3. batch[i] \in B
        BY <4>2
      <4>4. QED
        BY <4>1, <4>3
    <3>2. ResolveTTL(c, batch[i].key, batch[i].ttl) \in Deadline
      BY <3>1, ResolveTTLType DEF GoodCache
    <3>3. QED
      BY <3>1, <3>2 DEF SetRecordArgument
  <2>2. DOMAIN batch = 1 .. Len(batch) /\ Len(batch) \in Nat
    OBVIOUS
  <2>3. QED
    BY <1>3, <2>1, <2>2
<1>5. FoldLeft(SetRecord, l, seq) \in Advanced(c)
  BY <1>2, <1>4, SettingAdvances, AdvancesTransitive
<1>6. MSet(c, batch, d) = Thrown(c)
        \/ MSet(c, batch, d) = Done(FoldLeft(SetRecord, l, seq))
  BY <1>1, <1>3, Zenon DEF MSet
<1>7. QED
  BY <1>5, <1>6, AdvancesReflexive, EndOutcome

LEMMA RestoreAdvances ==
  ASSUME NEW c \in GoodCache, NEW image \in Seq(SetRecordArgument)
  PROVE  Restore(c, image) \in Outcomes(c)
<1>1. PICK r : r = FoldLeft(RestoreOne, c, image)
  OBVIOUS
<1>2. r \in Advanced(c) /\ r \in GoodCache
  BY <1>1, RestoringAdvances DEF Advanced
<1>3. r.order \in Seq(Key)
  BY <1>2 DEF GoodCache, CacheRecord
<1>4. FoldLeft(EvictAny, r, r.order) \in Advanced(c)
  BY <1>2, <1>3, EvictingAnyAdvances, AdvancesTransitive
<1>5. Restore(c, image) = Thrown(c)
        \/ Restore(c, image) = Done(FoldLeft(EvictAny, r, r.order))
  BY <1>1, Zenon DEF Restore
<1>6. QED
  BY <1>4, <1>5, AdvancesReflexive, EndOutcome

LEMMA SweepAdvances ==
  ASSUME NEW c \in GoodCache
  PROVE  Sweep(c) \in Outcomes(c)
<1>1. c.order \in Seq(Key)
  BY DEF GoodCache, CacheRecord
<1>2. FoldLeft(Reap, c, c.order) \in Advanced(c)
  BY <1>1, ReapingAdvances
<1>3. Sweep(c) = Done(FoldLeft(Reap, c, c.order))
  BY Zenon DEF Sweep
<1>4. QED
  BY <1>2, <1>3, EndOutcome

DropEach == INSTANCE FoldTheorems WITH Op <- DropUnder

LEMMA ClearPrefixAdvances ==
  ASSUME NEW c \in GoodCache, NEW ns
  PROVE  ClearPrefix(c, ns) \in Outcomes(c)
<1>1. ClearPrefix(c, ns) = Done(DropEach!Folded(ns, c, c.order))
  BY Zenon DEF ClearPrefix, DropEach!Folded, FoldLeft,
     DropEach!MapThenFoldSet, MapThenFoldSet, DropEach!Top, Max
<1>2. PICK A : A = Advanced(c)
  OBVIOUS
<1>3. \A a \in A, k \in Key : DropUnder(ns, a, k) \in A
  <2>1. SUFFICES ASSUME NEW a \in Advanced(c), NEW k \in Key
                 PROVE  DropUnder(ns, a, k) \in Advanced(c)
    BY <1>2
  <2>2. a \in GoodCache
    BY DEF Advanced
  <2>3. Drop(a, k) \in Advanced(c)
    BY <2>2, DropAdvances, AdvancesTransitive
  <2>4. QED
    BY <2>3 DEF DropUnder
<1>4. c.order \in Seq(Key)
  BY DEF GoodCache, CacheRecord
<1>5. DropEach!Folded(ns, c, c.order) \in A
  BY <1>2, <1>3, <1>4, AdvancesReflexive, DropEach!FoldLeftInvariant
<1>6. QED
  BY <1>1, <1>2, <1>5, EndOutcome

BumpOp(p, c, k) == BumpVersion(c, k)
Bumping == INSTANCE FoldTheorems WITH Op <- BumpOp

(* Bumping every linked key gives each of them a new version.              *)
LEMMA BumpingAll ==
  ASSUME NEW c \in GoodCache
  PROVE  LET d == FoldLeft(BumpVersion, c, c.order)
         IN  /\ d \in GoodCache
             /\ c.generation <= d.generation
             /\ d.expired = c.expired
             /\ \A k \in Key : Version(c, k) <= Version(d, k)
             /\ \A i \in DOMAIN c.order :
                  Version(c, c.order[i]) < Version(d, c.order[i])
<1>1. PICK n : n = Len(c.order)
  OBVIOUS
<1>2. c.order \in Seq(Key) /\ n \in Nat /\ DOMAIN c.order = 1 .. n
  BY <1>1 DEF GoodCache, CacheRecord
<1>3. PICK r : /\ r[0] = c
               /\ \A i \in 1 .. n : r[i] = BumpOp(0, r[i - 1], c.order[i])
               /\ r[n] = Bumping!Folded(0, c, c.order)
  <2>1. PICK seq : seq = c.order
    OBVIOUS
  <2>2. DOMAIN seq = 1 .. n
    BY <1>2, <2>1
  <2>3. PICK zero : zero = 0
    OBVIOUS
  <2>4. \E r : /\ r[0] = c
               /\ \A i \in 1 .. n : r[i] = BumpOp(zero, r[i - 1], seq[i])
               /\ r[n] = Bumping!Folded(zero, c, seq)
    BY <1>2, <2>2, Bumping!FoldLeftRun
  <2>5. QED
    BY <2>1, <2>3, <2>4
<1>4. FoldLeft(BumpVersion, c, c.order) = r[n]
  <2>1. FoldLeft(BumpVersion, c, c.order) = Bumping!Folded(0, c, c.order)
    BY Zenon DEF BumpOp, Bumping!Folded, FoldLeft,
       Bumping!MapThenFoldSet, MapThenFoldSet, Bumping!Top, Max
  <2>2. QED
    BY <2>1, <1>3
<1> DEFINE After(m) ==
             /\ r[m] \in GoodCache
             /\ c.generation <= r[m].generation
             /\ r[m].expired = c.expired
             /\ \A k \in Key : Version(c, k) <= Version(r[m], k)
             /\ \A i \in 1 .. m : Version(c, c.order[i]) < Version(r[m], c.order[i])
<1>5. PICK M : M = {m \in Nat : m <= n => After(m)}
  OBVIOUS
<1>6. 0 \in M
  <2>1. c \in Advanced(c)
    BY AdvancesReflexive
  <2>2. After(0)
    BY <1>3, <2>1 DEF Advanced, Advances
  <2>3. QED
    BY <1>5, <2>2
<1>7. ASSUME NEW m \in Nat, m \in M PROVE m + 1 \in M
  <2>1. SUFFICES ASSUME m + 1 <= n PROVE After(m + 1)
    BY <1>5
  <2>2. After(m)
    BY <1>2, <1>5, <1>7, <2>1
  <2>3. m + 1 \in 1 .. n /\ (m + 1) - 1 = m
    BY <1>2, <2>1
  <2>4. PICK k \in Key : k = c.order[m + 1]
    BY <1>2, <2>3
  <2>5. r[m + 1] = BumpVersion(r[m], k)
    BY <1>3, <2>3, <2>4 DEF BumpOp
  <2>6. r[m + 1] \in AfterBump(r[m], k)
    BY <2>2, <2>5, BumpVersionBumps
  <2>7. /\ r[m] \in CacheRecord /\ r[m + 1] \in CacheRecord
        /\ c \in CacheRecord
    BY <2>2, <2>6 DEF AfterBump, GoodCache
  <2>8. \A j \in Key : /\ Version(c, j) \in Nat
                       /\ Version(r[m], j) \in Nat
                       /\ Version(r[m + 1], j) \in Nat
    BY <2>7, VersionType
  <2>9. c.generation \in Nat /\ r[m].generation \in Nat
    BY <2>7 DEF CacheRecord
  <2>10. /\ r[m + 1] \in GoodCache /\ c.generation <= r[m + 1].generation
         /\ r[m + 1].expired = c.expired
    BY <2>2, <2>6, <2>9 DEF AfterBump
  <2>11. ASSUME NEW j \in Key
         PROVE  Version(c, j) <= Version(r[m + 1], j)
    BY <2>2, <2>6, <2>8 DEF AfterBump
  <2>12. ASSUME NEW i \in 1 .. (m + 1)
         PROVE  Version(c, c.order[i]) < Version(r[m + 1], c.order[i])
    <3>1. CASE i = m + 1
      <4>1. Version(c, k) <= c.generation
        BY <2>7 DEF GoodCache, VersionsBounded, Version
      <4>2. Version(r[m + 1], k) = r[m].generation + 1
        BY <2>6 DEF AfterBump
      <4>3. QED
        BY <3>1, <4>1, <4>2, <2>2, <2>4, <2>8, <2>9
    <3>2. CASE i \in 1 .. m
      <4>1. c.order[i] \in Key
        BY <3>2, <1>2, <2>1
      <4>2. /\ Version(c, c.order[i]) < Version(r[m], c.order[i])
            /\ Version(r[m], c.order[i]) <= Version(r[m + 1], c.order[i])
        BY <3>2, <4>1, <2>2, <2>6 DEF AfterBump
      <4>3. QED
        BY <4>1, <4>2, <2>8
    <3>3. QED
      BY <3>1, <3>2
  <2>13. QED
    BY <2>10, <2>11, <2>12
<1>8. n \in M
  BY <1>2, <1>6, <1>7, SetInduction
<1>9. After(n)
  BY <1>2, <1>5, <1>8
<1>10. QED
  BY <1>2, <1>4, <1>9

LEMMA ClearAdvances ==
  ASSUME NEW c \in GoodCache
  PROVE  Clear(c) \in Outcomes(c)
<1>1. PICK d : d = FoldLeft(BumpVersion, c, c.order)
  OBVIOUS
<1>2. /\ d \in GoodCache
      /\ c.generation <= d.generation
      /\ d.expired = c.expired
      /\ \A k \in Key : Version(c, k) <= Version(d, k)
      /\ \A i \in DOMAIN c.order :
           Version(c, c.order[i]) < Version(d, c.order[i])
  BY <1>1, BumpingAll
<1>3. d \in CacheRecord
  BY <1>2 DEF GoodCache
<1>4. PICK e : e = [d EXCEPT !.order = <<>>, !.entry = NoEntry, !.bytes = 0]
  OBVIOUS
<1>5. NoEntry \in [Key -> EntryRecord \cup {None}]
  BY DEF NoEntry
<1>6. e \in CacheRecord
  <2>1. PICK empty : empty = <<>>
    OBVIOUS
  <2>2. empty \in Seq(Key)
    BY <2>1
  <2>3. PICK none : none = NoEntry
    OBVIOUS
  <2>4. none \in [Key -> EntryRecord \cup {None}]
    BY <1>5, <2>3
  <2>5. PICK zero : zero = 0
    OBVIOUS
  <2>6. e = [d EXCEPT !.order = empty, !.entry = none, !.bytes = zero]
    BY <1>4, <2>1, <2>3, <2>5
  <2>7. zero \in Int
    BY <2>5
  <2>8. QED
    BY <1>3, <2>2, <2>4, <2>6, <2>7 DEF CacheRecord
<1>7. /\ e.entry = NoEntry
      /\ e.version = d.version
      /\ e.absentEpoch = d.absentEpoch
      /\ e.generation = d.generation
      /\ e.expired = d.expired
  BY <1>3, <1>4 DEF CacheRecord
<1>8. \A k \in Key : ~ Has(e, k)
  BY <1>7 DEF Has, NoEntry
<1>9. e \in GoodCache
  BY <1>2, <1>6, <1>7, <1>8 DEF GoodCache, VersionsBounded, PresentLinked
<1>10. ASSUME NEW k \in Key, c.entry[k] # e.entry[k]
       PROVE  Version(c, k) < Version(d, k)
  <2>1. Has(c, k)
    BY <1>7, <1>10 DEF Has, NoEntry
  <2>2. QED
    BY <1>2, <2>1 DEF GoodCache, PresentLinked
<1>11. \A k \in Key : Version(e, k) = Version(d, k)
  BY <1>7 DEF Version
<1>12. e \in Advanced(c)
  BY <1>2, <1>7, <1>9, <1>10, <1>11 DEF Advanced, Advances
<1>13. Clear(c) = Done(e)
  BY <1>1, <1>4, Zenon DEF Clear
<1>14. QED
  BY <1>12, <1>13, EndOutcome

-----------------------------------------------------------------------------
(* A rolled back call leaves every entry and every version as it was.      *)
LEMMA RolledBackAdvances ==
  ASSUME NEW c \in GoodCache, NEW d \in Advanced(c)
  PROVE  /\ RolledBack(c, d) \in Advanced(c)
         /\ RolledBack(c, d).entry = c.entry
<1>1. c \in CacheRecord /\ d \in CacheRecord
  BY DEF Advanced, GoodCache
<1>2. PICK e : e = RolledBack(c, d)
  OBVIOUS
<1>3. d.generation \in Nat /\ d.now \in Nat /\ c.generation \in Nat
  BY <1>1 DEF CacheRecord
<1>4. e \in CacheRecord
  BY <1>1, <1>2, <1>3 DEF CacheRecord, RolledBack
<1>5. /\ e.entry = c.entry
      /\ e.order = c.order
      /\ e.version = c.version
      /\ e.absentEpoch = c.absentEpoch
      /\ e.generation = d.generation
      /\ e.expired = c.expired
  BY <1>1, <1>2 DEF CacheRecord, RolledBack
<1>6. c.generation <= e.generation
  BY <1>5 DEF Advanced, Advances
<1>7. VersionsBounded(e)
  <2>1. c.absentEpoch \in Nat /\ \A k \in Key : c.version[k] \in Nat
    BY <1>1 DEF CacheRecord
  <2>2. QED
    BY <2>1, <1>3, <1>5, <1>6 DEF GoodCache, VersionsBounded
<1>8. PresentLinked(e)
  BY <1>5 DEF GoodCache, PresentLinked, Has
<1>9. \A k \in Key : Version(c, k) \in Nat /\ Version(e, k) = Version(c, k)
  BY <1>1, <1>5, VersionType DEF Version
<1>10. e \in Advanced(c)
  BY <1>4, <1>5, <1>6, <1>7, <1>8, <1>9 DEF Advanced, Advances, GoodCache
<1>11. QED
  BY <1>2, <1>5, <1>10

LEMMA AtomicAdvances ==
  ASSUME NEW c \in GoodCache, NEW r \in Outcomes(c)
  PROVE  /\ Atomic(c, r) \in Outcomes(c)
         /\ Atomic(c, r).ok = r.ok
         /\ ~ r.ok => Atomic(c, r).cache.entry = c.entry
<1>1. r.cache \in Advanced(c) /\ r.ok \in BOOLEAN
  BY DEF Outcomes
<1>2. CASE r.ok
  BY <1>2 DEF Atomic
<1>3. CASE ~ r.ok
  BY <1>1, <1>3, RolledBackAdvances, EndOutcome DEF Atomic, Thrown
<1>4. QED
  BY <1>1, <1>2, <1>3

LEMMA ReplaceAdvances ==
  ASSUME NEW c \in GoodCache, NEW image \in Seq(SetRecordArgument)
  PROVE  Replace(c, image) \in Outcomes(c)
<1>1. PICK d : d = Clear(c).cache
  OBVIOUS
<1>2. d \in Advanced(c) /\ d \in GoodCache
  BY <1>1, ClearAdvances DEF Outcomes, Advanced
<1>3. Restore(d, image) \in Outcomes(c)
  BY <1>2, RestoreAdvances, OutcomeTransitive
<1>4. QED
  BY <1>1, <1>3, AtomicAdvances DEF Replace

-----------------------------------------------------------------------------
(* Operations queued in a transaction.                                     *)

LEMMA ApplyAdvances ==
  ASSUME NEW c \in GoodCache, NEW op \in Queueable
  PROVE  Apply(c, op) \in Outcomes(c)
<1>1. CASE op \in [op : {"set"}, key : Key, value : Value, ttl : Nat \cup {None}]
  <2>1. /\ op.op = "set" /\ op.key \in Key /\ op.value \in Value
        /\ op.ttl \in Nat \cup {None}
    BY <1>1
  <2>2. Set(c, op.key, op.value, op.ttl, 0) \in Outcomes(c)
    BY <2>1, SetAdvances
  <2>3. QED
    BY <2>1, <2>2 DEF Apply
<1>2. CASE op \in [op : {"mset"}, batch : Seq(BatchEntry)]
  <2>1. op.op = "mset" /\ op.batch \in Seq(BatchEntry)
    BY <1>2
  <2>2. MSet(c, op.batch, 0) \in Outcomes(c)
    BY <2>1, MSetAdvances DEF BatchEntry
  <2>3. QED
    BY <2>1, <2>2 DEF Apply
<1>3. CASE op \in [op : {"del", "persist"}, key : Key]
  <2>1. (op.op = "del" \/ op.op = "persist") /\ op.key \in Key
    BY <1>3
  <2>2. Del(c, op.key) \in Outcomes(c) /\ Persist(c, op.key) \in Outcomes(c)
    BY <2>1, DelAdvances, PersistAdvances
  <2>3. QED
    BY <2>1, <2>2 DEF Apply
<1>4. CASE op \in [op : {"clear"}, prefix : Namespace]
  <2>1. op.op = "clear"
    BY <1>4
  <2>2. ClearPrefix(c, op.prefix) \in Outcomes(c)
    BY ClearPrefixAdvances
  <2>3. QED
    BY <2>1, <2>2 DEF Apply
<1>5. CASE op \in [op : {"expire"}, key : Key, ttl : Nat]
  <2>1. op.op = "expire" /\ op.key \in Key /\ op.ttl \in Nat
    BY <1>5
  <2>2. Expire(c, op.key, op.ttl, 0) \in Outcomes(c)
    BY <2>1, ExpireAdvances
  <2>3. QED
    BY <2>1, <2>2 DEF Apply
<1>6. CASE op \in [op : {"incr"}, key : Key, by : Int]
  <2>1. op.op = "incr" /\ op.key \in Key /\ op.by \in Int
    BY <1>6
  <2>2. Incr(c, op.key, op.by, 0) \in Outcomes(c)
    BY <2>1, IncrAdvances
  <2>3. QED
    BY <2>1, <2>2 DEF Apply
<1>7. CASE op \in [op : {"cas"}, key : Key, expected : Value \cup {None},
                   value : Value, ttl : Nat \cup {None}]
  <2>1. /\ op.op = "cas" /\ op.key \in Key /\ op.value \in Value
        /\ op.ttl \in Nat \cup {None}
    BY <1>7
  <2>2. Cas(c, op.key, op.expected, op.value, op.ttl, 0) \in Outcomes(c)
    BY <2>1, CasAdvances
  <2>3. QED
    BY <2>1, <2>2 DEF Apply
<1>8. QED
  BY <1>1, <1>2, <1>3, <1>4, <1>5, <1>6, <1>7 DEF Queueable

ApplyOp(p, r, op) == ApplyNext(r, op)
Applying == INSTANCE FoldTheorems WITH Op <- ApplyOp

(* However far the queue gets, its effect advances the cache.              *)
LEMMA ApplyingAdvances ==
  ASSUME NEW c \in GoodCache, NEW queue \in Seq(Queueable)
  PROVE  FoldLeft(ApplyNext, Done(c), queue) \in Outcomes(c)
<1>1. FoldLeft(ApplyNext, Done(c), queue) = Applying!Folded(0, Done(c), queue)
  BY Zenon DEF ApplyOp, Applying!Folded, FoldLeft,
     Applying!MapThenFoldSet, MapThenFoldSet, Applying!Top, Max
<1>2. PICK A : A = Outcomes(c)
  OBVIOUS
<1>3. \A r \in A, op \in Queueable : ApplyOp(0, r, op) \in A
  <2>1. SUFFICES ASSUME NEW r \in Outcomes(c), NEW op \in Queueable
                 PROVE  ApplyNext(r, op) \in Outcomes(c)
    BY <1>2 DEF ApplyOp
  <2>2. r.cache \in Advanced(c) /\ r.cache \in GoodCache
    BY DEF Outcomes, Advanced
  <2>3. Apply(r.cache, op) \in Outcomes(c)
    BY <2>2, ApplyAdvances, OutcomeTransitive
  <2>4. QED
    BY <2>3 DEF ApplyNext
<1>4. PICK d : d = Done(c)
  OBVIOUS
<1>5. d \in A
  BY <1>2, <1>4, AdvancesReflexive, EndOutcome
<1>6. Applying!Folded(0, d, queue) \in A
  BY <1>3, <1>5, Applying!FoldLeftInvariant
<1>7. QED
  BY <1>1, <1>2, <1>4, <1>6

-----------------------------------------------------------------------------
(* What is stored, and how much it is.                                     *)
(*                                                                         *)
(* In the rest of the module x is the time that may pass within a call.    *)
(* If it is zero the byte total is exact; if not, an INCR whose entry      *)
(* expires under way adds the new size and keeps the old one (Incr).       *)

Present(c) == {k \in Key : Has(c, k)}

Versioned(c) == {k \in Key : c.version[k] # 0}

StoredSize(c) == MapThenSumSet(LAMBDA k : c.entry[k].size, Present(c))

(* The two lists name what the two tables hold, and no more is stored than *)
(* is counted.                                                             *)
Stored(x) ==
  {c \in GoodCache :
     /\ Enumerates(c.order, Present(c))
     /\ Enumerates(c.versionOrder, Versioned(c))
     /\ StoredSize(c) <= c.bytes
     /\ x = 0 => StoredSize(c) = c.bytes}

(* Every present key but k has a version.                                  *)
VersionedBut(c, k) == \A j \in Key \ {k} : Has(c, j) => c.version[j] # 0

(* Between two statements of an operation: the version table is larger     *)
(* than its limit only while it holds nothing that could be forgotten.     *)
Tidy(x) ==
  {c \in Stored(x) :
     /\ \A k \in Key : Has(c, k) => c.version[k] # 0
     /\ \/ Len(c.versionOrder) <= VersionLimit
        \/ \A k \in Key : c.version[k] # 0 => Has(c, k)}

(* Between two operations: nothing is over its limit, unless what was      *)
(* counted twice is all there is.                                          *)
Fit(x) == {c \in Tidy(x) : OverCapacity(c) => Len(c.order) = 0}

SizeOp(c, k, j) == c.entry[k].size
Sizes == INSTANCE FoldTheorems WITH Op <- SizeOp

LEMMA StoredSizeIsSum ==
  ASSUME NEW c
  PROVE  StoredSize(c) = Sizes!Summed(c, Present(c))
BY Zenon DEF StoredSize, SizeOp, Sizes!Summed, MapThenSumSet, Sizes!MapThenFoldSet, MapThenFoldSet

LEMMA SummedIsFinite ==
  ASSUME NEW S, IsFiniteSet(S)
  PROVE  Sizes!IsFiniteSet(S)
BY Zenon DEF IsFiniteSet, Sizes!IsFiniteSet

LEMMA SizeType ==
  ASSUME NEW c \in CacheRecord, NEW k \in Present(c)
  PROVE  c.entry[k] \in EntryRecord /\ c.entry[k].size \in Nat
<1>1. c.entry[k] \in EntryRecord
  BY DEF CacheRecord, Present, Has
<1>2. QED
  BY <1>1 DEF EntryRecord

(* The size of what is stored, split at one key.                           *)
LEMMA StoredSizeSplits ==
  ASSUME NEW c \in CacheRecord, Enumerates(c.order, Present(c))
  PROVE  /\ IsFiniteSet(Present(c))
         /\ StoredSize(c) \in Nat
         /\ \A k \in Present(c) :
              StoredSize(c) = c.entry[k].size
                                + Sizes!Summed(c, Present(c) \ {k})
<1>1. PICK S : S = Present(c)
  OBVIOUS
<1>2. PICK o : o = c.order
  OBVIOUS
<1>3. o \in Seq(Key) /\ ToSet(o) = S
  BY <1>1, <1>2 DEF CacheRecord, Enumerates
<1>4. IsFiniteSet(S)
  BY <1>3, EnumeratedIsFinite
<1>5. \A k \in S : SizeOp(c, k, k) \in Nat /\ SizeOp(c, k, k) \in Int
  BY <1>1, SizeType DEF SizeOp
<1>6. Sizes!Summed(c, S) \in Nat
  BY <1>4, <1>5, SummedIsFinite, Sizes!SumOfNaturals
<1>7. \A k \in S : Sizes!Summed(c, S)
                     = SizeOp(c, k, k) + Sizes!Summed(c, S \ {k})
  BY <1>4, <1>5, SummedIsFinite, Sizes!SumOfRest
<1>8. QED
  BY <1>1, <1>4, <1>6, <1>7, StoredSizeIsSum DEF SizeOp

LEMMA SameSizesSameSum ==
  ASSUME NEW c, NEW d, NEW S, IsFiniteSet(S),
         \A k \in S : c.entry[k].size = d.entry[k].size
  PROVE  Sizes!Summed(c, S) = Sizes!Summed(d, S)
<1>1. \A k \in S : SizeOp(c, k, k) = SizeOp(d, k, k)
  BY DEF SizeOp
<1>2. QED
  BY <1>1, SummedIsFinite, Sizes!SumOfSame

LEMMA NothingStored ==
  ASSUME NEW c, Present(c) = {}
  PROVE  StoredSize(c) = 0
BY StoredSizeIsSum, Sizes!SumOfNone

LEMMA RestOfStored ==
  ASSUME NEW c \in CacheRecord, NEW k, Enumerates(c.order, Present(c))
  PROVE  /\ IsFiniteSet(Present(c) \ {k})
         /\ Sizes!Summed(c, Present(c) \ {k}) \in Nat
<1>1. PICK S : S = Present(c) \ {k}
  OBVIOUS
<1>2. IsFiniteSet(S)
  BY <1>1, StoredSizeSplits, FS_Subset
<1>3. \A j \in S : SizeOp(c, j, j) \in Nat
  BY <1>1, SizeType DEF SizeOp
<1>4. Sizes!Summed(c, S) \in Nat
  BY <1>2, <1>3, SummedIsFinite, Sizes!SumOfNaturals
<1>5. QED
  BY <1>1, <1>2, <1>4

-----------------------------------------------------------------------------
(* The map operations on what is stored.                                   *)

(* d is c without k.                                                       *)
LosesKey(c, k, d) ==
  /\ d.entry = [c.entry EXCEPT ![k] = None]
  /\ d.order = RemoveFirst(c.order, k)
  /\ Len(d.order) = Len(c.order) - 1
  /\ d.bytes = c.bytes - c.entry[k].size
  /\ Present(d) = Present(c) \ {k}

LEMMA UnlinkedStored ==
  ASSUME NEW x, NEW c \in Stored(x), NEW k \in Key, Has(c, k)
  PROVE  /\ Unlinked(c, k) \in Stored(x)
         /\ SameVersions(c, Unlinked(c, k))
         /\ LosesKey(c, k, Unlinked(c, k))
<1>1. PICK d : d = Unlinked(c, k)
  OBVIOUS
<1>2. c \in GoodCache /\ c \in CacheRecord
  BY DEF Stored, GoodCache
<1>3. d \in GoodCache /\ d \in CacheRecord /\ SameVersions(c, d)
  BY <1>1, <1>2, UnlinkedEdits DEF Edits, GoodCache
<1>4. /\ d.entry = [c.entry EXCEPT ![k] = None]
      /\ d.order = RemoveFirst(c.order, k)
      /\ d.bytes = c.bytes - c.entry[k].size
  BY <1>1, <1>2 DEF CacheRecord, Unlinked
<1>5. Present(d) = Present(c) \ {k}
  BY <1>2, <1>4 DEF CacheRecord, Present, Has
<1>6. k \in Present(c)
  BY DEF Present
<1>7. /\ Enumerates(d.order, Present(d))
      /\ Len(d.order) = Len(c.order) - 1
  <2>1. PICK T : T = Present(c)
    OBVIOUS
  <2>2. PICK o : o = c.order
    OBVIOUS
  <2>3. o \in Seq(Key) /\ Enumerates(o, T) /\ k \in T
    BY <2>1, <2>2, <1>2, <1>6 DEF CacheRecord, Stored
  <2>4. /\ Enumerates(RemoveFirst(o, k), T \ {k})
        /\ Len(RemoveFirst(o, k)) = Len(o) - 1
    BY <2>3, RemoveFirstEnumerates
  <2>5. QED
    BY <2>1, <2>2, <2>4, <1>4, <1>5
<1>8. Enumerates(d.versionOrder, Versioned(d))
  BY <1>3 DEF SameVersions, Stored, Versioned
<1>9. StoredSize(c) = c.entry[k].size + StoredSize(d)
  <2>1. PICK S : S = Present(c) \ {k}
    OBVIOUS
  <2>2. IsFiniteSet(S) /\ StoredSize(c) = c.entry[k].size + Sizes!Summed(c, S)
    BY <2>1, <1>2, <1>6, StoredSizeSplits, RestOfStored DEF Stored
  <2>3. \A j \in S : c.entry[j].size = d.entry[j].size
    BY <2>1, <1>2, <1>4 DEF CacheRecord, Present
  <2>4. Sizes!Summed(c, S) = Sizes!Summed(d, S)
    BY <2>2, <2>3, SameSizesSameSum
  <2>5. StoredSize(d) = Sizes!Summed(d, S)
    BY <2>1, <1>5, StoredSizeIsSum
  <2>6. QED
    BY <2>2, <2>4, <2>5
<1>10. /\ c.bytes \in Int /\ c.entry[k].size \in Nat
       /\ StoredSize(c) \in Nat /\ StoredSize(d) \in Nat
  BY <1>2, <1>3, <1>6, <1>7, SizeType, StoredSizeSplits
     DEF CacheRecord, Stored
<1>11. d \in Stored(x)
  BY <1>3, <1>4, <1>7, <1>8, <1>9, <1>10 DEF Stored
<1>12. QED
  BY <1>1, <1>3, <1>4, <1>5, <1>7, <1>11 DEF LosesKey

(* An entry put in place of an older one is the exception that x allows.   *)
LEMMA PutStored ==
  ASSUME NEW x, NEW c \in Stored(x), NEW k \in Key, NEW e \in EntryRecord,
         x = 0 => ~ Has(c, k)
  PROVE  LET d == Put(c, k, e)
         IN  /\ d \in Stored(x)
             /\ SameVersions(c, d)
             /\ d.entry = [c.entry EXCEPT ![k] = e]
             /\ d.bytes = c.bytes + e.size
             /\ Present(d) = Present(c) \cup {k}
             /\ ~ Has(c, k) => d.order = Append(c.order, k)
<1>1. PICK d : d = Put(c, k, e)
  OBVIOUS
<1>2. c \in GoodCache /\ c \in CacheRecord
  BY DEF Stored, GoodCache
<1>3. d \in GoodCache /\ d \in CacheRecord /\ SameVersions(c, d)
  BY <1>1, <1>2, PutEdits DEF Edits, GoodCache
<1>4. /\ d.entry = [c.entry EXCEPT ![k] = e]
      /\ d.order = IF Has(c, k) THEN c.order ELSE Append(c.order, k)
      /\ d.bytes = c.bytes + e.size
  BY <1>1, <1>2 DEF CacheRecord, Put
<1>5. e # None
  BY EntryAssumption
<1>6. Present(d) = Present(c) \cup {k}
  BY <1>2, <1>4, <1>5 DEF CacheRecord, Present, Has
<1>7. Enumerates(d.order, Present(d))
  <2>1. c.order \in Seq(Key) /\ Enumerates(c.order, Present(c))
    BY <1>2 DEF CacheRecord, Stored
  <2>2. CASE Has(c, k)
    <3>1. Present(d) = Present(c) /\ d.order = c.order
      BY <2>2, <1>4, <1>6 DEF Present
    <3>2. QED
      BY <2>1, <3>1
  <2>3. CASE ~ Has(c, k)
    <3>1. k \notin Present(c) /\ d.order = Append(c.order, k)
      BY <2>3, <1>4 DEF Present
    <3>2. QED
      BY <2>1, <3>1, <1>6, AppendEnumerates
  <2>4. QED
    BY <2>2, <2>3
<1>8. Enumerates(d.versionOrder, Versioned(d))
  BY <1>3 DEF SameVersions, Stored, Versioned
<1>9. PICK S : S = Present(c) \ {k}
  OBVIOUS
<1>10. IsFiniteSet(S) /\ Sizes!Summed(c, S) \in Nat
  BY <1>2, <1>9, RestOfStored DEF Stored
<1>11. StoredSize(d) = e.size + Sizes!Summed(c, S)
  <2>1. k \in Present(d) /\ Present(d) \ {k} = S
    BY <1>6, <1>9
  <2>2. StoredSize(d) = d.entry[k].size + Sizes!Summed(d, S)
    BY <2>1, <1>3, <1>7, StoredSizeSplits
  <2>3. d.entry[k] = e
    BY <1>2, <1>4 DEF CacheRecord
  <2>4. \A j \in S : c.entry[j].size = d.entry[j].size
    BY <1>2, <1>4, <1>9 DEF CacheRecord, Present
  <2>5. Sizes!Summed(c, S) = Sizes!Summed(d, S)
    BY <1>10, <2>4, SameSizesSameSum
  <2>6. QED
    BY <2>2, <2>3, <2>5
<1>12. /\ Has(c, k) => StoredSize(c) = c.entry[k].size + Sizes!Summed(c, S)
                         /\ c.entry[k].size \in Nat
       /\ ~ Has(c, k) => StoredSize(c) = Sizes!Summed(c, S)
  <2>1. CASE Has(c, k)
    <3>1. k \in Present(c)
      BY <2>1 DEF Present
    <3>2. QED
      BY <2>1, <3>1, <1>2, <1>9, StoredSizeSplits, SizeType DEF Stored
  <2>2. CASE ~ Has(c, k)
    <3>1. S = Present(c)
      BY <2>2, <1>9 DEF Present
    <3>2. QED
      BY <2>2, <3>1, StoredSizeIsSum
  <2>3. QED
    BY <2>1, <2>2
<1>13. c.bytes \in Int /\ e.size \in Nat
  BY <1>2 DEF CacheRecord, EntryRecord
<1>14. StoredSize(c) <= c.bytes /\ (x = 0 => StoredSize(c) = c.bytes)
  BY DEF Stored
<1>15. /\ StoredSize(d) <= d.bytes
       /\ x = 0 => StoredSize(d) = d.bytes
  BY <1>4, <1>10, <1>11, <1>12, <1>13, <1>14
<1>16. d \in Stored(x)
  BY <1>3, <1>7, <1>8, <1>15 DEF Stored
<1>17. QED
  BY <1>1, <1>3, <1>4, <1>6, <1>16

-----------------------------------------------------------------------------
(* Versions and what is stored: a bump writes the version table only, and  *)
(* leaves it within its limit or with nothing in it to forget.             *)

SameStore(c, d) ==
  /\ d.entry = c.entry
  /\ d.order = c.order
  /\ d.bytes = c.bytes
  /\ d.now = c.now

LEMMA SameStoreStored ==
  ASSUME NEW x, NEW c \in Stored(x), NEW d \in GoodCache, SameStore(c, d),
         Enumerates(d.versionOrder, Versioned(d))
  PROVE  d \in Stored(x)
<1>1. d.entry = c.entry /\ d.order = c.order /\ d.bytes = c.bytes
  BY DEF SameStore
<1>2. Present(d) = Present(c)
  BY <1>1 DEF Present, Has
<1>3. StoredSize(d) = StoredSize(c)
  <2>1. c \in CacheRecord /\ Enumerates(c.order, Present(c))
    BY DEF Stored, GoodCache
  <2>2. Sizes!Summed(d, Present(c)) = Sizes!Summed(c, Present(c))
    BY <2>1, <1>1, StoredSizeSplits, SameSizesSameSum
  <2>3. QED
    BY <2>2, <1>2, StoredSizeIsSum
<1>4. /\ Enumerates(c.order, Present(c))
      /\ StoredSize(c) <= c.bytes
      /\ x = 0 => StoredSize(c) = c.bytes
  BY DEF Stored
<1>5. /\ Enumerates(d.order, Present(d))
      /\ StoredSize(d) <= d.bytes
      /\ x = 0 => StoredSize(d) = d.bytes
  BY <1>1, <1>2, <1>3, <1>4, Zenon
<1>6. QED
  BY <1>5 DEF Stored

LEMMA RecordedStored ==
  ASSUME NEW x, NEW c \in Stored(x), NEW k \in Key
  PROVE  LET d == Recorded(c, k)
         IN  /\ d \in Stored(x)
             /\ SameStore(c, d)
             /\ Versioned(d) = Versioned(c) \cup {k}
<1>1. PICK d : d = Recorded(c, k)
  OBVIOUS
<1>2. c \in GoodCache /\ c \in CacheRecord
  BY DEF Stored, GoodCache
<1>3. d \in GoodCache
  BY <1>1, <1>2, RecordedIsBumped DEF AfterBump
<1>4. SameStore(c, d)
  BY <1>1, <1>2 DEF SameStore, Recorded, CacheRecord
<1>5. /\ d.version = [c.version EXCEPT ![k] = c.generation + 1]
      /\ d.versionOrder = IF c.version[k] = 0 THEN Append(c.versionOrder, k)
                          ELSE c.versionOrder
  BY <1>1, <1>2 DEF Recorded, CacheRecord
<1>6. Versioned(d) = Versioned(c) \cup {k}
  BY <1>2, <1>5 DEF Versioned, CacheRecord
<1>7. PICK w : w = c.versionOrder
  OBVIOUS
<1>8. PICK T : T = Versioned(c)
  OBVIOUS
<1>9. w \in Seq(Key) /\ Enumerates(w, T) /\ d.versionOrder \in Seq(Key)
  BY <1>2, <1>3, <1>7, <1>8 DEF Stored, CacheRecord, GoodCache
<1>10. Enumerates(d.versionOrder, Versioned(d))
  <2>1. CASE k \in T
    <3>1. T \cup {k} = T /\ d.versionOrder = w
      BY <2>1, <1>5, <1>7, <1>8 DEF Versioned
    <3>2. QED
      BY <3>1, <1>6, <1>8, <1>9
  <2>2. CASE k \notin T
    <3>1. d.versionOrder = Append(w, k)
      BY <2>2, <1>5, <1>7, <1>8 DEF Versioned
    <3>2. Enumerates(Append(w, k), T \cup {k})
      BY <2>2, <1>9, AppendEnumerates
    <3>3. QED
      BY <3>1, <3>2, <1>6, <1>8
  <2>3. QED
    BY <2>1, <2>2
<1>11. QED
  BY <1>1, <1>3, <1>4, <1>6, <1>10, SameStoreStored

(* A turn of the pruning loop forgets j or has a reason not to.            *)
LEMMA PruneStored ==
  ASSUME NEW x, NEW c \in Stored(x), NEW j \in Key,
         NEW a \in GoodCache, NEW k \in Key, c \in AfterBump(a, k)
  PROVE  LET d == PruneVersion(c, j)
         IN  /\ d \in Stored(x)
             /\ d \in AfterBump(a, k)
             /\ SameStore(c, d)
             /\ Versioned(d) \subseteq Versioned(c)
             /\ \A i \in Key : Has(c, i) => d.version[i] = c.version[i]
             /\ \/ Has(c, j)
                \/ d.version[j] = 0
                \/ Len(d.versionOrder) <= VersionTarget
             /\ Len(d.versionOrder) <= Len(c.versionOrder)
<1>1. c \in GoodCache /\ c \in CacheRecord
  BY DEF Stored, GoodCache
<1>2. Len(c.versionOrder) \in Nat /\ VersionTarget \in Nat
  BY <1>1, CacheAssumption, SMTT(30) DEF CacheRecord, VersionTarget
<1>3. PICK d : d = PruneVersion(c, j)
  OBVIOUS
<1>4. d \in AfterBump(a, k)
  BY <1>3, PruneKeepsBumped
<1>5. d \in GoodCache /\ d \in CacheRecord
  BY <1>4 DEF AfterBump, GoodCache
<1>6. CASE ~ (~ Has(c, j) /\ Len(c.versionOrder) > VersionTarget)
  <2>1. d = c
    BY <1>3, <1>6 DEF PruneVersion
  <2>2. SameStore(c, c)
    BY DEF SameStore
  <2>3. Has(c, j) \/ Len(c.versionOrder) <= VersionTarget
    BY <1>2, <1>6
  <2>4. Len(c.versionOrder) <= Len(c.versionOrder)
    BY <1>2
  <2>5. QED
    BY <2>1, <2>2, <2>3, <2>4, <1>3, <1>4
<1>7. CASE ~ Has(c, j) /\ Len(c.versionOrder) > VersionTarget
  <2>1. d = [c EXCEPT !.version = [@ EXCEPT ![j] = 0],
                      !.versionOrder = RemoveFirst(@, j),
                      !.absentEpoch = c.generation]
    BY <1>3, <1>7 DEF PruneVersion
  <2>2. /\ d.version = [c.version EXCEPT ![j] = 0]
        /\ d.versionOrder = RemoveFirst(c.versionOrder, j)
        /\ SameStore(c, d)
    BY <2>1, <1>1 DEF CacheRecord, SameStore
  <2>3. Versioned(d) = Versioned(c) \ {j}
    BY <2>2, <1>1 DEF Versioned, CacheRecord
  <2>4. PICK w : w = c.versionOrder
    OBVIOUS
  <2>5. PICK T : T = Versioned(c)
    OBVIOUS
  <2>6. w \in Seq(Key) /\ Enumerates(w, T)
    BY <2>4, <2>5, <1>1 DEF CacheRecord, Stored
  <2>7. /\ Enumerates(RemoveFirst(w, j), T \ {j})
        /\ Len(RemoveFirst(w, j)) <= Len(w)
    <3>1. CASE j \in T
      <4>1. /\ Enumerates(RemoveFirst(w, j), T \ {j})
            /\ Len(RemoveFirst(w, j)) = Len(w) - 1
        BY <3>1, <2>6, RemoveFirstEnumerates
      <4>2. QED
        BY <4>1, <1>2, <2>4
    <3>2. CASE j \notin T
      <4>1. T \ {j} = T
        BY <3>2
      <4>2. ~ \E i \in 1 .. Len(w) : w[i] = j
        BY <3>2, <2>6, InToSet DEF Enumerates
      <4>3. RemoveFirst(w, j) = w
        BY <4>2, <2>6, RemoveFirstCloses
      <4>4. Len(w) <= Len(w)
        BY <1>2, <2>4
      <4>5. QED
        BY <4>1, <4>3, <4>4, <2>6, Zenon
    <3>3. QED
      BY <3>1, <3>2
  <2>8. Enumerates(d.versionOrder, Versioned(d))
    BY <2>2, <2>3, <2>4, <2>5, <2>7
  <2>9. d \in Stored(x)
    BY <2>2, <2>8, <1>5, SameStoreStored
  <2>10. /\ \A i \in Key : Has(c, i) => d.version[i] = c.version[i]
         /\ d.version[j] = 0
    BY <2>2, <1>1, <1>7 DEF CacheRecord
  <2>11. QED
    BY <2>2, <2>3, <2>4, <2>7, <2>9, <2>10, <1>3, <1>4
<1>8. QED
  BY <1>6, <1>7

(* BumpVersion makes tidy what only lacks a version for k.                 *)
LEMMA BumpTidies ==
  ASSUME NEW x, NEW c \in Stored(x), NEW k \in Key, VersionedBut(c, k)
  PROVE  /\ BumpVersion(c, k) \in Tidy(x)
         /\ SameStore(c, BumpVersion(c, k))
<1>1. PICK d : d = Recorded(c, k)
  OBVIOUS
<1>2. /\ d \in Stored(x) /\ SameStore(c, d)
      /\ Versioned(d) = Versioned(c) \cup {k}
  BY <1>1, RecordedStored
<1>3. c \in GoodCache /\ d \in AfterBump(c, k)
  BY <1>1, RecordedIsBumped DEF Stored
<1>4. \A j \in Key : Has(d, j) => d.version[j] # 0
  <2>1. SUFFICES ASSUME NEW j \in Key, Has(d, j) PROVE j \in Versioned(d)
    BY DEF Versioned
  <2>2. CASE j = k
    BY <2>2, <1>2
  <2>3. CASE j # k
    BY <2>1, <2>3, <1>2 DEF VersionedBut, SameStore, Has, Versioned
  <2>4. QED
    BY <2>2, <2>3
<1>5. CASE ~ (Len(d.versionOrder) > VersionLimit)
  <2>1. BumpVersion(c, k) = d
    BY <1>1, <1>5 DEF BumpVersion
  <2>2. d \in CacheRecord
    BY <1>2 DEF Stored, GoodCache
  <2>3. Len(d.versionOrder) \in Nat /\ VersionLimit \in Nat
    BY <2>2, CacheAssumption, SMTT(30) DEF CacheRecord, VersionLimit
  <2>4. QED
    BY <2>1, <2>3, <1>2, <1>4, <1>5 DEF Tidy
<1>6. CASE Len(d.versionOrder) > VersionLimit
  <2>1. PICK seq : seq = d.versionOrder
    OBVIOUS
  <2>2. seq \in Seq(Key) /\ ToSet(seq) = Versioned(d)
    BY <2>1, <1>2 DEF Stored, GoodCache, CacheRecord, Enumerates
  <2>3. PICK n \in Nat : n = Len(seq) /\ DOMAIN seq = 1 .. n
    BY <2>2
  <2>4. PICK zero : zero = 0
    OBVIOUS
  <2>5. PICK r : /\ r[0] = d
                 /\ \A i \in 1 .. n : r[i] = PruneOp(zero, r[i - 1], seq[i])
                 /\ r[n] = Pruning!Folded(zero, d, seq)
    BY <2>3, Pruning!FoldLeftRun
  <2>6. BumpVersion(c, k) = r[n]
    BY <2>1, <2>4, <2>5, <1>1, <1>6, PruningFold DEF BumpVersion
  <2> DEFINE After(m) ==
               /\ r[m] \in Stored(x) /\ r[m] \in AfterBump(c, k)
               /\ SameStore(c, r[m])
               /\ Versioned(r[m]) \subseteq Versioned(d)
               /\ \A j \in Key : Has(d, j) => r[m].version[j] # 0
               /\ \/ Len(r[m].versionOrder) <= VersionTarget
                  \/ \A i \in 1 .. m :
                       Has(d, seq[i]) \/ r[m].version[seq[i]] = 0
  <2>7. PICK M : M = {m \in Nat : m <= n => After(m)}
    OBVIOUS
  <2>8. 0 \in M
    <3>1. After(0)
      BY <2>5, <1>2, <1>3, <1>4
    <3>2. QED
      BY <2>7, <3>1
  <2>9. ASSUME NEW m \in Nat, m \in M PROVE m + 1 \in M
    <3>1. SUFFICES ASSUME m + 1 <= n PROVE After(m + 1)
      BY <2>7
    <3>2. After(m)
      BY <2>3, <2>7, <2>9, <3>1
    <3>3. m + 1 \in 1 .. n /\ (m + 1) - 1 = m
      BY <2>3, <3>1
    <3>4. PICK j \in Key : j = seq[m + 1]
      BY <2>2, <2>3, <3>3
    <3>5. r[m + 1] = PruneVersion(r[m], j)
      BY <2>5, <3>3, <3>4 DEF PruneOp
    <3>6. /\ r[m + 1] \in Stored(x) /\ r[m + 1] \in AfterBump(c, k)
          /\ SameStore(r[m], r[m + 1])
          /\ Versioned(r[m + 1]) \subseteq Versioned(r[m])
          /\ \A i \in Key : Has(r[m], i) =>
               r[m + 1].version[i] = r[m].version[i]
          /\ \/ Has(r[m], j)
             \/ r[m + 1].version[j] = 0
             \/ Len(r[m + 1].versionOrder) <= VersionTarget
          /\ Len(r[m + 1].versionOrder) <= Len(r[m].versionOrder)
      BY <1>3, <3>2, <3>5, PruneStored
    <3>7. SameStore(c, r[m + 1]) /\ Versioned(r[m + 1]) \subseteq Versioned(d)
      BY <3>2, <3>6 DEF SameStore
    <3>8. \A i \in Key : Has(r[m], i) <=> Has(d, i)
      BY <3>2, <1>2 DEF SameStore, Has
    <3>9. /\ Len(r[m].versionOrder) \in Nat
          /\ Len(r[m + 1].versionOrder) \in Nat
          /\ VersionTarget \in Nat
      <4>1. r[m] \in CacheRecord /\ r[m + 1] \in CacheRecord
        BY <3>2, <3>6 DEF Stored, GoodCache
      <4>2. /\ r[m].versionOrder \in Seq(Key)
            /\ r[m + 1].versionOrder \in Seq(Key)
        BY <4>1 DEF CacheRecord
      <4>3. VersionTarget \in Nat
        BY CacheAssumption DEF VersionTarget
      <4>4. ASSUME NEW s \in Seq(Key) PROVE Len(s) \in Nat
        OBVIOUS
      <4>5. QED
        BY <4>2, <4>3, <4>4
    <3>10. \/ Len(r[m + 1].versionOrder) <= VersionTarget
           \/ \A i \in 1 .. m + 1 :
                Has(d, seq[i]) \/ r[m + 1].version[seq[i]] = 0
      <4>1. SUFFICES ASSUME ~ (Len(r[m + 1].versionOrder) <= VersionTarget),
                            NEW i \in 1 .. m + 1, ~ Has(d, seq[i])
                     PROVE  r[m + 1].version[seq[i]] = 0
        OBVIOUS
      <4>2. CASE i = m + 1
        BY <4>1, <4>2, <3>4, <3>6, <3>8
      <4>3. CASE i # m + 1
        <5>1. i \in 1 .. m /\ seq[i] \in Key
          BY <4>3, <2>2, <2>3, <3>1
        <5>2. ~ (Len(r[m].versionOrder) <= VersionTarget)
          BY <4>1, <3>6, <3>9
        <5>3. r[m].version[seq[i]] = 0
          BY <5>1, <5>2, <4>1, <3>2
        <5>4. seq[i] \notin Versioned(r[m + 1])
          BY <5>1, <5>3, <3>6 DEF Versioned
        <5>5. QED
          BY <5>1, <5>4 DEF Versioned
      <4>4. QED
        BY <4>2, <4>3
    <3>11. \A i \in Key : Has(d, i) => r[m + 1].version[i] # 0
      BY <3>2, <3>6, <3>8
    <3>12. QED
      BY <3>6, <3>7, <3>10, <3>11
  <2>10. After(n)
    <3>1. n \in M
      BY <2>3, <2>8, <2>9, SetInduction
    <3>2. QED
      BY <2>3, <2>7, <3>1
  <2>11. /\ r[n] \in Stored(x) /\ SameStore(c, r[n])
         /\ \A j \in Key : Has(r[n], j) => r[n].version[j] # 0
    BY <2>10, <1>2 DEF SameStore, Has
  <2>12. \/ Len(r[n].versionOrder) <= VersionLimit
         \/ \A j \in Key : r[n].version[j] # 0 => Has(r[n], j)
    <3>1. CASE Len(r[n].versionOrder) <= VersionTarget
      <4>1. Len(r[n].versionOrder) \in Nat
        BY <2>11, SMTT(30) DEF Stored, GoodCache, CacheRecord
      <4>2. QED
        BY <3>1, <4>1, CacheAssumption, SMTT(30) DEF VersionTarget, VersionLimit
    <3>2. CASE \A i \in 1 .. n : Has(d, seq[i]) \/ r[n].version[seq[i]] = 0
      <4>1. SUFFICES ASSUME NEW j \in Key, r[n].version[j] # 0
                     PROVE  Has(r[n], j)
        OBVIOUS
      <4>2. j \in ToSet(seq)
        BY <4>1, <2>2, <2>10 DEF Versioned
      <4>3. PICK i \in 1 .. n : seq[i] = j
        BY <4>2, <2>2, <2>3, InToSet
      <4>4. Has(d, j)
        BY <4>1, <4>3, <3>2
      <4>5. QED
        BY <4>4, <2>10, <1>2 DEF SameStore, Has
    <3>3. QED
      BY <3>1, <3>2, <2>10
  <2>13. QED
    BY <2>6, <2>11, <2>12 DEF Tidy
<1>7. QED
  BY <1>5, <1>6

-----------------------------------------------------------------------------
(* Removal and eviction on what is stored.                                 *)

(* d differs from c in the clock, the counters and the histories only.     *)
SameHeld(c, d) ==
  /\ d.entry = c.entry
  /\ d.order = c.order
  /\ d.bytes = c.bytes
  /\ d.version = c.version
  /\ d.versionOrder = c.versionOrder

LEMMA SameHeldStored ==
  ASSUME NEW x, NEW c \in Stored(x), NEW d \in GoodCache, SameHeld(c, d)
  PROVE  d \in Stored(x)
<1>1. /\ d.entry = c.entry /\ d.order = c.order /\ d.bytes = c.bytes
      /\ d.version = c.version /\ d.versionOrder = c.versionOrder
  BY DEF SameHeld
<1>2. Versioned(d) = Versioned(c) /\ Enumerates(c.versionOrder, Versioned(c))
  BY <1>1 DEF Versioned, Stored
<1>3. Present(d) = Present(c)
  BY <1>1 DEF Present, Has
<1>4. StoredSize(d) = StoredSize(c)
  <2>1. c \in CacheRecord /\ Enumerates(c.order, Present(c))
    BY DEF Stored, GoodCache
  <2>2. Sizes!Summed(d, Present(c)) = Sizes!Summed(c, Present(c))
    BY <2>1, <1>1, StoredSizeSplits, SameSizesSameSum
  <2>3. QED
    BY <2>2, <1>3, StoredSizeIsSum
<1>5. QED
  BY <1>1, <1>2, <1>3, <1>4 DEF Stored

LEMMA SameHeldTidy ==
  ASSUME NEW x, NEW c \in Tidy(x), NEW d \in GoodCache, SameHeld(c, d)
  PROVE  d \in Tidy(x) /\ (c \in Fit(x) => d \in Fit(x))
<1>1. d \in Stored(x)
  BY SameHeldStored DEF Tidy
<1>2. d \in Tidy(x)
  BY <1>1 DEF SameHeld, Tidy, Has
<1>3. OverCapacity(d) <=> OverCapacity(c)
  BY DEF SameHeld, OverCapacity
<1>4. QED
  BY <1>2, <1>3 DEF SameHeld, Fit

LEMMA TidyType ==
  ASSUME NEW x, NEW c \in Tidy(x)
  PROVE  /\ c \in Stored(x) /\ c \in GoodCache /\ c \in CacheRecord
         /\ c.order \in Seq(Key) /\ Len(c.order) \in Nat
         /\ c.bytes \in Int
         /\ \A k \in Key : VersionedBut(c, k)
<1>1. c \in Stored(x) /\ c \in GoodCache /\ c \in CacheRecord
  BY DEF Tidy, Stored, GoodCache
<1>2. c.order \in Seq(Key) /\ c.bytes \in Int
  BY <1>1 DEF CacheRecord
<1>3. QED
  BY <1>1, <1>2 DEF Tidy, VersionedBut

(* The effect of Without, and of the removals that follow it by a bump.    *)
Removes(c, k, d) ==
  /\ d.now = c.now
  /\ d.entry = [c.entry EXCEPT ![k] = None]
  /\ Has(c, k) => /\ Len(d.order) = Len(c.order) - 1
                  /\ d.bytes = c.bytes - c.entry[k].size
  /\ ~ Has(c, k) => d.order = c.order /\ d.bytes = c.bytes

LEMMA WithoutStored ==
  ASSUME NEW x, NEW c \in Tidy(x), NEW k \in Key
  PROVE  LET d == Without(c, k)
         IN  /\ d \in Stored(x)
             /\ SameVersions(c, d)
             /\ Removes(c, k, d)
             /\ ~ Has(d, k)
             /\ \A j \in Key : VersionedBut(d, j)
<1>1. PICK d : d = Without(c, k)
  OBVIOUS
<1>2. c \in Stored(x) /\ c \in CacheRecord
  BY TidyType
<1>3. CASE Has(c, k)
  <2>1. d = Unlinked(c, k)
    BY <1>1, <1>3 DEF Without
  <2>2. d \in Stored(x) /\ SameVersions(c, d) /\ LosesKey(c, k, d)
    BY <2>1, <1>2, <1>3, UnlinkedStored
  <2>3. Removes(c, k, d) /\ ~ Has(d, k)
    BY <2>2, <1>2, <1>3 DEF LosesKey, Removes, SameVersions, Has, CacheRecord
  <2>4. \A j \in Key : VersionedBut(d, j)
    BY <2>2, <1>2 DEF Tidy, VersionedBut, LosesKey, SameVersions, Has,
       CacheRecord
  <2>5. QED
    BY <2>2, <2>3, <2>4, <1>1
<1>4. CASE ~ Has(c, k)
  <2>1. d = c
    BY <1>1, <1>4 DEF Without
  <2>2. c.entry = [c.entry EXCEPT ![k] = None]
    BY <1>2, <1>4 DEF Has, CacheRecord
  <2>3. Removes(c, k, c) /\ SameVersions(c, c)
    BY <2>2, <1>4 DEF Removes, SameVersions
  <2>4. QED
    BY <2>1, <2>3, <1>1, <1>2, <1>4, TidyType
<1>5. QED
  BY <1>3, <1>4

LEMMA DropTidies ==
  ASSUME NEW x, NEW c \in Tidy(x), NEW k \in Key
  PROVE  Drop(c, k) \in Tidy(x) /\ Removes(c, k, Drop(c, k))
<1>1. PICK w : w = Without(c, k)
  OBVIOUS
<1>2. w \in Stored(x) /\ Removes(c, k, w) /\ VersionedBut(w, k)
  BY <1>1, WithoutStored
<1>3. BumpVersion(w, k) \in Tidy(x) /\ SameStore(w, BumpVersion(w, k))
  BY <1>2, BumpTidies
<1>4. Removes(c, k, BumpVersion(w, k))
  BY <1>2, <1>3 DEF Removes, SameStore
<1>5. QED
  BY <1>1, <1>3, <1>4 DEF Drop

LEMMA RemoveExpiredTidies ==
  ASSUME NEW x, NEW c \in Tidy(x), NEW k \in Key
  PROVE  RemoveExpired(c, k) \in Tidy(x) /\ Removes(c, k, RemoveExpired(c, k))
<1>1. PICK d : d = Drop(c, k)
  OBVIOUS
<1>2. d \in Tidy(x) /\ Removes(c, k, d)
  BY <1>1, DropTidies
<1>3. PICK e : e = RemoveExpired(c, k)
  OBVIOUS
<1>4. e \in GoodCache
  BY <1>3, TidyType, RemoveExpiredAdvances DEF Advanced
<1>5. SameHeld(d, e) /\ e.now = d.now
  BY <1>1, <1>2, <1>3, TidyType DEF RemoveExpired, SameHeld, CacheRecord
<1>6. e \in Tidy(x)
  BY <1>2, <1>4, <1>5, SameHeldTidy
<1>7. Removes(c, k, e)
  BY <1>2, <1>5 DEF Removes, SameHeld
<1>8. QED
  BY <1>3, <1>6, <1>7

(* d holds a part of what c holds.                                         *)
Reduced(x, c) ==
  {d \in Tidy(x) :
     /\ d.now = c.now
     /\ d.bytes <= c.bytes
     /\ Len(d.order) <= Len(c.order)
     /\ \A j \in Key : d.entry[j] = c.entry[j] \/ d.entry[j] = None}

LEMMA RemovesReduces ==
  ASSUME NEW x, NEW c \in Tidy(x), NEW k \in Key, NEW d \in Tidy(x),
         Removes(c, k, d)
  PROVE  d \in Reduced(x, c)
<1>1. /\ c \in CacheRecord /\ c.bytes \in Int /\ Len(c.order) \in Nat
      /\ d.bytes \in Int /\ Len(d.order) \in Nat
  BY TidyType
<1>2. Has(c, k) => c.entry[k].size \in Nat
  BY <1>1, SizeType DEF Present
<1>3. d.bytes <= c.bytes /\ Len(d.order) <= Len(c.order)
  BY <1>1, <1>2 DEF Removes
<1>4. \A j \in Key : d.entry[j] = c.entry[j] \/ d.entry[j] = None
  BY <1>1 DEF Removes, CacheRecord
<1>5. QED
  BY <1>3, <1>4 DEF Reduced, Removes

LEMMA ReducedReflexive ==
  ASSUME NEW x, NEW c \in Tidy(x)
  PROVE  c \in Reduced(x, c)
BY TidyType DEF Reduced

LEMMA ReducedTransitive ==
  ASSUME NEW x, NEW c \in Tidy(x), NEW d \in Reduced(x, c),
         NEW e \in Reduced(x, d)
  PROVE  e \in Reduced(x, c)
<1>1. d \in Tidy(x) /\ e \in Tidy(x)
  BY DEF Reduced
<1>2. /\ c.bytes \in Int /\ d.bytes \in Int /\ e.bytes \in Int
      /\ Len(c.order) \in Nat /\ Len(d.order) \in Nat /\ Len(e.order) \in Nat
  BY <1>1, TidyType
<1>3. e.bytes <= c.bytes /\ Len(e.order) <= Len(c.order)
  BY <1>2 DEF Reduced
<1>4. \A j \in Key : e.entry[j] = c.entry[j] \/ e.entry[j] = None
  BY DEF Reduced
<1>5. QED
  BY <1>1, <1>3, <1>4 DEF Reduced

(* A part of what fits fits.                                               *)
LEMMA ReducedFits ==
  ASSUME NEW x, NEW c \in Fit(x), NEW d \in Reduced(x, c)
  PROVE  d \in Fit(x)
<1>1. c \in Tidy(x) /\ d \in Tidy(x)
  BY DEF Fit, Reduced
<1>2. /\ c.bytes \in Int /\ d.bytes \in Int
      /\ Len(c.order) \in Nat /\ Len(d.order) \in Nat
  BY <1>1, TidyType
<1>3. d.bytes <= c.bytes /\ Len(d.order) <= Len(c.order)
  BY DEF Reduced
<1>4. OverCapacity(d) => OverCapacity(c)
  BY <1>2, <1>3, CacheAssumption DEF OverCapacity
<1>5. OverCapacity(d) => Len(d.order) = 0
  BY <1>2, <1>3, <1>4 DEF Fit
<1>6. QED
  BY <1>1, <1>5 DEF Fit

LEMMA ReapReduces ==
  ASSUME NEW x, NEW c \in Tidy(x), NEW k \in Key
  PROVE  Reap(c, k) \in Reduced(x, c)
BY ReducedReflexive, RemoveExpiredTidies, RemovesReduces DEF Reap

LEMMA DropReduces ==
  ASSUME NEW x, NEW c \in Tidy(x), NEW k \in Key
  PROVE  Drop(c, k) \in Reduced(x, c)
BY DropTidies, RemovesReduces

-----------------------------------------------------------------------------
(* An eviction loop has removed the first m keys of c.order; if m is not   *)
(* zero the cache was over its limits before the last of them went.        *)
EvictedTo(x, c, m, d) ==
  /\ d \in Tidy(x)
  /\ d.now = c.now
  /\ d.bytes <= c.bytes
  /\ Len(d.order) = Len(c.order) - m
  /\ \A i \in 1 .. Len(c.order) :
       d.entry[c.order[i]] = IF i <= m THEN None ELSE c.entry[c.order[i]]
  /\ \A k \in Key : ~ Has(c, k) => ~ Has(d, k)
  /\ m > 0 => \/ Len(d.order) >= MaxEntries
              \/ d.bytes + c.entry[c.order[m]].size > MaxBytes

Evicted(x, c, d) ==
  \E m \in 0 .. Len(c.order) :
    /\ EvictedTo(x, c, m, d)
    /\ m < Len(c.order) => ~ OverCapacity(d)

LEMMA EvictionRun ==
  ASSUME NEW x, NEW c \in Tidy(x), NEW n \in Nat, n = Len(c.order),
         NEW r, r[0] = c,
         \A i \in 1 .. n :
           IF OverCapacity(r[i - 1])
           THEN \/ r[i] = Drop(r[i - 1], c.order[i])
                \/ r[i] = RemoveExpired(r[i - 1], c.order[i])
           ELSE r[i] = r[i - 1]
  PROVE  Evicted(x, c, r[n])
<1>1. PICK seq : seq = c.order
  OBVIOUS
<1>2. seq \in Seq(Key) /\ n = Len(seq) /\ c.bytes \in Int /\ c \in CacheRecord
  BY <1>1, TidyType
<1>3. /\ \A i \in 1 .. n : seq[i] \in Key
      /\ \A i, j \in 1 .. n : seq[i] = seq[j] => i = j
      /\ \A i \in 1 .. n : Has(c, seq[i])
  <2>1. Enumerates(seq, Present(c))
    BY <1>1 DEF Tidy, Stored
  <2>2. \A i \in 1 .. n : seq[i] \in ToSet(seq)
    BY <1>2, InToSet
  <2>3. QED
    BY <2>1, <2>2, <1>2, InjectiveElements DEF Enumerates, Present
<1> DEFINE After(i) ==
             \E m \in 0 .. i : /\ EvictedTo(x, c, m, r[i])
                               /\ m < i => ~ OverCapacity(r[i])
<1>4. PICK M : M = {i \in Nat : i <= n => After(i)}
  OBVIOUS
<1>5. 0 \in M
  <2>1. EvictedTo(x, c, 0, c)
    BY <1>1, <1>2 DEF EvictedTo
  <2>2. After(0)
    BY <2>1
  <2>3. QED
    BY <1>4, <2>2
<1>6. ASSUME NEW i \in Nat, i \in M PROVE i + 1 \in M
  <2>1. SUFFICES ASSUME i + 1 <= n PROVE After(i + 1)
    BY <1>4
  <2>2. PICK m \in 0 .. i : /\ EvictedTo(x, c, m, r[i])
                            /\ m < i => ~ OverCapacity(r[i])
    BY <1>4, <1>6, <2>1
  <2>3. i + 1 \in 1 .. n /\ (i + 1) - 1 = i
    BY <2>1
  <2>4. CASE ~ OverCapacity(r[i])
    <3>1. r[i + 1] = r[i]
      BY <2>3, <2>4
    <3>2. m \in 0 .. (i + 1) /\ m < i + 1
      OBVIOUS
    <3>3. QED
      BY <2>2, <2>4, <3>1, <3>2
  <2>5. CASE OverCapacity(r[i])
    <3>1. m = i
      BY <2>2, <2>5
    <3>2. PICK k \in Key : k = seq[i + 1]
      BY <1>3, <2>3
    <3>3. PICK a : a = r[i]
      OBVIOUS
    <3>4. PICK d : d = r[i + 1]
      OBVIOUS
    <3>5. d = Drop(a, k) \/ d = RemoveExpired(a, k)
      BY <2>3, <2>5, <3>2, <3>3, <3>4, <1>1
    <3>6. a \in Tidy(x)
      BY <2>2, <3>3 DEF EvictedTo
    <3>7. d \in Tidy(x) /\ Removes(a, k, d)
      BY <3>5, <3>6, DropTidies, RemoveExpiredTidies
    <3>8. a.entry[k] = c.entry[k] /\ Has(a, k)
      <4>1. ~ (i + 1 <= m)
        BY <3>1
      <4>2. a.entry[seq[i + 1]] = c.entry[seq[i + 1]]
        BY <4>1, <2>2, <2>3, <3>3, <1>1, <1>2 DEF EvictedTo
      <4>3. QED
        BY <4>2, <2>3, <3>2, <1>3 DEF Has
    <3>9. /\ d.entry = [a.entry EXCEPT ![k] = None]
          /\ Len(d.order) = Len(a.order) - 1
          /\ d.bytes = a.bytes - c.entry[k].size
          /\ d.now = a.now
      BY <3>7, <3>8 DEF Removes
    <3>10. /\ c.entry[k].size \in Nat
           /\ a.bytes \in Int /\ d.bytes \in Int
           /\ Len(a.order) \in Nat /\ Len(d.order) \in Nat
           /\ a \in CacheRecord
      BY <3>6, <3>7, <3>8, <1>2, TidyType, SizeType DEF Present, Has
    <3>11. /\ a.bytes <= c.bytes /\ Len(a.order) = n - i /\ a.now = c.now
      BY <2>2, <3>1, <3>3 DEF EvictedTo
    <3>12. Len(d.order) = n - (i + 1) /\ d.bytes <= c.bytes /\ d.now = c.now
      BY <3>9, <3>10, <3>11, <1>2, SMTT(30)
    <3>13. ASSUME NEW j \in 1 .. n
           PROVE  d.entry[seq[j]] = IF j <= i + 1 THEN None
                                    ELSE c.entry[seq[j]]
      <4>1. seq[j] \in Key /\ (seq[j] = k <=> j = i + 1)
        BY <1>3, <2>3, <3>2
      <4>2. a.entry[seq[j]] = IF j <= i THEN None ELSE c.entry[seq[j]]
        BY <2>2, <3>1, <3>3, <1>1, <1>2 DEF EvictedTo
      <4>3. a.entry \in [Key -> EntryRecord \cup {None}]
        BY <3>10 DEF CacheRecord
      <4>4. CASE j = i + 1
        BY <4>1, <4>3, <4>4, <3>9
      <4>5. CASE j # i + 1
        <5>1. d.entry[seq[j]] = a.entry[seq[j]]
          <6>1. PICK q \in Key : q = seq[j] /\ q # k
            BY <4>1, <4>5
          <6>2. d.entry[q] = a.entry[q]
            BY <6>1, <4>3, <3>9
          <6>3. QED
            BY <6>1, <6>2
        <5>2. CASE j <= i
          <6>1. j <= i + 1
            BY <5>2
          <6>2. QED
            BY <6>1, <5>1, <5>2, <4>2
        <5>3. CASE ~ (j <= i)
          <6>1. ~ (j <= i + 1)
            BY <5>3, <4>5
          <6>2. QED
            BY <6>1, <5>1, <5>3, <4>2
        <5>4. QED
          BY <5>2, <5>3
      <4>6. QED
        BY <4>4, <4>5
    <3>14. ASSUME NEW j \in Key, ~ Has(c, j) PROVE ~ Has(d, j)
      <4>1. ~ Has(a, j)
        BY <2>2, <3>3, <3>14 DEF EvictedTo
      <4>2. QED
        BY <4>1, <3>9, <3>10 DEF Has, CacheRecord
    <3>15. \/ Len(d.order) >= MaxEntries
           \/ d.bytes + c.entry[seq[i + 1]].size > MaxBytes
      <4>1. Len(a.order) > MaxEntries \/ a.bytes > MaxBytes
        BY <2>5, <3>3 DEF OverCapacity
      <4>2. MaxEntries \in Nat /\ MaxBytes \in Nat
        BY CacheAssumption
      <4>3. QED
        BY <4>1, <4>2, <3>2, <3>9, <3>10, SMTT(30)
    <3>16. EvictedTo(x, c, i + 1, d)
      BY <3>7, <3>12, <3>13, <3>14, <3>15, <1>1, <1>2 DEF EvictedTo
    <3>17. QED
      BY <3>4, <3>16
  <2>6. QED
    BY <2>4, <2>5
<1>7. After(n)
  <2>1. n \in M
    BY <1>5, <1>6, SetInduction
  <2>2. QED
    BY <1>4, <2>1
<1>8. QED
  BY <1>7 DEF Evicted

LEMMA EvictedFits ==
  ASSUME NEW x, NEW c \in Tidy(x), NEW d, Evicted(x, c, d)
  PROVE  d \in Fit(x)
<1>1. PICK m \in 0 .. Len(c.order) : /\ EvictedTo(x, c, m, d)
                                     /\ m < Len(c.order) => ~ OverCapacity(d)
  BY DEF Evicted
<1>2. Len(c.order) \in Nat
  BY TidyType
<1>3. OverCapacity(d) => Len(d.order) = 0
  BY <1>1, <1>2 DEF EvictedTo
<1>4. QED
  BY <1>1, <1>3 DEF EvictedTo, Fit

LEMMA EvictIfNeededEvicts ==
  ASSUME NEW x, NEW c \in Tidy(x)
  PROVE  Evicted(x, c, EvictIfNeeded(c))
<1>1. PICK seq : seq = c.order
  OBVIOUS
<1>2. PICK n \in Nat : n = Len(seq)
  BY <1>1, TidyType
<1>3. DOMAIN seq = 1 .. n
  BY <1>1, <1>2, TidyType
<1>4. PICK zero : zero = 0
  OBVIOUS
<1>5. PICK r : /\ r[0] = c
               /\ \A i \in 1 .. n : r[i] = EvictOp(zero, r[i - 1], seq[i])
               /\ r[n] = Evicting!Folded(zero, c, seq)
  BY <1>2, <1>3, Evicting!FoldLeftRun
<1>6. FoldLeft(Evict, c, seq) = Evicting!Folded(0, c, seq)
  BY Zenon DEF EvictOp, Evicting!Folded, FoldLeft,
     Evicting!MapThenFoldSet, MapThenFoldSet, Evicting!Top, Max
<1>7. EvictIfNeeded(c) = r[n]
  BY <1>1, <1>4, <1>5, <1>6 DEF EvictIfNeeded
<1>8. \A i \in 1 .. n :
        IF OverCapacity(r[i - 1])
        THEN \/ r[i] = Drop(r[i - 1], c.order[i])
             \/ r[i] = RemoveExpired(r[i - 1], c.order[i])
        ELSE r[i] = r[i - 1]
  BY <1>1, <1>5 DEF EvictOp, Evict
<1>9. Evicted(x, c, r[n])
  BY <1>1, <1>2, <1>5, <1>8, EvictionRun
<1>10. QED
  BY <1>7, <1>9

LEMMA EvictingAnyEvicts ==
  ASSUME NEW x, NEW c \in Tidy(x)
  PROVE  Evicted(x, c, FoldLeft(EvictAny, c, c.order))
<1>1. PICK seq : seq = c.order
  OBVIOUS
<1>2. PICK n \in Nat : n = Len(seq)
  BY <1>1, TidyType
<1>3. DOMAIN seq = 1 .. n
  BY <1>1, <1>2, TidyType
<1>4. PICK zero : zero = 0
  OBVIOUS
<1>5. PICK r : /\ r[0] = c
               /\ \A i \in 1 .. n : r[i] = EvictAnyOp(zero, r[i - 1], seq[i])
               /\ r[n] = EvictingAny!Folded(zero, c, seq)
  BY <1>2, <1>3, EvictingAny!FoldLeftRun
<1>6. FoldLeft(EvictAny, c, seq) = EvictingAny!Folded(0, c, seq)
  BY Zenon DEF EvictAnyOp, EvictingAny!Folded, FoldLeft,
     EvictingAny!MapThenFoldSet, MapThenFoldSet, EvictingAny!Top, Max
<1>7. FoldLeft(EvictAny, c, c.order) = r[n]
  BY <1>1, <1>4, <1>5, <1>6
<1>8. \A i \in 1 .. n :
        IF OverCapacity(r[i - 1])
        THEN \/ r[i] = Drop(r[i - 1], c.order[i])
             \/ r[i] = RemoveExpired(r[i - 1], c.order[i])
        ELSE r[i] = r[i - 1]
  BY <1>1, <1>5 DEF EvictAnyOp, EvictAny
<1>9. Evicted(x, c, r[n])
  BY <1>1, <1>2, <1>5, <1>8, EvictionRun
<1>10. QED
  BY <1>7, <1>9

-----------------------------------------------------------------------------
(* The operations lead from caches that fit to caches that fit.            *)

LEMMA FitType ==
  ASSUME NEW x, NEW c \in Fit(x)
  PROVE  /\ c \in Tidy(x) /\ c \in Stored(x)
         /\ c \in GoodCache /\ c \in CacheRecord
         /\ c.order \in Seq(Key) /\ Len(c.order) \in Nat
BY TidyType DEF Fit

LEMMA LaterFits ==
  ASSUME NEW x, NEW c \in Tidy(x), NEW n \in Nat
  PROVE  Later(c, n) \in Tidy(x) /\ (c \in Fit(x) => Later(c, n) \in Fit(x))
<1>1. PICK d : d = Later(c, n)
  OBVIOUS
<1>2. c \in GoodCache /\ c \in CacheRecord
  BY TidyType
<1>3. d \in GoodCache
  BY <1>1, <1>2, LaterAdvances DEF Advanced
<1>4. SameHeld(c, d)
  BY <1>1, <1>2 DEF Later, SameHeld, CacheRecord
<1>5. QED
  BY <1>1, <1>3, <1>4, SameHeldTidy

LEMMA BumpFits ==
  ASSUME NEW x, NEW c \in Fit(x), NEW k \in Key
  PROVE  BumpVersion(c, k) \in Fit(x) /\ SameStore(c, BumpVersion(c, k))
<1>1. PICK d : d = BumpVersion(c, k)
  OBVIOUS
<1>2. c \in Tidy(x) /\ c \in Stored(x) /\ VersionedBut(c, k)
  BY TidyType DEF Fit
<1>3. d \in Tidy(x) /\ SameStore(c, d)
  BY <1>1, <1>2, BumpTidies
<1>4. OverCapacity(d) => Len(d.order) = 0
  BY <1>3 DEF SameStore, OverCapacity, Fit
<1>5. QED
  BY <1>1, <1>3, <1>4 DEF Fit

LEMMA PutThenBumpTidies ==
  ASSUME NEW x, NEW c \in Stored(x), NEW k \in Key, VersionedBut(c, k),
         NEW e \in EntryRecord, x = 0 => ~ Has(c, k)
  PROVE  LET d == BumpVersion(Put(c, k, e), k)
         IN  d \in Tidy(x) /\ SameStore(Put(c, k, e), d)
<1>1. PICK p : p = Put(c, k, e)
  OBVIOUS
<1>2. /\ p \in Stored(x) /\ SameVersions(c, p)
      /\ p.entry = [c.entry EXCEPT ![k] = e]
  BY <1>1, PutStored
<1>3. c \in CacheRecord
  BY DEF Stored, GoodCache
<1>4. VersionedBut(p, k)
  BY <1>2, <1>3 DEF VersionedBut, Has, SameVersions, CacheRecord
<1>5. QED
  BY <1>1, <1>2, <1>4, BumpTidies

LEMMA StoreLeavesFit ==
  ASSUME NEW x, NEW c \in Stored(x), NEW k \in Key, VersionedBut(c, k),
         NEW e \in EntryRecord, x = 0 => ~ Has(c, k)
  PROVE  Store(c, k, e) \in Fit(x)
<1>1. PICK d : d = BumpVersion(Put(c, k, e), k)
  OBVIOUS
<1>2. d \in Tidy(x)
  BY <1>1, PutThenBumpTidies
<1>3. EvictIfNeeded(d) \in Fit(x)
  BY <1>2, EvictIfNeededEvicts, EvictedFits
<1>4. QED
  BY <1>1, <1>3 DEF Store

LEMMA RelinkFits ==
  ASSUME NEW x, NEW c \in Fit(x), NEW k \in Key, Has(c, k),
         NEW e \in EntryRecord, e.size = c.entry[k].size
  PROVE  Relink(c, k, e) \in Fit(x)
<1>1. PICK u : u = Unlinked(c, k)
  OBVIOUS
<1>2. PICK d : d = Put(u, k, e)
  OBVIOUS
<1>3. c \in Tidy(x) /\ c \in Stored(x) /\ c \in CacheRecord
      /\ Len(c.order) \in Nat
  BY FitType
<1>4. u \in Stored(x) /\ SameVersions(c, u) /\ LosesKey(c, k, u)
  BY <1>1, <1>3, UnlinkedStored
<1>5. u \in CacheRecord /\ d.order \in Seq(Key) /\ u.order \in Seq(Key)
      /\ Len(u.order) = Len(c.order) - 1
  BY <1>2, <1>4, PutEdits DEF Stored, GoodCache, CacheRecord, LosesKey, Edits
<1>6. ~ Has(u, k)
  BY <1>3, <1>4 DEF LosesKey, Has, CacheRecord
<1>7. /\ d \in Stored(x) /\ SameVersions(u, d)
      /\ d.entry = [u.entry EXCEPT ![k] = e]
      /\ d.bytes = u.bytes + e.size
      /\ d.order = Append(u.order, k)
  BY <1>2, <1>4, <1>6, PutStored
<1>8. c.entry[k].size \in Nat /\ c.bytes \in Int
  BY <1>3, SizeType DEF Present, CacheRecord
<1>9. d.bytes = c.bytes /\ Len(d.order) = Len(c.order)
  BY <1>3, <1>4, <1>5, <1>7, <1>8 DEF LosesKey
<1>10. \A j \in Key : Has(d, j) <=> Has(c, j)
  <2>1. e # None
    BY EntryAssumption
  <2>2. QED
    BY <2>1, <1>3, <1>4, <1>5, <1>7 DEF LosesKey, Has, CacheRecord
<1>11. d.version = c.version /\ d.versionOrder = c.versionOrder
  BY <1>4, <1>7 DEF SameVersions
<1>12. d \in Tidy(x)
  BY <1>3, <1>7, <1>10, <1>11 DEF Tidy
<1>13. OverCapacity(d) => Len(d.order) = 0
  BY <1>9 DEF OverCapacity, Fit
<1>14. QED
  BY <1>1, <1>2, <1>12, <1>13 DEF Fit, Relink

LEMMA SetOwnedFits ==
  ASSUME NEW x, NEW c \in Fit(x), NEW k \in Key, NEW v \in Value,
         NEW at \in Deadline
  PROVE  SetOwned(c, k, v, at) \in Fit(x)
<1>1. c \in Tidy(x)
  BY FitType
<1>2. PICK w : w = Without(c, k)
  OBVIOUS
<1>3. w \in Stored(x) /\ ~ Has(w, k) /\ VersionedBut(w, k)
  BY <1>1, <1>2, WithoutStored
<1>4. Store(w, k, EntryOf(k, v, at)) \in Fit(x)
  BY <1>3, EntryOfType, StoreLeavesFit
<1>5. Drop(c, k) \in Fit(x)
  BY <1>1, DropReduces, ReducedFits
<1>6. QED
  BY <1>2, <1>4, <1>5 DEF SetOwned

LEMMA ReapFits ==
  ASSUME NEW x, NEW c \in Fit(x), NEW k \in Key
  PROVE  Reap(c, k) \in Fit(x)
BY FitType, ReapReduces, ReducedFits

LEMMA DropFits ==
  ASSUME NEW x, NEW c \in Fit(x), NEW k \in Key
  PROVE  Drop(c, k) \in Fit(x) /\ RemoveExpired(c, k) \in Fit(x)
BY FitType, DropReduces, RemoveExpiredTidies, RemovesReduces, ReducedFits

Fits(x) == [ok : BOOLEAN, cache : Fit(x)]

LEMMA EndFits ==
  ASSUME NEW x, NEW d \in Fit(x)
  PROVE  Done(d) \in Fits(x) /\ Thrown(d) \in Fits(x)
BY DEF Done, Thrown, Fits

LEMMA RelinkThenBumpFits ==
  ASSUME NEW x, NEW c \in Fit(x), NEW k \in Key, Has(c, k),
         NEW e \in EntryRecord, e.size = c.entry[k].size
  PROVE  BumpVersion(Relink(c, k, e), k) \in Fit(x)
BY RelinkFits, BumpFits

LEMMA GetFits ==
  ASSUME NEW x, NEW c \in Fit(x), NEW k \in Key
  PROVE  Get(c, k) \in Fits(x)
<1>1. PICK r : r = Reap(c, k)
  OBVIOUS
<1>2. r \in Fit(x)
  BY <1>1, ReapFits
<1>3. ASSUME Has(r, k) PROVE Relink(r, k, r.entry[k]) \in Fit(x)
  <2>1. r.entry[k] \in EntryRecord
    BY <1>2, <1>3, FitType, SizeType DEF Present
  <2>2. QED
    BY <1>2, <1>3, <2>1, RelinkFits
<1>4. QED
  BY <1>1, <1>2, <1>3, EndFits DEF Get

LEMMA SetFits ==
  ASSUME NEW x, NEW c \in Fit(x), NEW k \in Key, NEW v \in Value,
         NEW ttl \in Nat \cup {None}, NEW d \in Nat
  PROVE  Set(c, k, v, ttl, d) \in Fits(x)
<1>1. PICK at : at = ResolveTTL(c, k, ttl)
  OBVIOUS
<1>2. at \in Deadline
  BY <1>1, ResolveTTLType, FitType
<1>3. Later(c, d) \in Fit(x)
  BY FitType, LaterFits
<1>4. SetOwned(Later(c, d), k, v, at) \in Fit(x)
  BY <1>2, <1>3, SetOwnedFits
<1>5. QED
  BY <1>1, <1>4, EndFits DEF Set

LEMMA DelFits ==
  ASSUME NEW x, NEW c \in Fit(x), NEW k \in Key
  PROVE  Del(c, k) \in Fits(x)
BY ReapFits, DropFits, EndFits DEF Del

LEMMA TTLFits ==
  ASSUME NEW x, NEW c \in Fit(x), NEW k \in Key
  PROVE  TTL(c, k) \in Fits(x)
BY ReapFits, EndFits DEF TTL

LEMMA RedatedEntry ==
  ASSUME NEW e \in EntryRecord, NEW at \in Deadline
  PROVE  /\ [e EXCEPT !.expiresAt = at] \in EntryRecord
         /\ [e EXCEPT !.expiresAt = at].size = e.size
BY DEF EntryRecord

LEMMA PersistFits ==
  ASSUME NEW x, NEW c \in Fit(x), NEW k \in Key
  PROVE  Persist(c, k) \in Fits(x)
<1>1. PICK r : r = Reap(c, k)
  OBVIOUS
<1>2. r \in Fit(x)
  BY <1>1, ReapFits
<1>3. PICK e : e = [r.entry[k] EXCEPT !.expiresAt = None]
  OBVIOUS
<1>4. ASSUME Has(r, k) PROVE BumpVersion(Relink(r, k, e), k) \in Fit(x)
  <2>1. r.entry[k] \in EntryRecord
    BY <1>2, <1>4, FitType, SizeType DEF Present
  <2>2. e \in EntryRecord /\ e.size = r.entry[k].size
    BY <1>3, <2>1, RedatedEntry DEF Deadline
  <2>3. QED
    BY <1>2, <1>4, <2>2, RelinkThenBumpFits
<1>5. QED
  BY <1>1, <1>2, <1>3, <1>4, EndFits DEF Persist

LEMMA ExpireAtFits ==
  ASSUME NEW x, NEW c \in Fit(x), NEW k \in Key, NEW at \in Nat, NEW d \in Nat
  PROVE  ExpireAt(c, k, at, d) \in Fits(x)
<1>1. PICK r : r = Reap(c, k)
  OBVIOUS
<1>2. PICK l : l = Later(r, d)
  OBVIOUS
<1>3. r \in Fit(x) /\ l \in Fit(x)
  BY <1>1, <1>2, ReapFits, FitType, LaterFits
<1>4. PICK e : e = [l.entry[k] EXCEPT !.expiresAt = at]
  OBVIOUS
<1>5. ASSUME Has(r, k) PROVE BumpVersion(Relink(l, k, e), k) \in Fit(x)
  <2>1. Has(l, k)
    BY <1>2, <1>3, <1>5, FitType DEF Later, Has, CacheRecord
  <2>2. l.entry[k] \in EntryRecord
    BY <1>3, <2>1, FitType, SizeType DEF Present
  <2>3. e \in EntryRecord /\ e.size = l.entry[k].size
    BY <1>4, <2>2, RedatedEntry DEF Deadline
  <2>4. QED
    BY <1>3, <2>1, <2>3, RelinkThenBumpFits
<1>6. RemoveExpired(l, k) \in Fit(x)
  BY <1>3, DropFits
<1>7. QED
  BY <1>1, <1>2, <1>3, <1>4, <1>5, <1>6, EndFits DEF ExpireAt

LEMMA ExpireFits ==
  ASSUME NEW x, NEW c \in Fit(x), NEW k \in Key, NEW ttl \in Nat, NEW d \in Nat
  PROVE  Expire(c, k, ttl, d) \in Fits(x)
<1>1. PICK r : r = Reap(c, k)
  OBVIOUS
<1>2. PICK l : l = Later(r, d)
  OBVIOUS
<1>3. r \in Fit(x) /\ l \in Fit(x)
  BY <1>1, <1>2, ReapFits, FitType, LaterFits
<1>4. PICK e : e = [l.entry[k] EXCEPT !.expiresAt = l.now + ttl]
  OBVIOUS
<1>5. ASSUME Has(r, k) PROVE BumpVersion(Relink(l, k, e), k) \in Fit(x)
  <2>1. Has(l, k)
    BY <1>2, <1>3, <1>5, FitType DEF Later, Has, CacheRecord
  <2>2. l.entry[k] \in EntryRecord
    BY <1>3, <2>1, FitType, SizeType DEF Present
  <2>3. l.now + ttl \in Deadline
    <3>1. l.now \in Nat
      BY <1>3, FitType DEF CacheRecord
    <3>2. QED
      BY <3>1 DEF Deadline
  <2>4. e \in EntryRecord /\ e.size = l.entry[k].size
    BY <1>4, <2>2, <2>3, RedatedEntry
  <2>5. QED
    BY <1>3, <2>1, <2>4, RelinkThenBumpFits
<1>6. QED
  BY <1>1, <1>2, <1>3, <1>4, <1>5, EndFits DEF Expire

(* The one operation whose byte total depends on the time it takes.        *)
LEMMA IncrFits ==
  ASSUME NEW x \in Nat, NEW c \in Fit(x), NEW k \in Key, NEW by \in Int,
         NEW d \in 0 .. x
  PROVE  Incr(c, k, by, d) \in Fits(x)
<1>1. PICK r : r = Reap(c, k)
  OBVIOUS
<1>2. PICK l : l = Later(r, d)
  OBVIOUS
<1>3. r \in Fit(x) /\ l \in Fit(x)
  BY <1>1, <1>2, ReapFits, FitType, LaterFits
<1>4. PICK base : base = IF r.entry[k] = None THEN 0 ELSE r.entry[k].value
  OBVIOUS
<1>5. PICK at : at = IF r.entry[k] = None THEN None ELSE r.entry[k].expiresAt
  OBVIOUS
<1>6. PICK u : u = IF Live(l, k) THEN Unlinked(l, k) ELSE l
  OBVIOUS
<1>7. u \in Stored(x) /\ VersionedBut(u, k)
  <2>1. l \in Tidy(x) /\ l \in Stored(x) /\ VersionedBut(l, k)
    BY <1>3, FitType, TidyType
  <2>2. Has(l, k) => /\ Unlinked(l, k) \in Stored(x)
                     /\ VersionedBut(Unlinked(l, k), k)
    <3>1. Has(l, k) => Without(l, k) = Unlinked(l, k)
      BY DEF Without
    <3>2. Without(l, k) \in Stored(x) /\ VersionedBut(Without(l, k), k)
      BY <2>1, WithoutStored
    <3>3. QED
      BY <3>1, <3>2
  <2>3. QED
    BY <1>6, <2>1, <2>2 DEF Live
<1>8. x = 0 => ~ Has(u, k)
  <2>1. SUFFICES ASSUME x = 0, Has(u, k) PROVE FALSE
    OBVIOUS
  <2>2. r \in CacheRecord /\ l \in CacheRecord
    BY <1>3, FitType
  <2>3. l.now = r.now /\ l.entry = r.entry
    BY <2>1, <2>2, <1>2 DEF Later, CacheRecord
  <2>4. CASE Live(l, k)
    <3>1. u = Unlinked(l, k)
      BY <1>6, <2>4
    <3>2. u.entry[k] = None
      BY <3>1, <2>2 DEF Unlinked, CacheRecord
    <3>3. QED
      BY <2>1, <3>2 DEF Has
  <2>5. CASE ~ Live(l, k)
    <3>1. Has(r, k) /\ IsExpired(r.entry[k], r.now)
      BY <2>1, <2>3, <2>5, <1>6 DEF Live, Has
    <3>2. CASE Has(c, k) /\ IsExpired(c.entry[k], c.now)
      <4>1. r = RemoveExpired(c, k)
        BY <1>1, <3>2 DEF Reap
      <4>2. Removes(c, k, r)
        BY <4>1, FitType, RemoveExpiredTidies
      <4>3. c \in CacheRecord
        BY FitType
      <4>4. QED
        BY <3>1, <4>2, <4>3 DEF Removes, Has, CacheRecord
    <3>3. CASE ~ (Has(c, k) /\ IsExpired(c.entry[k], c.now))
      BY <1>1, <3>1, <3>3 DEF Reap
    <3>4. QED
      BY <3>2, <3>3
  <2>6. QED
    BY <2>4, <2>5
<1>9. at \in Deadline
  <2>1. r \in CacheRecord
    BY <1>3, FitType
  <2>2. QED
    BY <1>5, <2>1 DEF CacheRecord, EntryRecord, Deadline
<1>10. ASSUME base + by \in Number
       PROVE  Store(u, k, EntryOf(k, base + by, at)) \in Fit(x)
  <2>1. base + by \in Value
    BY <1>10, CacheAssumption
  <2>2. EntryOf(k, base + by, at) \in EntryRecord
    BY <1>9, <2>1, EntryOfType
  <2>3. QED
    BY <1>7, <1>8, <2>2, StoreLeavesFit
<1>11. Thrown(c) \in Fits(x) /\ Thrown(r) \in Fits(x)
  BY <1>3, EndFits
<1>12. Incr(c, k, by, d) =
         IF ~ KeyFits(k) THEN Thrown(c)
         ELSE IF base \notin Number THEN Thrown(r)
         ELSE IF base + by \notin Number \/ ~ ValueFits(k, base + by)
              THEN Thrown(r)
         ELSE Done(Store(u, k, EntryOf(k, base + by, at)))
  BY <1>1, <1>2, <1>4, <1>5, <1>6, Zenon DEF Incr
<1>13. QED
  BY <1>10, <1>11, <1>12, EndFits

LEMMA CasFits ==
  ASSUME NEW x, NEW c \in Fit(x), NEW k \in Key, NEW expected, NEW v \in Value,
         NEW ttl \in Nat \cup {None}, NEW d \in Nat
  PROVE  Cas(c, k, expected, v, ttl, d) \in Fits(x)
<1>1. PICK r : r = Reap(c, k)
  OBVIOUS
<1>2. r \in Fit(x) /\ c \in CacheRecord /\ r \in CacheRecord /\ r \in Tidy(x)
  BY <1>1, ReapFits, FitType
<1>3. PICK at : at = IF ttl # None THEN c.now + ttl
                     ELSE IF r.entry[k] # None THEN r.entry[k].expiresAt
                     ELSE ResolveTTL(c, k, None)
  OBVIOUS
<1>4. at \in Deadline
  <2>1. ResolveTTL(c, k, None) \in Deadline /\ c.now \in Nat
    BY <1>2, ResolveTTLType DEF CacheRecord
  <2>2. QED
    BY <1>2, <1>3, <2>1, SMTT(30) DEF CacheRecord, EntryRecord, Deadline
<1>5. PICK w : w = Without(r, k)
  OBVIOUS
<1>6. w \in Stored(x) /\ ~ Has(w, k) /\ VersionedBut(w, k) /\ w \in CacheRecord
  BY <1>2, <1>5, WithoutStored DEF Stored, GoodCache
<1>7. PICK l : l = Later(w, d)
  OBVIOUS
<1>8. l \in Stored(x) /\ ~ Has(l, k) /\ VersionedBut(l, k)
  <2>1. l \in GoodCache
    BY <1>6, <1>7, LaterAdvances DEF Advanced, Stored
  <2>2. SameHeld(w, l)
    BY <1>6, <1>7 DEF Later, SameHeld, CacheRecord
  <2>3. l \in Stored(x)
    BY <1>6, <2>1, <2>2, SameHeldStored
  <2>4. QED
    BY <1>6, <2>2, <2>3 DEF SameHeld, Has, VersionedBut
<1>9. Store(l, k, EntryOf(k, v, at)) \in Fit(x)
  BY <1>4, <1>8, EntryOfType, StoreLeavesFit
<1>10. PICK cur : cur = IF r.entry[k] = None THEN None ELSE r.entry[k].value
  OBVIOUS
<1>11. Cas(c, k, expected, v, ttl, d) =
         IF ~ ValueFits(k, v) THEN Thrown(c)
         ELSE IF cur # expected THEN Done(r)
         ELSE IF at # None /\ at <= c.now
              THEN Done(IF Has(r, k) THEN Drop(r, k) ELSE r)
         ELSE Done(Store(l, k, EntryOf(k, v, at)))
  BY <1>1, <1>3, <1>5, <1>7, <1>10, Zenon DEF Cas
<1>12. QED
  BY <1>2, <1>9, <1>11, DropFits, EndFits

-----------------------------------------------------------------------------
(* The loops, from caches that fit to caches that fit.                     *)

LEMMA SettingFits ==
  ASSUME NEW x, NEW c \in Fit(x), NEW seq \in Seq(SetRecordArgument)
  PROVE  FoldLeft(SetRecord, c, seq) \in Fit(x)
<1>1. FoldLeft(SetRecord, c, seq) = Setting!Folded(0, c, seq)
  BY Zenon DEF SetRecordOp, Setting!Folded, FoldLeft,
     Setting!MapThenFoldSet, MapThenFoldSet, Setting!Top, Max
<1>2. PICK A : A = Fit(x)
  OBVIOUS
<1>3. PICK B : B = SetRecordArgument
  OBVIOUS
<1>4. \A a \in A, b \in B : SetRecordOp(0, a, b) \in A
  BY <1>2, <1>3, SetOwnedFits DEF SetRecordOp, SetRecord, SetRecordArgument
<1>5. Setting!Folded(0, c, seq) \in A
  BY <1>2, <1>3, <1>4, Setting!FoldLeftInvariant
<1>6. QED
  BY <1>1, <1>2, <1>5

LEMMA BatchRecords ==
  ASSUME NEW c \in CacheRecord, NEW batch \in Seq(BatchEntry)
  PROVE  [i \in DOMAIN batch |->
            [key |-> batch[i].key, value |-> batch[i].value,
             expiresAt |-> ResolveTTL(c, batch[i].key, batch[i].ttl)]]
           \in Seq(SetRecordArgument)
<1>1. PICK seq : seq = [i \in DOMAIN batch |->
                          [key |-> batch[i].key, value |-> batch[i].value,
                           expiresAt |->
                             ResolveTTL(c, batch[i].key, batch[i].ttl)]]
  OBVIOUS
<1>2. ASSUME NEW i \in DOMAIN batch
      PROVE  [key |-> batch[i].key, value |-> batch[i].value,
              expiresAt |-> ResolveTTL(c, batch[i].key, batch[i].ttl)]
               \in SetRecordArgument
  <2>1. batch[i] \in BatchEntry
    OBVIOUS
  <2>2. /\ batch[i].key \in Key
        /\ batch[i].value \in Value
        /\ batch[i].ttl \in Nat \cup {None}
    BY <2>1 DEF BatchEntry
  <2>3. ResolveTTL(c, batch[i].key, batch[i].ttl) \in Deadline
    BY <2>2, ResolveTTLType
  <2>4. QED
    BY <2>2, <2>3 DEF SetRecordArgument
<1>3. DOMAIN batch = 1 .. Len(batch) /\ Len(batch) \in Nat
  OBVIOUS
<1>4. seq \in Seq(SetRecordArgument)
  BY <1>1, <1>2, <1>3
<1>5. QED
  BY <1>1, <1>4

LEMMA MSetFits ==
  ASSUME NEW x, NEW c \in Fit(x), NEW d \in Nat, NEW batch \in Seq(BatchEntry)
  PROVE  MSet(c, batch, d) \in Fits(x)
<1>1. PICK l : l = Later(c, d)
  OBVIOUS
<1>2. l \in Fit(x)
  BY <1>1, FitType, LaterFits
<1>3. PICK seq : seq = [i \in DOMAIN batch |->
                          [key |-> batch[i].key, value |-> batch[i].value,
                           expiresAt |->
                             ResolveTTL(c, batch[i].key, batch[i].ttl)]]
  OBVIOUS
<1>4. seq \in Seq(SetRecordArgument)
  BY <1>3, FitType, BatchRecords
<1>5. FoldLeft(SetRecord, l, seq) \in Fit(x)
  BY <1>2, <1>4, SettingFits
<1>6. MSet(c, batch, d) = Thrown(c)
        \/ MSet(c, batch, d) = Done(FoldLeft(SetRecord, l, seq))
  BY <1>1, <1>3, Zenon DEF MSet
<1>7. QED
  BY <1>5, <1>6, EndFits

LEMMA RestoreOneTidies ==
  ASSUME NEW x, NEW c \in Tidy(x), NEW e \in SetRecordArgument
  PROVE  RestoreOne(c, e) \in Tidy(x)
<1>1. e.key \in Key /\ e.value \in Value /\ e.expiresAt \in Deadline
  BY DEF SetRecordArgument
<1>2. PICK w : w = Without(c, e.key)
  OBVIOUS
<1>3. w \in Stored(x) /\ ~ Has(w, e.key) /\ VersionedBut(w, e.key)
  BY <1>1, <1>2, WithoutStored
<1>4. EntryOf(e.key, e.value, e.expiresAt) \in EntryRecord
  BY <1>1, EntryOfType
<1>5. BumpVersion(Put(w, e.key, EntryOf(e.key, e.value, e.expiresAt)), e.key)
        \in Tidy(x)
  BY <1>1, <1>3, <1>4, PutThenBumpTidies
<1>6. QED
  BY <1>2, <1>5 DEF RestoreOne

LEMMA RestoringTidies ==
  ASSUME NEW x, NEW c \in Tidy(x), NEW seq \in Seq(SetRecordArgument)
  PROVE  FoldLeft(RestoreOne, c, seq) \in Tidy(x)
<1>1. FoldLeft(RestoreOne, c, seq) = Restoring!Folded(0, c, seq)
  BY Zenon DEF RestoreOneOp, Restoring!Folded, FoldLeft,
     Restoring!MapThenFoldSet, MapThenFoldSet, Restoring!Top, Max
<1>2. PICK A : A = Tidy(x)
  OBVIOUS
<1>3. PICK B : B = SetRecordArgument
  OBVIOUS
<1>4. \A a \in A, b \in B : RestoreOneOp(0, a, b) \in A
  BY <1>2, <1>3, RestoreOneTidies DEF RestoreOneOp
<1>5. Restoring!Folded(0, c, seq) \in A
  BY <1>2, <1>3, <1>4, Restoring!FoldLeftInvariant
<1>6. QED
  BY <1>1, <1>2, <1>5

LEMMA RestoreFits ==
  ASSUME NEW x, NEW c \in Fit(x), NEW image \in Seq(SetRecordArgument)
  PROVE  Restore(c, image) \in Fits(x)
<1>1. PICK r : r = FoldLeft(RestoreOne, c, image)
  OBVIOUS
<1>2. r \in Tidy(x)
  BY <1>1, FitType, RestoringTidies
<1>3. FoldLeft(EvictAny, r, r.order) \in Fit(x)
  BY <1>2, EvictingAnyEvicts, EvictedFits
<1>4. Restore(c, image) = Thrown(c)
        \/ Restore(c, image) = Done(FoldLeft(EvictAny, r, r.order))
  BY <1>1, Zenon DEF Restore
<1>5. QED
  BY <1>3, <1>4, EndFits

LEMMA SweepFits ==
  ASSUME NEW x, NEW c \in Fit(x)
  PROVE  Sweep(c) \in Fits(x)
<1>1. PICK seq : seq = c.order
  OBVIOUS
<1>2. seq \in Seq(Key)
  BY <1>1, FitType
<1>3. FoldLeft(Reap, c, seq) = Reaping!Folded(0, c, seq)
  BY Zenon DEF ReapOp, Reaping!Folded, FoldLeft,
     Reaping!MapThenFoldSet, MapThenFoldSet, Reaping!Top, Max
<1>4. PICK A : A = Fit(x)
  OBVIOUS
<1>5. \A a \in A, b \in Key : ReapOp(0, a, b) \in A
  BY <1>4, ReapFits DEF ReapOp
<1>6. Reaping!Folded(0, c, seq) \in A
  BY <1>2, <1>4, <1>5, Reaping!FoldLeftInvariant
<1>7. Sweep(c) = Done(FoldLeft(Reap, c, seq))
  BY <1>1, Zenon DEF Sweep
<1>8. QED
  BY <1>3, <1>4, <1>6, <1>7, EndFits

LEMMA ClearPrefixFits ==
  ASSUME NEW x, NEW c \in Fit(x), NEW ns
  PROVE  ClearPrefix(c, ns) \in Fits(x)
<1>1. ClearPrefix(c, ns) = Done(DropEach!Folded(ns, c, c.order))
  BY Zenon DEF ClearPrefix, DropEach!Folded, FoldLeft,
     DropEach!MapThenFoldSet, MapThenFoldSet, DropEach!Top, Max
<1>2. PICK A : A = Fit(x)
  OBVIOUS
<1>3. \A a \in A, k \in Key : DropUnder(ns, a, k) \in A
  BY <1>2, DropFits DEF DropUnder
<1>4. c.order \in Seq(Key)
  BY FitType
<1>5. DropEach!Folded(ns, c, c.order) \in A
  BY <1>2, <1>3, <1>4, DropEach!FoldLeftInvariant
<1>6. QED
  BY <1>1, <1>2, <1>5, EndFits

(* A cache that fits has no version record beyond the limit: it has one    *)
(* for each present key, and these are at most MaxEntries.                 *)
LEMMA FitBoundsVersions ==
  ASSUME NEW x, NEW c \in Fit(x)
  PROVE  Len(c.versionOrder) <= VersionLimit /\ Len(c.order) <= MaxEntries
<1>1. c \in Tidy(x) /\ c \in Stored(x) /\ c \in CacheRecord
  BY FitType
<1>2. /\ c.order \in Seq(Key) /\ c.versionOrder \in Seq(Key)
      /\ Len(c.order) \in Nat /\ Len(c.versionOrder) \in Nat
  BY <1>1 DEF CacheRecord
<1>3. MaxEntries \in Nat /\ VersionSlack \in Nat
  BY CacheAssumption
<1>4. Len(c.order) <= MaxEntries
  BY <1>2, <1>3 DEF Fit, OverCapacity
<1>5. CASE \A k \in Key : c.version[k] # 0 => Has(c, k)
  <2>1. PICK v : v = c.versionOrder
    OBVIOUS
  <2>2. PICK o : o = c.order
    OBVIOUS
  <2>3. IsInjective(v) /\ ToSet(v) \subseteq ToSet(o)
    BY <2>1, <2>2, <1>1, <1>5 DEF Stored, Enumerates, Versioned, Present
  <2>4. Len(v) <= Len(o)
    BY <2>1, <2>2, <2>3, <1>2, ShorterEnumerates
  <2>5. QED
    BY <2>1, <2>2, <2>4, <1>2, <1>3, <1>4 DEF VersionLimit
<1>6. QED
  BY <1>1, <1>4, <1>5 DEF Tidy

LEMMA ClearFits ==
  ASSUME NEW x, NEW c \in Fit(x)
  PROVE  Clear(c) \in Fits(x)
<1>1. PICK seq : seq = c.order
  OBVIOUS
<1>2. seq \in Seq(Key)
  BY <1>1, FitType
<1>3. FoldLeft(BumpVersion, c, seq) = Bumping!Folded(0, c, seq)
  BY Zenon DEF BumpOp, Bumping!Folded, FoldLeft,
     Bumping!MapThenFoldSet, MapThenFoldSet, Bumping!Top, Max
<1>4. PICK A : A = Fit(x)
  OBVIOUS
<1>5. \A a \in A, b \in Key : BumpOp(0, a, b) \in A
  BY <1>4, BumpFits DEF BumpOp
<1>6. Bumping!Folded(0, c, seq) \in A
  BY <1>2, <1>4, <1>5, Bumping!FoldLeftInvariant
<1>7. PICK d : d = FoldLeft(BumpVersion, c, c.order)
  OBVIOUS
<1>8. d \in Fit(x) /\ d \in CacheRecord /\ d \in Stored(x)
  BY <1>1, <1>3, <1>4, <1>6, <1>7, FitType
<1>9. PICK e : e = [d EXCEPT !.order = <<>>, !.entry = NoEntry, !.bytes = 0]
  OBVIOUS
<1>10. Clear(c) = Done(e)
  BY <1>7, <1>9, Zenon DEF Clear
<1>11. e \in GoodCache
  <2>1. Clear(c).cache \in GoodCache
    BY FitType, ClearAdvances DEF Outcomes, Advanced
  <2>2. QED
    BY <2>1, <1>10 DEF Done
<1>12. PICK empty : empty = <<>>
  OBVIOUS
<1>13. /\ e.order = empty /\ e.entry = NoEntry /\ e.bytes = 0
       /\ e.version = d.version /\ e.versionOrder = d.versionOrder
  BY <1>8, <1>9, <1>12 DEF CacheRecord
<1>14. \A k \in Key : ~ Has(e, k)
  BY <1>13 DEF Has, NoEntry
<1>15. Present(e) = {}
  BY <1>14 DEF Present
<1>16. StoredSize(e) = 0
  BY <1>15, NothingStored
<1>17. Enumerates(e.order, Present(e)) /\ Len(e.order) = 0
  <2>1. empty \in Seq(Key) /\ Len(empty) = 0
    BY <1>12
  <2>2. ToSet(empty) = {}
    BY <2>1, EnumeratedIsFinite
  <2>3. \A i, j \in 1 .. Len(empty) : empty[i] = empty[j] => i = j
    BY <2>1
  <2>4. IsInjective(empty)
    BY <2>1, <2>3, InjectiveElements
  <2>5. QED
    BY <2>1, <2>2, <2>4, <1>13, <1>15 DEF Enumerates
<1>18. Enumerates(e.versionOrder, Versioned(e))
  BY <1>8, <1>13 DEF Stored, Versioned
<1>19. e \in Stored(x)
  BY <1>11, <1>13, <1>16, <1>17, <1>18 DEF Stored
<1>20. Len(e.versionOrder) <= VersionLimit
  BY <1>8, <1>13, FitBoundsVersions
<1>21. e \in Fit(x)
  BY <1>14, <1>17, <1>19, <1>20 DEF Tidy, Fit
<1>22. QED
  BY <1>10, <1>21, EndFits

LEMMA AtomicFits ==
  ASSUME NEW x, NEW c \in Fit(x), NEW r \in Fits(x), r \in Outcomes(c)
  PROVE  Atomic(c, r) \in Fits(x)
<1>1. r.cache \in Fit(x) /\ r.cache \in Advanced(c)
  BY DEF Fits, Outcomes
<1>2. PICK e : e = RolledBack(c, r.cache)
  OBVIOUS
<1>3. e \in GoodCache
  BY <1>1, <1>2, FitType, RolledBackAdvances DEF Advanced
<1>4. SameHeld(c, e)
  BY <1>2, FitType DEF RolledBack, SameHeld, CacheRecord
<1>5. e \in Fit(x)
  BY <1>3, <1>4, FitType, SameHeldTidy
<1>6. QED
  BY <1>2, <1>5, EndFits DEF Atomic

LEMMA ReplaceFits ==
  ASSUME NEW x, NEW c \in Fit(x), NEW image \in Seq(SetRecordArgument)
  PROVE  Replace(c, image) \in Fits(x)
<1>1. PICK d : d = Clear(c).cache
  OBVIOUS
<1>2. d \in Fit(x) /\ d \in Advanced(c) /\ d \in GoodCache
  BY <1>1, FitType, ClearFits, ClearAdvances DEF Fits, Outcomes, Advanced
<1>3. PICK r : r = Restore(d, image)
  OBVIOUS
<1>4. r \in Fits(x) /\ r \in Outcomes(c)
  BY <1>2, <1>3, FitType, RestoreFits, RestoreAdvances, OutcomeTransitive
<1>5. Atomic(c, r) \in Fits(x)
  BY <1>4, AtomicFits
<1>6. QED
  BY <1>1, <1>3, <1>5 DEF Replace


-----------------------------------------------------------------------------
(* What one write does when the running total is exact: it puts the key at *)
(* the end of the list, takes the first m keys from the front, never the   *)
(* key itself, and stops as soon as the limits allow.                      *)
Wrote(c, k, e, seq, m, d) ==
  /\ d \in Fit(0)
  /\ seq = Append(RemoveFirst(c.order, k), k)
  /\ Enumerates(seq, Present(c) \cup {k})
  /\ m < Len(seq)
  /\ \A i \in 1 .. Len(seq) :
       d.entry[seq[i]] = IF i <= m THEN None
                         ELSE IF seq[i] = k THEN e ELSE c.entry[seq[i]]
  /\ m > 0 => \/ Len(d.order) = MaxEntries
              \/ d.bytes + c.entry[seq[m]].size > MaxBytes

LEMMA WithoutOrder ==
  ASSUME NEW x, NEW c \in Tidy(x), NEW k \in Key
  PROVE  Without(c, k).order = RemoveFirst(c.order, k)
<1>1. c \in Stored(x) /\ c \in CacheRecord /\ c.order \in Seq(Key)
  BY TidyType
<1>2. CASE Has(c, k)
  <2>1. LosesKey(c, k, Unlinked(c, k))
    BY <1>1, <1>2, UnlinkedStored
  <2>2. Unlinked(c, k).order = RemoveFirst(c.order, k)
    BY <2>1 DEF LosesKey
  <2>3. QED
    BY <1>2, <2>2 DEF Without
<1>3. CASE ~ Has(c, k)
  <2>1. k \notin ToSet(c.order)
    BY <1>1, <1>3 DEF Stored, Enumerates, Present
  <2>2. ~ \E i \in 1 .. Len(c.order) : c.order[i] = k
    BY <1>1, <2>1, InToSet
  <2>3. RemoveFirst(c.order, k) = c.order
    BY <1>1, <2>2, RemoveFirstCloses
  <2>4. QED
    BY <1>3, <2>3 DEF Without
<1>4. QED
  BY <1>2, <1>3

LEMMA StoreWrites ==
  ASSUME NEW c \in Fit(0), NEW k \in Key, NEW e \in EntryRecord,
         e.size <= MaxBytes
  PROVE  \E seq \in Seq(Key), m \in Nat :
           Wrote(c, k, e, seq, m, Store(Without(c, k), k, e))
<1>1. PICK w : w = Without(c, k)
  OBVIOUS
<1>2. PICK a : a = Put(w, k, e)
  OBVIOUS
<1>3. PICK p : p = BumpVersion(a, k)
  OBVIOUS
<1>4. PICK d : d = EvictIfNeeded(p)
  OBVIOUS
<1>5. d = Store(Without(c, k), k, e)
  BY <1>1, <1>2, <1>3, <1>4 DEF Store
<1>6. c \in Tidy(0) /\ c \in CacheRecord /\ c.order \in Seq(Key)
  BY FitType
<1>7. /\ w \in Stored(0) /\ Removes(c, k, w) /\ ~ Has(w, k)
      /\ VersionedBut(w, k)
      /\ w.order = RemoveFirst(c.order, k)
  BY <1>1, <1>6, WithoutStored, WithoutOrder
<1>8. w \in CacheRecord
  BY <1>7 DEF Stored, GoodCache
<1>9. /\ a.entry = [w.entry EXCEPT ![k] = e]
      /\ a.order = Append(w.order, k)
  BY <1>2, <1>7, PutStored
<1>10. p \in Tidy(0) /\ SameStore(a, p)
  BY <1>2, <1>3, <1>7, PutThenBumpTidies
<1>11. PICK seq : seq = p.order
  OBVIOUS
<1>12. /\ seq = Append(RemoveFirst(c.order, k), k) /\ seq \in Seq(Key)
       /\ Len(seq) \in Nat
  BY <1>7, <1>9, <1>10, <1>11, TidyType DEF SameStore
<1>13. \A j \in Key : p.entry[j] = IF j = k THEN e ELSE c.entry[j]
  BY <1>6, <1>7, <1>8, <1>9, <1>10 DEF Removes, SameStore, CacheRecord
<1>14. e # None
  BY EntryAssumption
<1>15. Enumerates(seq, Present(c) \cup {k})
  <2>1. Enumerates(seq, Present(p))
    BY <1>10, <1>11, TidyType DEF Stored
  <2>2. Present(p) = Present(c) \cup {k}
    BY <1>13, <1>14 DEF Present, Has
  <2>3. QED
    BY <2>1, <2>2
<1>16. PICK m \in 0 .. Len(seq) :
         /\ EvictedTo(0, p, m, d)
         /\ m < Len(seq) => ~ OverCapacity(d)
  BY <1>4, <1>10, <1>11, EvictIfNeededEvicts DEF Evicted
<1>17. /\ d \in Fit(0) /\ d \in Tidy(0) /\ d \in Stored(0)
       /\ d.bytes \in Int /\ Len(d.order) \in Nat /\ d.order \in Seq(Key)
  <2>1. d \in Fit(0)
    BY <1>4, <1>10, EvictIfNeededEvicts, EvictedFits
  <2>2. QED
    BY <2>1, FitType, TidyType
<1>18. Len(seq) > 0 /\ seq[Len(seq)] = k
  <2>1. w.order \in Seq(Key)
    BY <1>8 DEF CacheRecord
  <2>2. seq = Append(w.order, k)
    BY <1>7, <1>12
  <2>3. QED
    BY <2>1, <2>2
<1>19. \A i \in 1 .. Len(seq) :
         d.entry[seq[i]] = IF i <= m THEN None ELSE p.entry[seq[i]]
  BY <1>11, <1>16 DEF EvictedTo
<1>20. m > 0 => \/ Len(d.order) >= MaxEntries
                \/ d.bytes + p.entry[seq[m]].size > MaxBytes
  BY <1>11, <1>16 DEF EvictedTo
<1>21. m < Len(seq)
  <2>1. SUFFICES ASSUME m = Len(seq) PROVE FALSE
    BY <1>12, <1>16
  <2>2. Len(d.order) = 0
    <3>1. Len(d.order) = Len(seq) - m
      BY <1>11, <1>16 DEF EvictedTo
    <3>2. QED
      BY <1>12, <2>1, <3>1
  <2>3. d.bytes = 0
    <3>1. Present(d) = {}
      BY <1>17, <2>2, EnumeratedIsFinite DEF Stored, Enumerates
    <3>2. StoredSize(d) = d.bytes
      BY <1>17 DEF Stored
    <3>3. QED
      BY <3>1, <3>2, NothingStored
  <2>4. p.entry[seq[m]] = e
    BY <1>13, <1>18, <2>1
  <2>5. e.size \in Nat
    BY DEF EntryRecord
  <2>6. QED
    BY <1>18, <1>20, <2>1, <2>2, <2>3, <2>4, <2>5, CacheAssumption
<1>22. \A i \in 1 .. Len(seq) :
         d.entry[seq[i]] = IF i <= m THEN None
                           ELSE IF seq[i] = k THEN e ELSE c.entry[seq[i]]
  BY <1>12, <1>13, <1>19
<1>23. ASSUME m > 0
       PROVE  \/ Len(d.order) = MaxEntries
              \/ d.bytes + c.entry[seq[m]].size > MaxBytes
  <2>1. ~ OverCapacity(d) /\ m \in 1 .. Len(seq)
    BY <1>12, <1>16, <1>21, <1>23
  <2>2. Len(d.order) <= MaxEntries
    BY <2>1, <1>17, CacheAssumption DEF OverCapacity
  <2>3. seq[m] # k
    <3>1. \A i, j \in 1 .. Len(seq) : seq[i] = seq[j] => i = j
      BY <1>12, <1>15, InjectiveElements DEF Enumerates
    <3>2. Len(seq) \in 1 .. Len(seq)
      BY <1>12, <1>18
    <3>3. QED
      BY <3>1, <3>2, <1>18, <1>21, <2>1
  <2>4. p.entry[seq[m]] = c.entry[seq[m]]
    BY <1>12, <1>13, <2>1, <2>3
  <2>5. QED
    BY <1>17, <1>20, <1>23, <2>2, <2>4, CacheAssumption
<1>24. m \in Nat
  BY <1>12, <1>16
<1>25. Wrote(c, k, e, seq, m, d)
  BY <1>12, <1>15, <1>17, <1>21, <1>22, <1>23 DEF Wrote
<1>26. QED
  BY <1>5, <1>12, <1>24, <1>25


(* The three ways set() ends when no time passes within it.                *)
LEMMA SetWrites ==
  ASSUME NEW c \in Fit(0), NEW k \in Key, NEW v \in Value,
         NEW ttl \in Nat \cup {None}
  PROVE  LET at == ResolveTTL(c, k, ttl)
             r  == Set(c, k, v, ttl, 0)
         IN  \/ ~ r.ok /\ r.cache = c
             \/ r.ok /\ at = c.now /\ r.cache \in {c, Drop(c, k)}
             \/ \E seq \in Seq(Key), m \in Nat :
                  r.ok /\ Wrote(c, k, EntryOf(k, v, at), seq, m, r.cache)
<1>1. PICK at : at = ResolveTTL(c, k, ttl)
  OBVIOUS
<1>2. PICK r : r = Set(c, k, v, ttl, 0)
  OBVIOUS
<1>3. c \in CacheRecord
  BY FitType
<1>4. at \in Deadline /\ c.now \in Nat /\ (at = None \/ at >= c.now)
  BY <1>1, <1>3, ResolveTTLType, CacheAssumption, SMTT(30)
     DEF ResolveTTL, CacheRecord, Deadline
<1>5. Later(c, 0) = c
  BY <1>3, <1>4 DEF Later, CacheRecord
<1>6. CASE ~ ValueFits(k, v)
  BY <1>1, <1>2, <1>6 DEF Set, Thrown
<1>7. CASE ValueFits(k, v)
  <2>1. r.ok /\ r.cache = SetOwned(c, k, v, at)
    BY <1>1, <1>2, <1>5, <1>7 DEF Set, Done
  <2>2. CASE at # None /\ at <= c.now
    <3>1. r.cache = IF Has(c, k) THEN Drop(c, k) ELSE c
      BY <2>1, <2>2 DEF SetOwned
    <3>2. at = c.now
      BY <1>4, <2>2, CacheAssumption DEF Deadline
    <3>3. r.ok /\ at = c.now /\ r.cache \in {c, Drop(c, k)}
      BY <2>1, <3>1, <3>2
    <3>4. QED
      BY <1>1, <1>2, <3>3
  <2>3. CASE ~ (at # None /\ at <= c.now)
    <3>1. PICK e \in EntryRecord : e = EntryOf(k, v, at)
      BY <1>4, EntryOfType
    <3>2. r.cache = Store(Without(c, k), k, e)
      BY <2>1, <2>3, <3>1 DEF SetOwned
    <3>3. e.size <= MaxBytes
      BY <1>7, <3>1 DEF EntryOf, ValueFits
    <3>4. \E seq \in Seq(Key), m \in Nat : Wrote(c, k, e, seq, m, r.cache)
      BY <3>2, <3>3, StoreWrites
    <3>5. QED
      BY <1>1, <1>2, <2>1, <3>1, <3>4
  <2>4. QED
    BY <2>2, <2>3
<1>8. QED
  BY <1>6, <1>7

-----------------------------------------------------------------------------
(* Filter.                                                                 *)

Keeping == INSTANCE FoldTheorems WITH Op <- KeepChosen

(* f consists of the chosen ones of the first n elements of seqn.          *)
Selects(seqn, n, chosen, f) ==
  \E h \in [1 .. Len(f) -> 1 .. n] :
    /\ \A i, j \in 1 .. Len(f) : i < j => h[i] < h[j]
    /\ \A i \in 1 .. Len(f) : f[i] = seqn[h[i]] /\ f[i] \in chosen
    /\ \A m \in 1 .. n :
         seqn[m] \in chosen => \E i \in 1 .. Len(f) : h[i] = m

LEMMA SelectsOneMore ==
  ASSUME NEW B, NEW seqn \in Seq(B), NEW chosen, NEW f \in Seq(B),
         NEW n \in Nat, n + 1 \in 1 .. Len(seqn), Selects(seqn, n, chosen, f)
  PROVE  LET g == KeepChosen(chosen, f, seqn[n + 1])
         IN  g \in Seq(B) /\ Selects(seqn, n + 1, chosen, g)
<1>1. PICK h \in [1 .. Len(f) -> 1 .. n] :
        /\ \A i, j \in 1 .. Len(f) : i < j => h[i] < h[j]
        /\ \A i \in 1 .. Len(f) : f[i] = seqn[h[i]] /\ f[i] \in chosen
        /\ \A m \in 1 .. n :
             seqn[m] \in chosen => \E i \in 1 .. Len(f) : h[i] = m
  BY DEF Selects
<1>2. seqn[n + 1] \in B
  OBVIOUS
<1>3. PICK l \in Nat : l = Len(f)
  OBVIOUS
<1>4. CASE seqn[n + 1] \in chosen
  <2>1. PICK g : g = Append(f, seqn[n + 1])
    OBVIOUS
  <2>2. /\ g \in Seq(B) /\ Len(g) = l + 1
        /\ g[l + 1] = seqn[n + 1]
        /\ \A i \in 1 .. l : g[i] = f[i]
    BY <1>2, <1>3, <2>1
  <2>3. PICK e : e = [i \in 1 .. (l + 1) |-> IF i = l + 1 THEN n + 1 ELSE h[i]]
    OBVIOUS
  <2>4. /\ e \in [1 .. Len(g) -> 1 .. (n + 1)]
        /\ e[l + 1] = n + 1
        /\ \A i \in 1 .. l : e[i] = h[i] /\ h[i] \in 1 .. n
    <3>1. \A i \in 1 .. l : h[i] \in 1 .. n
      BY <1>1, <1>3
    <3>2. \A i \in 1 .. (l + 1) :
            (IF i = l + 1 THEN n + 1 ELSE h[i]) \in 1 .. (n + 1)
      BY <3>1
    <3>3. e \in [1 .. (l + 1) -> 1 .. (n + 1)]
      BY <2>3, <3>2
    <3>4. e[l + 1] = n + 1
      BY <2>3
    <3>5. \A i \in 1 .. l : e[i] = h[i]
      BY <2>3
    <3>6. QED
      BY <2>2, <3>1, <3>3, <3>4, <3>5
  <2>5. \A i, j \in 1 .. Len(g) : i < j => e[i] < e[j]
    <3>1. SUFFICES ASSUME NEW i \in 1 .. Len(g), NEW j \in 1 .. Len(g), i < j
                   PROVE  e[i] < e[j]
      OBVIOUS
    <3>2. i \in 1 .. l
      BY <2>2, <3>1
    <3>3. CASE j = l + 1
      BY <3>2, <3>3, <2>4
    <3>4. CASE j \in 1 .. l
      BY <3>1, <3>2, <3>4, <2>4, <1>1, <1>3
    <3>5. QED
      BY <2>2, <3>3, <3>4
  <2>6. \A i \in 1 .. Len(g) : g[i] = seqn[e[i]] /\ g[i] \in chosen
    <3>1. SUFFICES ASSUME NEW i \in 1 .. Len(g)
                   PROVE  g[i] = seqn[e[i]] /\ g[i] \in chosen
      OBVIOUS
    <3>2. CASE i = l + 1
      BY <3>2, <2>2, <2>4, <1>4
    <3>3. CASE i \in 1 .. l
      BY <3>3, <2>2, <2>4, <1>1, <1>3
    <3>4. QED
      BY <2>2, <3>2, <3>3
  <2>7. ASSUME NEW m \in 1 .. (n + 1), seqn[m] \in chosen
        PROVE  \E i \in 1 .. Len(g) : e[i] = m
    <3>1. CASE m = n + 1
      BY <3>1, <2>2, <2>4
    <3>2. CASE m \in 1 .. n
      <4>1. PICK i \in 1 .. l : h[i] = m
        BY <2>7, <3>2, <1>1, <1>3
      <4>2. i \in 1 .. Len(g) /\ e[i] = m
        BY <4>1, <2>2, <2>4
      <4>3. QED
        BY <4>2
    <3>3. QED
      BY <3>1, <3>2
  <2>8. Selects(seqn, n + 1, chosen, g)
    BY <2>4, <2>5, <2>6, <2>7 DEF Selects
  <2>9. QED
    BY <1>4, <2>1, <2>2, <2>8 DEF KeepChosen
<1>5. CASE seqn[n + 1] \notin chosen
  <2>1. h \in [1 .. Len(f) -> 1 .. (n + 1)]
    BY <1>1
  <2>2. ASSUME NEW m \in 1 .. (n + 1), seqn[m] \in chosen
        PROVE  \E i \in 1 .. Len(f) : h[i] = m
    <3>1. m \in 1 .. n
      BY <2>2, <1>5
    <3>2. QED
      BY <3>1, <2>2, <1>1
  <2>3. Selects(seqn, n + 1, chosen, f)
    BY <2>1, <2>2, <1>1 DEF Selects
  <2>4. QED
    BY <1>5, <2>3 DEF KeepChosen
<1>6. QED
  BY <1>4, <1>5

LEMMA FilterSelects ==
  ASSUME NEW B, NEW seqn \in Seq(B), NEW chosen
  PROVE  /\ Filter(seqn, chosen) \in Seq(B)
         /\ Selects(seqn, Len(seqn), chosen, Filter(seqn, chosen))
<1>1. PICK n \in Nat : n = Len(seqn) /\ DOMAIN seqn = 1 .. n
  OBVIOUS
<1>2. PICK empty : empty = <<>>
  OBVIOUS
<1>3. Filter(seqn, chosen) = Keeping!Folded(chosen, empty, seqn)
  BY <1>2, Zenon DEF Filter, Keeping!Folded, FoldLeft,
     Keeping!MapThenFoldSet, MapThenFoldSet, Keeping!Top, Max
<1>4. PICK r : /\ r[0] = empty
               /\ \A i \in 1 .. n : r[i] = KeepChosen(chosen, r[i - 1], seqn[i])
               /\ r[n] = Keeping!Folded(chosen, empty, seqn)
  BY <1>1, Keeping!FoldLeftRun, ZenonT(60)
<1>5. PICK M : M = {i \in Nat : i <= n =>
                      r[i] \in Seq(B) /\ Selects(seqn, i, chosen, r[i])}
  OBVIOUS
<1>6. 0 \in M
  <2>1. empty \in Seq(B) /\ Len(empty) = 0
    BY <1>2
  <2>2. Selects(seqn, 0, chosen, empty)
    <3>1. PICK h : h = [i \in 1 .. 0 |-> 0]
      OBVIOUS
    <3>2. 1 .. 0 = {}
      OBVIOUS
    <3>3. h \in [1 .. Len(empty) -> 1 .. 0]
      BY <3>1, <3>2, <2>1
    <3>4. QED
      BY <3>2, <3>3, <2>1 DEF Selects
  <2>3. QED
    BY <1>4, <1>5, <2>1, <2>2
<1>7. ASSUME NEW i \in Nat, i \in M PROVE i + 1 \in M
  <2>1. SUFFICES ASSUME i + 1 <= n
                 PROVE  /\ r[i + 1] \in Seq(B)
                        /\ Selects(seqn, i + 1, chosen, r[i + 1])
    BY <1>5
  <2>2. r[i] \in Seq(B) /\ Selects(seqn, i, chosen, r[i])
    BY <1>5, <1>7, <2>1
  <2>3. i + 1 \in 1 .. n /\ (i + 1) - 1 = i
    BY <2>1
  <2>4. r[i + 1] = KeepChosen(chosen, r[i], seqn[i + 1])
    BY <1>4, <2>3
  <2>5. QED
    BY <2>2, <2>3, <2>4, <1>1, SelectsOneMore
<1>8. n \in M
  BY <1>6, <1>7, SetInduction
<1>9. QED
  BY <1>1, <1>3, <1>4, <1>5, <1>8

-----------------------------------------------------------------------------
(* Images.                                                                 *)

LEMMA LiveEntry ==
  ASSUME NEW c \in CacheRecord, NEW k \in LiveKeys(c)
  PROVE  k \in Key /\ c.entry[k] \in EntryRecord
BY DEF LiveKeys, Live, Has, CacheRecord

(* What is written of the live ones among some keys.                       *)
LEMMA ImageOfLive ==
  ASSUME NEW c \in CacheRecord, NEW keys \in Seq(Key)
  PROVE  LET live == Filter(keys, LiveKeys(c))
         IN  [i \in DOMAIN live |->
                [key |-> live[i], value |-> c.entry[live[i]].value,
                 expiresAt |-> c.entry[live[i]].expiresAt]] \in Seq(ImageEntry)
<1>1. PICK live : live = Filter(keys, LiveKeys(c))
  OBVIOUS
<1>2. live \in Seq(Key) /\ Selects(keys, Len(keys), LiveKeys(c), live)
  BY <1>1, FilterSelects
<1>3. PICK n \in Nat : n = Len(live) /\ DOMAIN live = 1 .. n
  BY <1>2
<1>4. ASSUME NEW i \in 1 .. n
      PROVE  [key |-> live[i], value |-> c.entry[live[i]].value,
              expiresAt |-> c.entry[live[i]].expiresAt] \in ImageEntry
  <2>1. PICK k : k = live[i]
    OBVIOUS
  <2>2. k \in LiveKeys(c)
    BY <2>1, <1>2, <1>3 DEF Selects
  <2>3. k \in Key /\ c.entry[k] \in EntryRecord
    BY <2>2, LiveEntry
  <2>4. QED
    BY <2>1, <2>3 DEF EntryRecord, ImageEntry
<1>5. [i \in 1 .. n |->
         [key |-> live[i], value |-> c.entry[live[i]].value,
          expiresAt |-> c.entry[live[i]].expiresAt]] \in Seq(ImageEntry)
  BY <1>4
<1>6. QED
  BY <1>1, <1>3, <1>5

LEMMA DumpType ==
  ASSUME NEW c \in CacheRecord
  PROVE  Dump(c) \in Seq(ImageEntry)
<1>1. c.order \in Seq(Key)
  BY DEF CacheRecord
<1>2. QED
  BY <1>1, ImageOfLive DEF Dump

(* An empty cache, whatever the time.                                      *)
LEMMA EmptyAt ==
  ASSUME NEW t \in Nat
  PROVE  [EmptyCache EXCEPT !.now = t] \in GoodCache
<1>1. PICK empty : empty = <<>>
  OBVIOUS
<1>2. PICK zeros : zeros = [k \in Key |-> 0]
  OBVIOUS
<1>3. PICK none : none = NoEntry
  OBVIOUS
<1>4. /\ empty \in Seq(Key)
      /\ zeros \in [Key -> Nat]
      /\ none \in [Key -> EntryRecord \cup {None}]
  BY <1>1, <1>2, <1>3 DEF NoEntry
<1>5. PICK c : c = [EmptyCache EXCEPT !.now = t]
  OBVIOUS
<1>6. c = [order |-> empty, entry |-> none, bytes |-> 0,
           version |-> zeros, versionOrder |-> empty,
           generation |-> 0, absentEpoch |-> 0,
           changed |-> empty, expired |-> {}, now |-> t]
  BY <1>1, <1>2, <1>3, <1>5 DEF EmptyCache
<1>7. c \in CacheRecord
  BY <1>4, <1>6 DEF CacheRecord
<1>8. c \in GoodCache
  BY <1>2, <1>3, <1>6, <1>7
     DEF GoodCache, VersionsBounded, PresentLinked, Has, NoEntry
<1>9. QED
  BY <1>5, <1>8

LEMMA EmptyIsGood ==
  EmptyCache \in GoodCache
<1>1. PICK empty : empty = <<>>
  OBVIOUS
<1>2. PICK zeros : zeros = [k \in Key |-> 0]
  OBVIOUS
<1>3. EmptyCache = [order |-> empty, entry |-> NoEntry, bytes |-> 0,
                    version |-> zeros, versionOrder |-> empty,
                    generation |-> 0, absentEpoch |-> 0,
                    changed |-> empty, expired |-> {}, now |-> 0]
  BY <1>1, <1>2, Zenon DEF EmptyCache
<1>4. [EmptyCache EXCEPT !.now = 0] = EmptyCache
  BY <1>3
<1>5. QED
  BY <1>4, EmptyAt

=============================================================================
