---------------------------- MODULE KVCacheProofs ----------------------------
(***************************************************************************)
(* Theorems about KVCache for every value of its constants: the state      *)
(* keeps its type, versions advance with every change, the version a       *)
(* session recorded tells it whether a key it watches has changed, reports *)
(* are true, and the cache stays within its limits.  The last part shows   *)
(* that the transactions implement those of OptimisticStore.               *)
(*                                                                         *)
(* The inductive invariant is IInv.  WatchSound alone is not inductive:    *)
(* that a bump gives a new number needs VersionsBounded, and that CLEAR    *)
(* bumps every key it removes needs PresentLinked; both are in GoodCache.  *)
(* What is about storage rests on SInv: lists and index agree, and what is *)
(* stored fits.  That the byte total is exact, and with it which keys a    *)
(* write evicts, assumes that the clock stands still within a call         *)
(* (MaxDrift = 0): the run incr_leak shows that it is false otherwise.     *)
(***************************************************************************)
EXTENDS KVCache, KVCacheOpsProofs

IInv ==
  /\ cache \in GoodCache
  /\ cache.expired = {}
  /\ TypeOK
  /\ WatchSound

LEMMA DriftType == Drift \subseteq Nat
BY InputAssumption DEF Drift

-----------------------------------------------------------------------------
(* The check of the watched versions.                                      *)

WatchEntry == [key : Key, version : Nat]

CheckOp(p, r, w) == CheckNext(r, w)
Checking == INSTANCE FoldTheorems WITH Op <- CheckOp

LEMMA CheckingAdvances ==
  ASSUME NEW c \in GoodCache, NEW watched \in Seq(WatchEntry)
  PROVE  FoldLeft(CheckNext, Done(c), watched) \in Outcomes(c)
<1>1. FoldLeft(CheckNext, Done(c), watched)
        = Checking!Folded(0, Done(c), watched)
  BY Zenon DEF CheckOp, Checking!Folded, FoldLeft,
     Checking!MapThenFoldSet, MapThenFoldSet, Checking!Top, Max
<1>2. PICK A : A = Outcomes(c)
  OBVIOUS
<1>3. \A r \in A, w \in WatchEntry : CheckOp(0, r, w) \in A
  <2>1. SUFFICES ASSUME NEW r \in Outcomes(c), NEW w \in WatchEntry
                 PROVE  CheckNext(r, w) \in Outcomes(c)
    BY <1>2 DEF CheckOp
  <2>2. r.cache \in Advanced(c) /\ r.cache \in GoodCache /\ w.key \in Key
    BY DEF Outcomes, Advanced, WatchEntry
  <2>3. PICK e : e = Reap(r.cache, w.key)
    OBVIOUS
  <2>4. e \in Advanced(c)
    BY <2>2, <2>3, ReapAdvances, AdvancesTransitive
  <2>5. [ok |-> Version(e, w.key) = w.version, cache |-> e] \in Outcomes(c)
    BY <2>4 DEF Outcomes
  <2>6. QED
    BY <2>3, <2>5 DEF CheckNext
<1>4. PICK d : d = Done(c)
  OBVIOUS
<1>5. d \in A
  BY <1>2, <1>4, AdvancesReflexive, EndOutcome
<1>6. Checking!Folded(0, d, watched) \in A
  BY <1>3, <1>5, Checking!FoldLeftInvariant
<1>7. QED
  BY <1>1, <1>2, <1>4, <1>6

-----------------------------------------------------------------------------
(* One step.                                                               *)

(* What every step does to the versions: they advance, and those of the    *)
(* keys it reports rise.                                                   *)
Moves ==
  /\ cache' \in Advanced(cache)
  /\ \A k \in notified' : Version(cache, k) < Version(cache', k)

(* A call that ends in c leaves an advanced cache with the entries of c.   *)
LEMMA BecomesAdvances ==
  ASSUME cache \in GoodCache, cache.expired = {},
         NEW c \in Advanced(cache), Becomes(c)
  PROVE  /\ Moves
         /\ cache' \in Advanced(cache)
         /\ cache'.expired = {}
         /\ cache'.entry = c.entry
         /\ \A k \in Key : Version(cache', k) = Version(c, k)
         /\ notified' \subseteq Key
<1>1. c \in GoodCache /\ c \in CacheRecord
  BY DEF Advanced, GoodCache
<1>2. PICK empty : empty = <<>>
  OBVIOUS
<1>3. empty \in Seq(Key)
  BY <1>2
<1>4. PICK d : d = [c EXCEPT !.changed = empty, !.expired = {}]
  OBVIOUS
<1>5. d \in CacheRecord
  BY <1>1, <1>3, <1>4 DEF CacheRecord
<1>6. Annotates(c, d)
  BY <1>1, <1>4, <1>5 DEF Annotates, CacheRecord
<1>7. d \in Advanced(cache)
  BY <1>1, <1>6, AnnotationAdvances, AdvancesTransitive
<1>8. cache' = d
  BY <1>2, <1>4 DEF Becomes
<1>9. \A k \in Key : Version(d, k) = Version(c, k)
  BY <1>6 DEF Annotates, Version
<1>10. notified' \subseteq Key
  BY <1>1 DEF Becomes, CacheRecord
<1>11. \A k \in notified' : Version(cache, k) < Version(c, k)
  BY <1>10 DEF Becomes, Advanced, Advances
<1>12. d.expired = {}
  BY <1>1, <1>4 DEF CacheRecord
<1>13. QED
  BY <1>6, <1>7, <1>8, <1>9, <1>10, <1>11, <1>12 DEF Annotates, Moves

(* The sessions whose watched keys were touched notice.                    *)
NoticedBy(s) ==
  /\ stale'[s] = stale[s] \cup ({k \in Key : cache'.entry[k] # cache.entry[k]}
                              \cap Watched(s))
  /\ tx'[s] = tx[s]

WatchSoundFor(s) ==
  \A i \in DOMAIN tx[s].watched :
    LET w == tx[s].watched[i]
    IN  /\ w.version <= Version(cache, w.key)
        /\ w.key \in stale[s] => w.version < Version(cache, w.key)

LEMMA WatchedType ==
  ASSUME TypeOK, NEW s \in Session
  PROVE  /\ tx[s].watched \in Seq(WatchEntry)
         /\ tx[s].queue \in Seq(QueuedOp)
         /\ tx[s].queue \in Seq(Queueable)
         /\ \A i \in DOMAIN tx[s].watched : tx[s].watched[i] \in WatchEntry
<1>1. tx[s] \in Transaction
  BY DEF TypeOK
<1>2. tx[s].watched \in Seq(WatchEntry) /\ tx[s].queue \in Seq(QueuedOp)
  BY <1>1 DEF Transaction, WatchEntry
<1>3. tx[s].queue \in Seq(Queueable)
  BY <1>2, InputAssumption
<1>4. QED
  BY <1>2, <1>3

LEMMA NoticedStaysSound ==
  ASSUME IInv, cache' \in Advanced(cache), NEW s \in Session, NoticedBy(s)
  PROVE  WatchSoundFor(s)'
<1>1. SUFFICES ASSUME NEW i \in DOMAIN tx'[s].watched
               PROVE  LET w == tx'[s].watched[i]
                      IN  /\ w.version <= Version(cache', w.key)
                          /\ w.key \in stale'[s] =>
                               w.version < Version(cache', w.key)
  BY DEF WatchSoundFor
<1>2. PICK w : w = tx[s].watched[i]
  OBVIOUS
<1>3. i \in DOMAIN tx[s].watched /\ tx'[s].watched[i] = w
  BY <1>1, <1>2 DEF NoticedBy
<1>4. w \in WatchEntry
  BY <1>2, <1>3, WatchedType DEF IInv
<1>5. w.key \in Key /\ w.version \in Nat
  BY <1>4 DEF WatchEntry
<1>6. /\ w.version <= Version(cache, w.key)
      /\ w.key \in stale[s] => w.version < Version(cache, w.key)
  BY <1>2, <1>3 DEF IInv, WatchSound
<1>7. /\ Version(cache, w.key) <= Version(cache', w.key)
      /\ cache.entry[w.key] # cache'.entry[w.key] =>
           Version(cache, w.key) < Version(cache', w.key)
  BY <1>5 DEF Advanced, Advances
<1>8. Version(cache, w.key) \in Nat /\ Version(cache', w.key) \in Nat
  <2>1. cache \in CacheRecord /\ cache' \in CacheRecord
    BY DEF IInv, GoodCache, Advanced
  <2>2. QED
    BY <2>1, <1>5, VersionType
<1>9. w.key \in stale'[s] =>
        w.key \in stale[s] \/ cache.entry[w.key] # cache'.entry[w.key]
  BY DEF NoticedBy
<1>10. QED
  BY <1>3, <1>5, <1>6, <1>7, <1>8, <1>9

LEMMA SpoiledNotices ==
  ASSUME IInv, NEW c, cache'.entry = c.entry, NEW s \in Session,
         stale'[s] = Spoiled(c)[s], tx'[s] = tx[s]
  PROVE  NoticedBy(s)
BY DEF NoticedBy, Spoiled, Touched

LEMMA StaleType ==
  ASSUME IInv, NEW c
  PROVE  Spoiled(c) \in [Session -> SUBSET Key]
BY DEF Spoiled, Touched, IInv, TypeOK

LEMMA CallStep ==
  ASSUME IInv, NEW r \in Outcomes(cache), Call(r)
  PROVE  IInv' /\ Moves
<1>1. r.cache \in Advanced(cache) /\ cache \in GoodCache /\ cache.expired = {}
  BY DEF Outcomes, IInv
<1>2. /\ Moves
      /\ cache' \in Advanced(cache)
      /\ cache'.expired = {}
      /\ cache'.entry = r.cache.entry
      /\ notified' \subseteq Key
  BY <1>1, BecomesAdvances DEF Call
<1>3. cache' \in GoodCache /\ cache' \in CacheRecord
  BY <1>2 DEF Advanced, GoodCache
<1>4. TypeOK'
  BY <1>2, <1>3, StaleType DEF Call, IInv, TypeOK
<1>5. ASSUME NEW s \in Session PROVE WatchSoundFor(s)'
  <2>1. stale'[s] = Spoiled(r.cache)[s] /\ tx'[s] = tx[s]
    BY DEF Call
  <2>2. NoticedBy(s)
    BY <1>2, <2>1, SpoiledNotices
  <2>3. QED
    BY <1>2, <2>2, NoticedStaysSound
<1>6. WatchSound'
  BY <1>5 DEF WatchSound, WatchSoundFor
<1>7. QED
  BY <1>2, <1>3, <1>4, <1>6 DEF IInv

(* watch() puts the present version on record.                             *)
Watching(seq, k, v, w) ==
  \A i \in DOMAIN w :
    \/ w[i] = [key |-> k, version |-> v]
    \/ w[i].key # k /\ \E j \in DOMAIN seq : w[i] = seq[j]

LEMMA WatchRecordType ==
  ASSUME NEW seq \in Seq(WatchEntry), NEW k \in Key, NEW v \in Nat
  PROVE  /\ WatchRecord(seq, k, v) \in Seq(WatchEntry)
         /\ Watching(seq, k, v, WatchRecord(seq, k, v))
<1>1. PICK e : e = [key |-> k, version |-> v]
  OBVIOUS
<1>2. e \in WatchEntry
  BY <1>1 DEF WatchEntry
<1>3. CASE \E i \in DOMAIN seq : seq[i].key = k
  <2>1. PICK r : r = [i \in DOMAIN seq |-> IF seq[i].key = k THEN e ELSE seq[i]]
    OBVIOUS
  <2>2. WatchRecord(seq, k, v) = r
    BY <1>1, <1>3, <2>1 DEF WatchRecord
  <2>3. r \in Seq(WatchEntry) /\ DOMAIN r = DOMAIN seq
    BY <1>2, <2>1
  <2>4. \A i \in DOMAIN r : r[i] = e \/ (r[i].key # k /\ r[i] = seq[i])
    BY <2>1
  <2>5. Watching(seq, k, v, r)
    BY <1>1, <2>3, <2>4 DEF Watching
  <2>6. QED
    BY <2>2, <2>3, <2>5
<1>4. CASE ~ \E i \in DOMAIN seq : seq[i].key = k
  <2>1. PICK r : r = Append(seq, e)
    OBVIOUS
  <2>2. WatchRecord(seq, k, v) = r
    BY <1>1, <1>4, <2>1 DEF WatchRecord
  <2>3. r \in Seq(WatchEntry) /\ DOMAIN r = 1 .. Len(seq) + 1
    BY <1>2, <2>1
  <2>4. \A i \in DOMAIN r : r[i] = e \/ (i \in DOMAIN seq /\ r[i] = seq[i])
    BY <1>2, <2>1, <2>3
  <2>5. Watching(seq, k, v, r)
    BY <1>1, <1>4, <2>4 DEF Watching
  <2>6. QED
    BY <2>2, <2>3, <2>5
<1>5. QED
  BY <1>3, <1>4

LEMMA WatchStep ==
  ASSUME IInv, NEW s \in Session, NEW k \in Key, Watch(s, k)
  PROVE  IInv' /\ Moves
<1>1. PICK c : c = Reap(cache, k)
  OBVIOUS
<1>2. cache \in GoodCache /\ cache.expired = {}
  BY DEF IInv
<1>3. c \in Advanced(cache) /\ c \in CacheRecord
  BY <1>1, <1>2, ReapAdvances DEF Advanced, GoodCache
<1>4. PICK v : v = Version(c, k)
  OBVIOUS
<1>5. v \in Nat
  BY <1>3, <1>4, VersionType
<1>6. /\ Becomes(c)
      /\ tx' = [tx EXCEPT ![s].watched = WatchRecord(tx[s].watched, k, v)]
      /\ stale' = [Spoiled(c) EXCEPT ![s] = stale[s] \ {k}]
  BY <1>1, <1>4 DEF Watch
<1>7. /\ Moves
      /\ cache' \in Advanced(cache)
      /\ cache'.expired = {}
      /\ cache'.entry = c.entry
      /\ Version(cache', k) = v
      /\ notified' \subseteq Key
  BY <1>2, <1>3, <1>4, <1>6, BecomesAdvances
<1>8. cache' \in GoodCache /\ cache' \in CacheRecord
  BY <1>7 DEF Advanced, GoodCache
<1>9. PICK ws : ws = WatchRecord(tx[s].watched, k, v)
  OBVIOUS
<1>10. ws \in Seq(WatchEntry) /\ Watching(tx[s].watched, k, v, ws)
  <2>1. tx[s].watched \in Seq(WatchEntry)
    BY WatchedType DEF IInv
  <2>2. QED
    BY <1>5, <1>9, <2>1, WatchRecordType
<1>11. tx \in [Session -> Transaction] /\ stale \in [Session -> SUBSET Key]
  BY DEF IInv, TypeOK
<1>12. /\ tx'[s].watched = ws
       /\ \A o \in Session \ {s} : tx'[o] = tx[o]
  BY <1>6, <1>9, <1>11 DEF Transaction
<1>13. /\ stale'[s] = stale[s] \ {k}
       /\ \A o \in Session \ {s} : stale'[o] = Spoiled(c)[o]
       /\ stale' \in [Session -> SUBSET Key]
  BY <1>6, <1>11, StaleType
<1>14. tx' \in [Session -> Transaction]
  BY <1>6, <1>9, <1>10, <1>11 DEF Transaction, WatchEntry
<1>15. TypeOK'
  BY <1>7, <1>8, <1>13, <1>14 DEF TypeOK
<1>16. ASSUME NEW o \in Session \ {s} PROVE WatchSoundFor(o)'
  <2>1. NoticedBy(o)
    BY <1>7, <1>12, <1>13, SpoiledNotices
  <2>2. QED
    BY <1>7, <2>1, NoticedStaysSound
<1>17. WatchSoundFor(s)'
  <2>1. SUFFICES ASSUME NEW i \in DOMAIN ws
                 PROVE  /\ ws[i].version <= Version(cache', ws[i].key)
                        /\ ws[i].key \in stale'[s] =>
                             ws[i].version < Version(cache', ws[i].key)
    BY <1>12 DEF WatchSoundFor
  <2>2. CASE ws[i] = [key |-> k, version |-> v]
    BY <2>2, <1>5, <1>7, <1>13
  <2>3. ASSUME NEW j \in DOMAIN tx[s].watched,
               ws[i].key # k, ws[i] = tx[s].watched[j]
        PROVE  /\ ws[i].version <= Version(cache', ws[i].key)
               /\ ws[i].key \in stale'[s] =>
                    ws[i].version < Version(cache', ws[i].key)
    <3>1. PICK w : w = ws[i]
      OBVIOUS
    <3>2. w \in WatchEntry
      BY <2>3, <3>1, WatchedType DEF IInv
    <3>3. w.key \in Key /\ w.version \in Nat
      BY <3>2 DEF WatchEntry
    <3>4. /\ w.version <= Version(cache, w.key)
          /\ w.key \in stale[s] => w.version < Version(cache, w.key)
      BY <2>3, <3>1 DEF IInv, WatchSound
    <3>5. Version(cache, w.key) <= Version(cache', w.key)
      BY <3>3, <1>7 DEF Advanced, Advances
    <3>6. Version(cache, w.key) \in Nat /\ Version(cache', w.key) \in Nat
      BY <1>2, <1>8, <3>3, VersionType DEF GoodCache
    <3>7. QED
      BY <3>1, <3>3, <3>4, <3>5, <3>6, <1>13
  <2>4. QED
    BY <2>2, <2>3, <1>10 DEF Watching
<1>18. WatchSound'
  BY <1>16, <1>17 DEF WatchSound, WatchSoundFor
<1>19. QED
  BY <1>7, <1>8, <1>15, <1>18 DEF IInv

(* A session that watches nothing has nothing to be wrong about.           *)
LEMMA FinishedIsSound ==
  ASSUME NEW s \in Session, tx'[s].watched = <<>>
  PROVE  WatchSoundFor(s)'
BY DEF WatchSoundFor

LEMMA FinishedType ==
  ASSUME NEW o \in {"open", "committed", "aborted", "failed", "discarded"}
  PROVE  Finished(o) \in Transaction /\ Finished(o).watched = <<>>
<1>1. PICK empty : empty = <<>>
  OBVIOUS
<1>2. empty \in Seq([key : Key, version : Nat]) /\ empty \in Seq(QueuedOp)
  BY <1>1
<1>3. QED
  BY <1>1, <1>2 DEF Finished, Transaction

(* EXEC ends the attempt of s; what it did to the cache is some advance.   *)
LEMMA ExecEffect ==
  ASSUME IInv, NEW s \in Session, NEW d \in Nat, Exec(s, d)
  PROVE  \E c \in Advanced(cache),
            o \in {"committed", "aborted", "failed"} :
           /\ Becomes(c)
           /\ tx' = [tx EXCEPT ![s] = Finished(o)]
           /\ stale' = [Spoiled(c) EXCEPT ![s] = {}]
<1>1. cache \in GoodCache
  BY DEF IInv
<1>2. PICK checked : checked = FoldLeft(CheckNext, Done(cache), tx[s].watched)
  OBVIOUS
<1>3. checked \in Outcomes(cache)
  BY <1>1, <1>2, WatchedType, CheckingAdvances DEF IInv
<1>4. checked.cache \in Advanced(cache) /\ checked.cache \in GoodCache
  BY <1>3 DEF Outcomes, Advanced
<1>5. PICK start : start = Later(checked.cache, d)
  OBVIOUS
<1>6. start \in Advanced(cache) /\ start \in GoodCache
  BY <1>1, <1>4, <1>5, LaterAdvances, AdvancesTransitive DEF Advanced
<1>7. PICK ran : ran = FoldLeft(ApplyNext, Done(start), tx[s].queue)
  OBVIOUS
<1>8. ran \in Outcomes(start)
  BY <1>6, <1>7, WatchedType, ApplyingAdvances DEF IInv
<1>9. PICK applied : applied = Atomic(start, ran)
  OBVIOUS
<1>10. applied.cache \in Advanced(cache)
  <2>1. applied \in Outcomes(start)
    BY <1>6, <1>8, <1>9, AtomicAdvances
  <2>2. applied.cache \in Advanced(start)
    BY <2>1 DEF Outcomes
  <2>3. QED
    BY <1>1, <1>6, <2>2, AdvancesTransitive
<1>11. PICK result :
         result = IF checked.ok THEN applied.cache ELSE checked.cache
  OBVIOUS
<1>12. PICK o : o = IF ~ checked.ok THEN "aborted"
                    ELSE IF applied.ok THEN "committed" ELSE "failed"
  OBVIOUS
<1>13. /\ Becomes(result)
       /\ tx' = [tx EXCEPT ![s] = Finished(o)]
       /\ stale' = [Spoiled(result) EXCEPT ![s] = {}]
  BY <1>2, <1>5, <1>7, <1>9, <1>11, <1>12, Zenon DEF Exec
<1>14. result \in Advanced(cache)
  BY <1>4, <1>10, <1>11
<1>15. o \in {"committed", "aborted", "failed"}
  BY <1>12
<1>16. QED
  BY <1>13, <1>14, <1>15

LEMMA ExecStep ==
  ASSUME IInv, NEW s \in Session, NEW d \in Nat, Exec(s, d)
  PROVE  IInv' /\ Moves
<1>1. PICK c \in Advanced(cache), o \in {"committed", "aborted", "failed"} :
        /\ Becomes(c)
        /\ tx' = [tx EXCEPT ![s] = Finished(o)]
        /\ stale' = [Spoiled(c) EXCEPT ![s] = {}]
  BY ExecEffect
<1>2. /\ Moves
      /\ cache' \in Advanced(cache)
      /\ cache'.expired = {}
      /\ cache'.entry = c.entry
      /\ notified' \subseteq Key
  BY <1>1, BecomesAdvances DEF IInv
<1>3. cache' \in GoodCache /\ cache' \in CacheRecord
  BY <1>2 DEF Advanced, GoodCache
<1>4. tx \in [Session -> Transaction]
  BY DEF IInv, TypeOK
<1>5. /\ tx' \in [Session -> Transaction]
      /\ tx'[s].watched = <<>>
      /\ \A p \in Session \ {s} : tx'[p] = tx[p]
  BY <1>1, <1>4, FinishedType
<1>6. /\ stale' \in [Session -> SUBSET Key]
      /\ \A p \in Session \ {s} : stale'[p] = Spoiled(c)[p]
  BY <1>1, StaleType
<1>7. TypeOK'
  BY <1>2, <1>3, <1>5, <1>6 DEF TypeOK
<1>8. ASSUME NEW p \in Session \ {s} PROVE WatchSoundFor(p)'
  <2>1. NoticedBy(p)
    BY <1>2, <1>5, <1>6, SpoiledNotices
  <2>2. QED
    BY <1>2, <2>1, NoticedStaysSound
<1>9. WatchSoundFor(s)'
  BY <1>5, FinishedIsSound
<1>10. WatchSound'
  BY <1>8, <1>9 DEF WatchSound, WatchSoundFor
<1>11. QED
  BY <1>2, <1>3, <1>7, <1>10 DEF IInv

(* A step that leaves the cache alone and has one session start, end or    *)
(* forget.                                                                 *)
LEMMA OwnStep ==
  ASSUME IInv, NEW s \in Session, NEW t \in Transaction,
         UNCHANGED cache, notified' = {},
         tx' = [tx EXCEPT ![s] = t],
         \/ t.watched = <<>>
         \/ t.watched = tx[s].watched /\ stale'[s] = stale[s],
         stale' \in [Session -> SUBSET Key],
         \A p \in Session \ {s} : stale'[p] = stale[p]
  PROVE  IInv' /\ Moves
<1>1. cache' \in Advanced(cache) /\ cache' \in GoodCache
  BY AdvancesReflexive DEF IInv
<1>2. /\ tx \in [Session -> Transaction]
      /\ \A p \in Session \ {s} : tx'[p] = tx[p]
      /\ tx'[s] = t
  BY DEF IInv, TypeOK
<1>3. TypeOK'
  BY <1>1, <1>2 DEF TypeOK, IInv
<1>4. ASSUME NEW p \in Session,
             tx'[p].watched = tx[p].watched, stale'[p] = stale[p]
      PROVE  WatchSoundFor(p)'
  <2>1. WatchSoundFor(p)
    BY DEF IInv, WatchSound, WatchSoundFor
  <2>2. \A k : Version(cache', k) = Version(cache, k)
    OBVIOUS
  <2>3. QED
    BY <2>1, <2>2, <1>4 DEF WatchSoundFor
<1>5. WatchSoundFor(s)'
  BY <1>2, <1>4, FinishedIsSound
<1>6. \A p \in Session : WatchSoundFor(p)'
  BY <1>2, <1>4, <1>5
<1>7. WatchSound'
  BY <1>6 DEF WatchSound, WatchSoundFor
<1>8. QED
  BY <1>1, <1>3, <1>7 DEF IInv, Moves

LEMMA TickStep ==
  ASSUME IInv, Tick
  PROVE  IInv' /\ Moves
<1>1. cache' \in Advanced(cache)
  BY LaterAdvances DEF Tick, IInv
<1>2. cache' \in GoodCache /\ cache' \in CacheRecord
  BY <1>1 DEF Advanced, GoodCache
<1>3. TypeOK'
  BY <1>2 DEF Tick, TypeOK, IInv
<1>4. cache'.entry = cache.entry /\ cache'.expired = {}
  BY DEF Tick, Later, IInv, GoodCache, CacheRecord
<1>5. ASSUME NEW s \in Session PROVE WatchSoundFor(s)'
  <2>1. NoticedBy(s)
    BY <1>4 DEF NoticedBy, Tick
  <2>2. QED
    BY <1>1, <2>1, NoticedStaysSound
<1>6. WatchSound'
  BY <1>5 DEF WatchSound, WatchSoundFor
<1>7. QED
  BY <1>1, <1>2, <1>3, <1>4, <1>6 DEF IInv, Moves, Tick

LEMMA SessionStep ==
  ASSUME IInv, NEW s \in Session,
         \/ Multi(s) \/ Unwatch(s) \/ Discard(s)
         \/ \E op \in QueuedOp : Queue(s, op)
  PROVE  IInv' /\ Moves
<1>1. /\ tx \in [Session -> Transaction] /\ tx[s] \in Transaction
      /\ stale \in [Session -> SUBSET Key]
  BY DEF IInv, TypeOK
<1>2. CASE Multi(s)
  <2>1. PICK t : t = Finished("open")
    OBVIOUS
  <2>2. t \in Transaction /\ t.watched = <<>>
    BY <2>1, FinishedType
  <2>3. QED
    BY <1>1, <1>2, <2>1, <2>2, OwnStep DEF Multi
<1>3. CASE Unwatch(s)
  <2>1. PICK empty : empty = <<>>
    OBVIOUS
  <2>2. PICK t : t = [tx[s] EXCEPT !.watched = empty]
    OBVIOUS
  <2>3. empty \in Seq([key : Key, version : Nat])
    BY <2>1
  <2>4. t \in Transaction /\ t.watched = <<>>
    BY <1>1, <2>1, <2>2, <2>3 DEF Transaction
  <2>5. tx' = [tx EXCEPT ![s] = t]
    BY <1>3, <2>1, <2>2 DEF Unwatch
  <2>6. QED
    BY <1>1, <1>3, <2>4, <2>5, OwnStep DEF Unwatch
<1>4. CASE Discard(s)
  <2>1. PICK t : t = Finished("discarded")
    OBVIOUS
  <2>2. t \in Transaction /\ t.watched = <<>>
    BY <2>1, FinishedType
  <2>3. QED
    BY <1>1, <1>4, <2>1, <2>2, OwnStep DEF Discard
<1>5. ASSUME NEW op \in QueuedOp, Queue(s, op)
      PROVE  IInv' /\ Moves
  <2>1. PICK t : t = [tx[s] EXCEPT !.queue = Append(tx[s].queue, op)]
    OBVIOUS
  <2>2. tx[s].queue \in Seq(QueuedOp)
    BY WatchedType DEF IInv
  <2>3. Append(tx[s].queue, op) \in Seq(QueuedOp)
    BY <2>2
  <2>4. t \in Transaction /\ t.watched = tx[s].watched
    BY <1>1, <2>1, <2>3 DEF Transaction
  <2>5. tx' = [tx EXCEPT ![s] = t]
    BY <1>5, <2>1 DEF Queue
  <2>6. QED
    BY <1>1, <1>5, <2>4, <2>5, OwnStep DEF Queue
<1>6. QED
  BY <1>2, <1>3, <1>4, <1>5

(* Every action preserves the invariant and advances the versions.         *)
LEMMA NextStep ==
  ASSUME IInv, Next
  PROVE  IInv' /\ Moves
<1>1. cache \in GoodCache
  BY DEF IInv
<1>2. CASE Tick
  BY <1>2, TickStep
<1>3. ASSUME NEW k \in Key, DoGet(k) \/ DoDel(k) \/ DoTTL(k) \/ DoPersist(k)
      PROVE  IInv' /\ Moves
  BY <1>1, <1>3, CallStep, GetAdvances, DelAdvances, TTLAdvances,
     PersistAdvances DEF DoGet, DoDel, DoTTL, DoPersist
<1>4. ASSUME NEW k \in Key, NEW v \in Value, NEW ttl \in TTLArgument,
             NEW d \in Drift, DoSet(k, v, ttl, d)
      PROVE  IInv' /\ Moves
  <2>1. ttl \in Nat \cup {None} /\ d \in Nat
    BY InputAssumption, DriftType DEF TTLArgument
  <2>2. QED
    BY <1>1, <1>4, <2>1, CallStep, SetAdvances DEF DoSet
<1>5. ASSUME NEW batch \in Batch, NEW d \in Drift, DoMSet(batch, d)
      PROVE  IInv' /\ Moves
  <2>1. /\ d \in Nat
        /\ batch \in Seq([key : Key, value : Value, ttl : Nat \cup {None}])
    BY InputAssumption, DriftType DEF BatchEntry
  <2>2. MSet(cache, batch, d) \in Outcomes(cache)
    BY <1>1, <2>1, MSetAdvances
  <2>3. QED
    BY <1>5, <2>2, CallStep DEF DoMSet
<1>6. ASSUME NEW k \in Key, NEW by \in Delta, NEW d \in Drift, DoIncr(k, by, d)
      PROVE  IInv' /\ Moves
  <2>1. by \in Int /\ d \in Nat
    BY InputAssumption, DriftType
  <2>2. QED
    BY <1>1, <1>6, <2>1, CallStep, IncrAdvances DEF DoIncr
<1>7. ASSUME NEW k \in Key, NEW old \in Value \cup {None}, NEW v \in Value,
             NEW ttl \in TTLArgument, NEW d \in Drift, DoCas(k, old, v, ttl, d)
      PROVE  IInv' /\ Moves
  <2>1. ttl \in Nat \cup {None} /\ d \in Nat
    BY InputAssumption, DriftType DEF TTLArgument
  <2>2. QED
    BY <1>1, <1>7, <2>1, CallStep, CasAdvances DEF DoCas
<1>8. ASSUME NEW k \in Key, NEW ttl \in Span, NEW d \in Drift,
             DoExpire(k, ttl, d)
      PROVE  IInv' /\ Moves
  <2>1. ttl \in Nat /\ d \in Nat
    BY InputAssumption, DriftType
  <2>2. QED
    BY <1>1, <1>8, <2>1, CallStep, ExpireAdvances DEF DoExpire
<1>9. ASSUME NEW k \in Key, NEW at \in 0 .. MaxTime, NEW d \in Drift,
             DoExpireAt(k, at, d)
      PROVE  IInv' /\ Moves
  <2>1. at \in Nat /\ d \in Nat
    BY InputAssumption, DriftType
  <2>2. QED
    BY <1>1, <1>9, <2>1, CallStep, ExpireAtAdvances DEF DoExpireAt
<1>10. ASSUME NEW ns \in Namespace, DoClearPrefix(ns)
       PROVE  IInv' /\ Moves
  BY <1>1, <1>10, CallStep, ClearPrefixAdvances DEF DoClearPrefix
<1>11. CASE DoClear
  BY <1>1, <1>11, CallStep, ClearAdvances DEF DoClear
<1>12. CASE DoSweep
  BY <1>1, <1>12, CallStep, SweepAdvances DEF DoSweep
<1>13. ASSUME NEW image \in Image, DoRestore(image) \/ DoReplace(image)
       PROVE  IInv' /\ Moves
  <2>1. image \in Seq(SetRecordArgument)
    BY InputAssumption DEF ImageEntry, SetRecordArgument
  <2>2. /\ Restore(cache, image) \in Outcomes(cache)
        /\ Replace(cache, image) \in Outcomes(cache)
    BY <1>1, <2>1, RestoreAdvances, ReplaceAdvances
  <2>3. QED
    BY <1>13, <2>2, CallStep DEF DoRestore, DoReplace
<1>14. ASSUME NEW s \in Session, NEW k \in Key, Watch(s, k)
       PROVE  IInv' /\ Moves
  BY <1>14, WatchStep
<1>15. ASSUME NEW s \in Session, NEW k \in Key, Read(s, k)
       PROVE  IInv' /\ Moves
  BY <1>1, <1>15, CallStep, GetAdvances DEF Read
<1>16. ASSUME NEW s \in Session, NEW d \in Drift, Exec(s, d)
       PROVE  IInv' /\ Moves
  BY <1>16, ExecStep, DriftType
<1>17. ASSUME NEW s \in Session,
              \/ Multi(s) \/ Unwatch(s) \/ Discard(s)
              \/ \E op \in QueuedOp : Queue(s, op)
       PROVE  IInv' /\ Moves
  BY <1>17, SessionStep
<1>18. QED
  BY <1>2, <1>3, <1>4, <1>5, <1>6, <1>7, <1>8, <1>9, <1>10, <1>11, <1>12,
     <1>13, <1>14, <1>15, <1>16, <1>17 DEF Next

LEMMA StutterStep ==
  ASSUME IInv, UNCHANGED vars
  PROVE  IInv'
<1>1. cache' = cache /\ tx' = tx /\ notified' = notified /\ stale' = stale
  BY DEF vars
<1>2. TypeOK'
  BY <1>1 DEF IInv, TypeOK
<1>3. \A k : Version(cache', k) = Version(cache, k)
  BY <1>1
<1>4. WatchSound'
  BY <1>1, <1>3 DEF IInv, WatchSound
<1>5. QED
  BY <1>1, <1>2, <1>4 DEF IInv

LEMMA InitInvariant == Init => IInv
<1>1. SUFFICES ASSUME Init PROVE IInv
  OBVIOUS
<1>2. PICK empty : empty = <<>>
  OBVIOUS
<1>3. PICK zeros : zeros = [k \in Key |-> 0]
  OBVIOUS
<1>4. PICK none : none = NoEntry
  OBVIOUS
<1>5. /\ empty \in Seq(Key)
      /\ zeros \in [Key -> Nat]
      /\ none \in [Key -> EntryRecord \cup {None}]
  BY <1>2, <1>3, <1>4 DEF NoEntry
<1>6. cache = [order |-> empty, entry |-> none, bytes |-> 0,
               version |-> zeros, versionOrder |-> empty,
               generation |-> 0, absentEpoch |-> 0,
               changed |-> empty, expired |-> {}, now |-> 0]
  BY <1>1, <1>2, <1>3, <1>4 DEF Init, EmptyCache
<1>7. cache \in CacheRecord
  BY <1>5, <1>6 DEF CacheRecord
<1>8. cache \in GoodCache
  BY <1>3, <1>4, <1>6, <1>7
     DEF GoodCache, VersionsBounded, PresentLinked, Has, NoEntry
<1>9. Finished("discarded") \in Transaction /\ Finished("discarded").watched = <<>>
  BY FinishedType
<1>10. TypeOK
  BY <1>1, <1>7, <1>9 DEF Init, TypeOK
<1>11. WatchSound
  BY <1>1, <1>9 DEF Init, WatchSound
<1>12. QED
  BY <1>6, <1>8, <1>10, <1>11 DEF IInv

-----------------------------------------------------------------------------
(* The theorems.                                                           *)

LEMMA InvariantHolds == Spec => []IInv
<1>1. IInv /\ [Next]_vars => IInv'
  BY NextStep, StutterStep
<1>2. QED
  BY InitInvariant, <1>1, PTL DEF Spec

(* Every reachable state has the shape of the fields of KVCache and of the *)
(* transactions, for all keys, limits and arguments.                       *)
THEOREM TypeCorrect == Spec => []TypeOK
<1>1. IInv => TypeOK
  BY DEF IInv
<1>2. QED
  BY <1>1, InvariantHolds, PTL

(* The version a session put on record is at most the version of the key,  *)
(* and lower once the entry has changed: EXEC's comparison cannot miss a   *)
(* change, whether it came from a write, a delete, an expiry, an eviction, *)
(* CLEAR or a restore, and however many tombstones were pruned.            *)
THEOREM WatchIsSound == Spec => []WatchSound
<1>1. IInv => WatchSound
  BY DEF IInv
<1>2. QED
  BY <1>1, InvariantHolds, PTL

(* No step lowers the version of a key, and a step that changes the entry  *)
(* of a key raises it.                                                     *)
THEOREM VersionsNeverReused == Spec => VersionsAdvance
<1>1. IInv /\ [Next]_vars =>
        [\A k \in Key :
           /\ Version(cache, k) <= Version(cache', k)
           /\ cache'.entry[k] # cache.entry[k] =>
                Version(cache, k) < Version(cache', k)]_vars
  BY NextStep DEF Moves, Advanced, Advances
<1>2. QED
  BY <1>1, InvariantHolds, PTL DEF Spec, VersionsAdvance

(* A key whose expiry is reported has a newer version than before the      *)
(* step: the listener hears of nothing that was rolled back.               *)
THEOREM ReportsAreTrue == Spec => ReportsTrue
<1>1. IInv /\ [Next]_vars =>
        [\A k \in notified' : Version(cache, k) < Version(cache', k)]_vars
  BY NextStep DEF Moves
<1>2. QED
  BY <1>1, InvariantHolds, PTL DEF Spec, ReportsTrue

-----------------------------------------------------------------------------
(* What is stored.  The invariant SInv is Fit of KVCacheOpsProofs for the  *)
(* time MaxDrift that may pass within a call.                              *)

SInv == cache \in Fit(MaxDrift)

LEMMA DriftBound == MaxDrift \in Nat /\ Drift = 0 .. MaxDrift
BY InputAssumption DEF Drift

LEMMA ApplyFits ==
  ASSUME NEW c \in Fit(MaxDrift), NEW op \in QueuedOp
  PROVE  Apply(c, op) \in Fits(MaxDrift)
<1>1. op \in Queueable
  BY InputAssumption
<1>2. CASE op \in [op : {"set"}, key : Key, value : Value, ttl : Nat \cup {None}]
  <2>1. /\ op.op = "set" /\ op.key \in Key /\ op.value \in Value
        /\ op.ttl \in Nat \cup {None}
    BY <1>2
  <2>2. Set(c, op.key, op.value, op.ttl, 0) \in Fits(MaxDrift)
    BY <2>1, SetFits
  <2>3. QED
    BY <2>1, <2>2 DEF Apply
<1>3. CASE op \in [op : {"mset"}, batch : Seq(BatchEntry)]
  <2>1. op.op = "mset" /\ op.batch \in Seq(BatchEntry)
    BY <1>3
  <2>2. MSet(c, op.batch, 0) \in Fits(MaxDrift)
    BY <2>1, MSetFits
  <2>3. QED
    BY <2>1, <2>2 DEF Apply
<1>4. CASE op \in [op : {"del", "persist"}, key : Key]
  <2>1. (op.op = "del" \/ op.op = "persist") /\ op.key \in Key
    BY <1>4
  <2>2. Del(c, op.key) \in Fits(MaxDrift) /\ Persist(c, op.key) \in Fits(MaxDrift)
    BY <2>1, DelFits, PersistFits
  <2>3. QED
    BY <2>1, <2>2 DEF Apply
<1>5. CASE op \in [op : {"clear"}, prefix : Namespace]
  <2>1. op.op = "clear"
    BY <1>5
  <2>2. ClearPrefix(c, op.prefix) \in Fits(MaxDrift)
    BY ClearPrefixFits
  <2>3. QED
    BY <2>1, <2>2 DEF Apply
<1>6. CASE op \in [op : {"expire"}, key : Key, ttl : Nat]
  <2>1. op.op = "expire" /\ op.key \in Key /\ op.ttl \in Nat
    BY <1>6
  <2>2. Expire(c, op.key, op.ttl, 0) \in Fits(MaxDrift)
    BY <2>1, ExpireFits
  <2>3. QED
    BY <2>1, <2>2 DEF Apply
<1>7. CASE op \in [op : {"incr"}, key : Key, by : Int]
  <2>1. op.op = "incr" /\ op.key \in Key /\ op.by \in Int
    BY <1>7
  <2>2. 0 \in 0 .. MaxDrift
    BY DriftBound
  <2>3. Incr(c, op.key, op.by, 0) \in Fits(MaxDrift)
    BY <2>1, <2>2, DriftBound, IncrFits
  <2>4. QED
    BY <2>1, <2>3 DEF Apply
<1>8. CASE op \in [op : {"cas"}, key : Key, expected : Value \cup {None},
                   value : Value, ttl : Nat \cup {None}]
  <2>1. /\ op.op = "cas" /\ op.key \in Key /\ op.value \in Value
        /\ op.ttl \in Nat \cup {None}
    BY <1>8
  <2>2. Cas(c, op.key, op.expected, op.value, op.ttl, 0) \in Fits(MaxDrift)
    BY <2>1, CasFits
  <2>3. QED
    BY <2>1, <2>2 DEF Apply
<1>9. QED
  BY <1>1, <1>2, <1>3, <1>4, <1>5, <1>6, <1>7, <1>8 DEF Queueable

LEMMA ApplyingFits ==
  ASSUME NEW c \in Fit(MaxDrift), NEW queue \in Seq(QueuedOp)
  PROVE  FoldLeft(ApplyNext, Done(c), queue) \in Fits(MaxDrift)
<1>1. FoldLeft(ApplyNext, Done(c), queue) = Applying!Folded(0, Done(c), queue)
  BY Zenon DEF ApplyOp, Applying!Folded, FoldLeft,
     Applying!MapThenFoldSet, MapThenFoldSet, Applying!Top, Max
<1>2. PICK A : A = Fits(MaxDrift)
  OBVIOUS
<1>3. \A r \in A, op \in QueuedOp : ApplyOp(0, r, op) \in A
  BY <1>2, ApplyFits DEF ApplyOp, ApplyNext, Fits
<1>4. PICK d : d = Done(c)
  OBVIOUS
<1>5. d \in A
  BY <1>2, <1>4, EndFits
<1>6. Applying!Folded(0, d, queue) \in A
  BY <1>3, <1>5, Applying!FoldLeftInvariant
<1>7. QED
  BY <1>1, <1>2, <1>4, <1>6

LEMMA CheckingFits ==
  ASSUME NEW c \in Fit(MaxDrift), NEW watched \in Seq(WatchEntry)
  PROVE  FoldLeft(CheckNext, Done(c), watched) \in Fits(MaxDrift)
<1>1. FoldLeft(CheckNext, Done(c), watched)
        = Checking!Folded(0, Done(c), watched)
  BY Zenon DEF CheckOp, Checking!Folded, FoldLeft,
     Checking!MapThenFoldSet, MapThenFoldSet, Checking!Top, Max
<1>2. PICK A : A = Fits(MaxDrift)
  OBVIOUS
<1>3. \A r \in A, w \in WatchEntry : CheckOp(0, r, w) \in A
  <2>1. SUFFICES ASSUME NEW r \in Fits(MaxDrift), NEW w \in WatchEntry
                 PROVE  CheckNext(r, w) \in Fits(MaxDrift)
    BY <1>2 DEF CheckOp
  <2>2. PICK e : e = Reap(r.cache, w.key)
    OBVIOUS
  <2>3. e \in Fit(MaxDrift)
    BY <2>2, ReapFits DEF Fits, WatchEntry
  <2>4. [ok |-> Version(e, w.key) = w.version, cache |-> e] \in Fits(MaxDrift)
    BY <2>3 DEF Fits
  <2>5. QED
    BY <2>2, <2>4 DEF CheckNext
<1>4. PICK d : d = Done(c)
  OBVIOUS
<1>5. d \in A
  BY <1>2, <1>4, EndFits
<1>6. Checking!Folded(0, d, watched) \in A
  BY <1>3, <1>5, Checking!FoldLeftInvariant
<1>7. QED
  BY <1>1, <1>2, <1>4, <1>6

LEMMA BecomesFits ==
  ASSUME IInv', NEW c \in Fit(MaxDrift), Becomes(c)
  PROVE  SInv'
<1>1. PICK d : d = cache'
  OBVIOUS
<1>2. d \in GoodCache
  BY <1>1 DEF IInv
<1>3. c \in Tidy(MaxDrift) /\ c \in CacheRecord
  BY FitType
<1>4. SameHeld(c, d)
  BY <1>1, <1>3 DEF Becomes, SameHeld, CacheRecord
<1>5. d \in Fit(MaxDrift)
  BY <1>2, <1>3, <1>4, SameHeldTidy
<1>6. QED
  BY <1>1, <1>5 DEF SInv

LEMMA CallFits ==
  ASSUME IInv', NEW r \in Fits(MaxDrift), Call(r)
  PROVE  SInv'
BY BecomesFits DEF Call, Fits

LEMMA ExecFits ==
  ASSUME IInv, IInv', SInv, NEW s \in Session, NEW d \in Nat, Exec(s, d)
  PROVE  SInv'
<1>1. cache \in GoodCache
  BY DEF IInv
<1>2. PICK checked : checked = FoldLeft(CheckNext, Done(cache), tx[s].watched)
  OBVIOUS
<1>3. checked \in Outcomes(cache) /\ checked \in Fits(MaxDrift)
  BY <1>1, <1>2, WatchedType, CheckingAdvances, CheckingFits DEF IInv, SInv
<1>4. checked.cache \in GoodCache /\ checked.cache \in Fit(MaxDrift)
  BY <1>3 DEF Outcomes, Advanced, Fits
<1>5. PICK start : start = Later(checked.cache, d)
  OBVIOUS
<1>6. start \in GoodCache /\ start \in Fit(MaxDrift)
  BY <1>4, <1>5, FitType, LaterFits
<1>7. PICK ran : ran = FoldLeft(ApplyNext, Done(start), tx[s].queue)
  OBVIOUS
<1>8. ran \in Outcomes(start) /\ ran \in Fits(MaxDrift)
  BY <1>6, <1>7, WatchedType, ApplyingAdvances, ApplyingFits DEF IInv
<1>9. PICK applied : applied = Atomic(start, ran)
  OBVIOUS
<1>10. applied.cache \in Fit(MaxDrift)
  BY <1>6, <1>8, <1>9, AtomicFits DEF Fits
<1>11. PICK result :
         result = IF checked.ok THEN applied.cache ELSE checked.cache
  OBVIOUS
<1>12. Becomes(result)
  BY <1>2, <1>5, <1>7, <1>9, <1>11, Zenon DEF Exec
<1>13. QED
  BY <1>4, <1>10, <1>11, <1>12, BecomesFits

LEMMA StoreStep ==
  ASSUME IInv, IInv', SInv, Next
  PROVE  SInv'
<1>1. cache \in Fit(MaxDrift) /\ cache \in GoodCache
  BY DEF IInv, SInv
<1>2. CASE Tick
  <2>1. Later(cache, 1) \in Fit(MaxDrift)
    BY <1>1, FitType, LaterFits
  <2>2. QED
    BY <1>2, <2>1 DEF Tick, SInv
<1>3. ASSUME NEW k \in Key, DoGet(k) \/ DoDel(k) \/ DoTTL(k) \/ DoPersist(k)
      PROVE  SInv'
  BY <1>1, <1>3, CallFits, GetFits, DelFits, TTLFits, PersistFits
     DEF DoGet, DoDel, DoTTL, DoPersist
<1>4. ASSUME NEW k \in Key, NEW v \in Value, NEW ttl \in TTLArgument,
             NEW d \in Drift, DoSet(k, v, ttl, d)
      PROVE  SInv'
  <2>1. ttl \in Nat \cup {None} /\ d \in Nat
    BY InputAssumption, DriftType DEF TTLArgument
  <2>2. QED
    BY <1>1, <1>4, <2>1, CallFits, SetFits DEF DoSet
<1>5. ASSUME NEW batch \in Batch, NEW d \in Drift, DoMSet(batch, d)
      PROVE  SInv'
  <2>1. d \in Nat /\ batch \in Seq(BatchEntry)
    BY InputAssumption, DriftType
  <2>2. QED
    BY <1>1, <1>5, <2>1, CallFits, MSetFits DEF DoMSet
<1>6. ASSUME NEW k \in Key, NEW by \in Delta, NEW d \in Drift, DoIncr(k, by, d)
      PROVE  SInv'
  <2>1. by \in Int /\ d \in 0 .. MaxDrift /\ MaxDrift \in Nat
    BY InputAssumption, DriftBound
  <2>2. Incr(cache, k, by, d) \in Fits(MaxDrift)
    BY <1>1, <2>1, IncrFits
  <2>3. QED
    BY <1>6, <2>2, CallFits DEF DoIncr
<1>7. ASSUME NEW k \in Key, NEW old \in Value \cup {None}, NEW v \in Value,
             NEW ttl \in TTLArgument, NEW d \in Drift, DoCas(k, old, v, ttl, d)
      PROVE  SInv'
  <2>1. ttl \in Nat \cup {None} /\ d \in Nat
    BY InputAssumption, DriftType DEF TTLArgument
  <2>2. QED
    BY <1>1, <1>7, <2>1, CallFits, CasFits DEF DoCas
<1>8. ASSUME NEW k \in Key, NEW ttl \in Span, NEW d \in Drift,
             DoExpire(k, ttl, d)
      PROVE  SInv'
  <2>1. ttl \in Nat /\ d \in Nat
    BY InputAssumption, DriftType
  <2>2. QED
    BY <1>1, <1>8, <2>1, CallFits, ExpireFits DEF DoExpire
<1>9. ASSUME NEW k \in Key, NEW at \in 0 .. MaxTime, NEW d \in Drift,
             DoExpireAt(k, at, d)
      PROVE  SInv'
  <2>1. at \in Nat /\ d \in Nat
    BY InputAssumption, DriftType
  <2>2. QED
    BY <1>1, <1>9, <2>1, CallFits, ExpireAtFits DEF DoExpireAt
<1>10. ASSUME NEW ns \in Namespace, DoClearPrefix(ns)
       PROVE  SInv'
  BY <1>1, <1>10, CallFits, ClearPrefixFits DEF DoClearPrefix
<1>11. CASE DoClear
  BY <1>1, <1>11, CallFits, ClearFits DEF DoClear
<1>12. CASE DoSweep
  BY <1>1, <1>12, CallFits, SweepFits DEF DoSweep
<1>13. ASSUME NEW image \in Image, DoRestore(image) \/ DoReplace(image)
       PROVE  SInv'
  <2>1. image \in Seq(SetRecordArgument)
    BY InputAssumption DEF ImageEntry, SetRecordArgument
  <2>2. /\ Restore(cache, image) \in Fits(MaxDrift)
        /\ Replace(cache, image) \in Fits(MaxDrift)
    BY <1>1, <2>1, RestoreFits, ReplaceFits
  <2>3. QED
    BY <1>13, <2>2, CallFits DEF DoRestore, DoReplace
<1>14. ASSUME NEW s \in Session, NEW k \in Key, Watch(s, k)
       PROVE  SInv'
  BY <1>1, <1>14, ReapFits, BecomesFits DEF Watch
<1>15. ASSUME NEW s \in Session, NEW k \in Key, Read(s, k)
       PROVE  SInv'
  BY <1>1, <1>15, CallFits, GetFits DEF Read
<1>16. ASSUME NEW s \in Session, NEW d \in Drift, Exec(s, d)
       PROVE  SInv'
  BY <1>16, ExecFits, DriftType
<1>17. ASSUME NEW s \in Session,
              \/ Multi(s) \/ Unwatch(s) \/ Discard(s)
              \/ \E op \in QueuedOp : Queue(s, op)
       PROVE  SInv'
  BY <1>17 DEF Multi, Unwatch, Discard, Queue, SInv
<1>18. QED
  BY <1>2, <1>3, <1>4, <1>5, <1>6, <1>7, <1>8, <1>9, <1>10, <1>11, <1>12,
     <1>13, <1>14, <1>15, <1>16, <1>17 DEF Next

LEMMA InitFits == Init => SInv
<1>1. SUFFICES ASSUME Init PROVE cache \in Fit(MaxDrift)
  BY DEF SInv
<1>2. PICK c : c = cache
  OBVIOUS
<1>3. c \in GoodCache /\ c \in CacheRecord
  BY <1>1, <1>2, InitInvariant DEF IInv, GoodCache
<1>4. PICK empty : empty = <<>>
  OBVIOUS
<1>5. /\ c.order = empty /\ c.versionOrder = empty /\ c.entry = NoEntry
      /\ c.bytes = 0 /\ \A k \in Key : c.version[k] = 0
  BY <1>1, <1>2, <1>4 DEF Init, EmptyCache
<1>6. \A k \in Key : ~ Has(c, k)
  BY <1>5 DEF Has, NoEntry
<1>7. Present(c) = {} /\ Versioned(c) = {}
  BY <1>5, <1>6 DEF Present, Versioned
<1>8. Enumerates(empty, {}) /\ Len(empty) = 0
  <2>1. empty \in Seq(Key) /\ Len(empty) = 0
    BY <1>4
  <2>2. ToSet(empty) = {}
    BY <2>1, EnumeratedIsFinite
  <2>3. \A i, j \in 1 .. Len(empty) : empty[i] = empty[j] => i = j
    BY <2>1
  <2>4. IsInjective(empty)
    BY <2>1, <2>3, InjectiveElements
  <2>5. QED
    BY <2>1, <2>2, <2>4 DEF Enumerates
<1>9. StoredSize(c) = 0
  BY <1>7, NothingStored
<1>10. c \in Stored(MaxDrift)
  <2>1. Enumerates(c.order, Present(c)) /\ Enumerates(c.versionOrder, Versioned(c))
    BY <1>5, <1>7, <1>8, Zenon
  <2>2. StoredSize(c) = c.bytes /\ StoredSize(c) <= c.bytes
    BY <1>5, <1>9
  <2>3. QED
    BY <1>3, <2>1, <2>2 DEF Stored
<1>11. Len(c.versionOrder) <= VersionLimit
  BY <1>5, <1>8, CacheAssumption DEF VersionLimit
<1>12. c \in Tidy(MaxDrift)
  BY <1>6, <1>10, <1>11 DEF Tidy
<1>13. Len(c.order) = 0
  BY <1>5, <1>8
<1>14. c \in Fit(MaxDrift)
  BY <1>12, <1>13 DEF Fit
<1>15. QED
  BY <1>2, <1>14

LEMMA TotalIsStored == TotalSize = StoredSize(cache)
BY Zenon DEF TotalSize, StoredSize, Present

LEMMA StoreInvariantHolds == Spec => [](IInv /\ SInv)
<1>1. IInv /\ SInv /\ [Next]_vars => (IInv /\ SInv)'
  <2>1. SUFFICES ASSUME IInv, SInv, [Next]_vars PROVE IInv' /\ SInv'
    OBVIOUS
  <2>2. IInv'
    BY <2>1, NextStep, StutterStep
  <2>3. CASE Next
    BY <2>1, <2>2, <2>3, StoreStep
  <2>4. CASE UNCHANGED vars
    BY <2>1, <2>2, <2>4 DEF vars, SInv
  <2>5. QED
    BY <2>1, <2>2, <2>3, <2>4
<1>2. QED
  BY InitInvariant, InitFits, <1>1, PTL DEF Spec

(* The list of the map names exactly the present keys, that of the version *)
(* table exactly the keys with a version, each once, and a present key has *)
(* one, after any calls, throws, rollbacks, evictions and prunes.          *)
THEOREM ListsAlwaysAgree == Spec => []ListsAgree
<1>1. SInv => ListsAgree
  BY DEF SInv, Fit, Tidy, Stored, ListsAgree, Lists, Enumerates, Present,
     Versioned
<1>2. QED
  BY <1>1, StoreInvariantHolds, PTL

(* The version table never holds more than its limit, whatever keys come   *)
(* and go.                                                                 *)
THEOREM VersionTableNeverGrows == Spec => []VersionTableBounded
<1>1. SInv => VersionTableBounded
  BY FitBoundsVersions DEF SInv, VersionTableBounded
<1>2. QED
  BY <1>1, StoreInvariantHolds, PTL

(* However long a call takes, it returns with no more stored than the      *)
(* limits allow and no more than is counted.                               *)
THEOREM StoreNeverOverfull == Spec => []StoreFits
<1>1. SInv => StoreFits
  <2>1. SUFFICES ASSUME SInv PROVE StoreFits
    OBVIOUS
  <2>2. PICK c : c = cache
    OBVIOUS
  <2>3. c \in Fit(MaxDrift)
    BY <2>1, <2>2 DEF SInv
  <2>4. c \in Stored(MaxDrift) /\ c \in CacheRecord /\ Len(c.order) <= MaxEntries
    BY <2>3, FitType, FitBoundsVersions
  <2>5. /\ Enumerates(c.order, Present(c))
        /\ StoredSize(c) <= c.bytes
        /\ c.bytes \in Int /\ StoredSize(c) \in Nat
    BY <2>4, StoredSizeSplits DEF Stored, CacheRecord
  <2>6. StoredSize(c) <= MaxBytes
    <3>1. CASE OverCapacity(c)
      <4>1. Len(c.order) = 0
        BY <2>3, <3>1 DEF Fit
      <4>2. c.order \in Seq(Key)
        BY <2>4 DEF CacheRecord
      <4>3. ToSet(c.order) = {}
        BY <4>1, <4>2, EnumeratedIsFinite
      <4>4. Present(c) = {}
        BY <4>3, <2>5 DEF Enumerates
      <4>5. QED
        BY <4>4, NothingStored, CacheAssumption
    <3>2. CASE ~ OverCapacity(c)
      BY <2>5, <3>2, CacheAssumption DEF OverCapacity
    <3>3. QED
      BY <3>1, <3>2
  <2>7. TotalSize = StoredSize(c)
    BY <2>2, TotalIsStored, Zenon
  <2>8. QED
    BY <2>2, <2>4, <2>5, <2>6, <2>7 DEF StoreFits
<1>2. QED
  BY <1>1, StoreInvariantHolds, PTL

(* If no time passes within a call, the running byte total is the size of  *)
(* what is stored.  The condition is needed: an INCR whose entry expires   *)
(* while it runs counts the old size for ever (run incr_leak).          *)
THEOREM BytesStayExact ==
  ASSUME MaxDrift = 0
  PROVE  Spec => []BytesExact
<1>1. SInv => BytesExact
  <2>1. SUFFICES ASSUME SInv PROVE BytesExact
    OBVIOUS
  <2>2. PICK c : c = cache
    OBVIOUS
  <2>3. c \in Stored(MaxDrift)
    BY <2>1, <2>2, FitType DEF SInv
  <2>4. StoredSize(c) = c.bytes
    BY <2>3 DEF Stored
  <2>5. TotalSize = StoredSize(c)
    BY <2>2, TotalIsStored, Zenon
  <2>6. QED
    BY <2>2, <2>4, <2>5 DEF BytesExact
<1>2. QED
  BY <1>1, StoreInvariantHolds, PTL


LEMMA ExactStore ==
  ASSUME MaxDrift = 0, SInv
  PROVE  cache \in Fit(0)
BY DEF SInv

(* If no time passes within a call, a write that is accepted is there when *)
(* the call returns: however many entries it has to evict, it never evicts *)
(* itself, because the bytes counted are then those of other entries.      *)
THEOREM WritesStay ==
  ASSUME MaxDrift = 0
  PROVE  Spec => []AcceptedWriteStays
<1>1. SInv => AcceptedWriteStays
  <2>1. SUFFICES ASSUME SInv,
                        NEW k \in Key, NEW v \in Value, NEW ttl \in TTLArgument
                 PROVE  LET r == Set(cache, k, v, ttl, 0)
                        IN  r.ok /\ ResolveTTL(cache, k, ttl) # cache.now =>
                              Has(r.cache, k) /\ r.cache.entry[k].value = v
    BY DEF AcceptedWriteStays
  <2>2. PICK c \in Fit(0) : c = cache
    BY <2>1, ExactStore
  <2>3. PICK r : r = Set(c, k, v, ttl, 0)
    OBVIOUS
  <2>4. PICK at : at = ResolveTTL(c, k, ttl)
    OBVIOUS
  <2>5. ttl \in Nat \cup {None}
    BY InputAssumption DEF TTLArgument
  <2>6. ASSUME r.ok, at # c.now
        PROVE  Has(r.cache, k) /\ r.cache.entry[k].value = v
    <3>1. PICK e : e = EntryOf(k, v, at)
      OBVIOUS
    <3>2. PICK seq \in Seq(Key), m \in Nat : Wrote(c, k, e, seq, m, r.cache)
      BY <2>3, <2>4, <2>5, <2>6, <3>1, SetWrites
    <3>3. e # None /\ e.value = v
      BY <2>4, <2>5, <3>1, FitType, ResolveTTLType, EntryOfType,
         EntryAssumption DEF EntryOf
    <3>4. PICK i \in 1 .. Len(seq) : i = Len(seq) /\ seq[i] = k
      <4>1. c.order \in Seq(Key)
        BY FitType
      <4>2. PICK w \in Seq(Key) : w = RemoveFirst(c.order, k)
        BY <4>1, RemoveFirstKeeps
      <4>3. seq = Append(w, k)
        BY <3>2, <4>2 DEF Wrote
      <4>4. QED
        BY <4>3
    <3>5. r.cache.entry[k] = e
      BY <3>2, <3>4 DEF Wrote
    <3>6. QED
      BY <3>3, <3>5 DEF Has
  <2>7. QED
    BY <2>2, <2>3, <2>4, <2>6
<1>2. QED
  BY <1>1, StoreInvariantHolds, PTL


LEMMA PositionOf ==
  ASSUME NEW i \in 1 .. Len(cache.order), cache.order \in Seq(Key),
         IsInjective(cache.order)
  PROVE  Position(cache.order[i]) = i
<1>1. PICK s : s = cache.order
  OBVIOUS
<1>2. DOMAIN s = 1 .. Len(s) /\ \A a, b \in 1 .. Len(s) : s[a] = s[b] => a = b
  BY <1>1, InjectiveElements
<1>3. i \in DOMAIN s
  BY <1>1, <1>2
<1>4. PICK p : p = CHOOSE j \in DOMAIN s : s[j] = s[i]
  OBVIOUS
<1>5. p \in DOMAIN s /\ s[p] = s[i]
  BY <1>3, <1>4
<1>6. p = i
  BY <1>1, <1>2, <1>5
<1>7. QED
  BY <1>1, <1>4, <1>6 DEF Position

LEMMA BeforeByPosition ==
  ASSUME NEW a, NEW b, Before(cache.order, a, b),
         cache.order \in Seq(Key), IsInjective(cache.order)
  PROVE  Position(a) < Position(b)
<1>1. PICK i, j \in 1 .. Len(cache.order) :
        i < j /\ cache.order[i] = a /\ cache.order[j] = b
  BY DEF Before
<1>2. Position(a) = i /\ Position(b) = j
  BY <1>1, PositionOf
<1>3. QED
  BY <1>1, <1>2

(* What a write takes it takes from the front of the list, and the last    *)
(* key taken would not have fitted.                                        *)
LEMMA WroteEvictsOldest ==
  ASSUME NEW k \in Key, NEW e \in EntryRecord, NEW seq \in Seq(Key),
         NEW m \in Nat, NEW r, cache \in Fit(0),
         Wrote(cache, k, e, seq, m, r),
         NEW b \in Victims(r, k)
  PROVE  /\ \A o \in Key \ {k} :
              Has(r, o) /\ Has(cache, o) => Position(b) < Position(o)
         /\ (\A o \in Victims(r, k) : Position(o) <= Position(b)) =>
              \/ Len(r.order) = MaxEntries
              \/ r.bytes + cache.entry[b].size > MaxBytes
<1>1. PICK s : s = cache.order
  OBVIOUS
<1>2. /\ s \in Seq(Key) /\ cache.order \in Seq(Key) /\ Len(s) \in Nat
      /\ IsInjective(cache.order) /\ ToSet(s) = Present(cache)
  BY <1>1, FitType DEF Stored, Enumerates
<1>3. seq = Append(RemoveFirst(s, k), k)
  BY <1>1 DEF Wrote
<1>4. PICK n \in Nat : n = Len(seq)
  OBVIOUS
<1>5. /\ m < n /\ n \in 1 .. n
      /\ DOMAIN seq = 1 .. n /\ \A i \in 1 .. n : seq[i] \in Key
  BY <1>4 DEF Wrote
<1>6. seq[n] = k
  <2>1. PICK w \in Seq(Key) : w = RemoveFirst(s, k)
    BY <1>2, RemoveFirstKeeps
  <2>2. seq = Append(w, k)
    BY <1>3, <2>1
  <2>3. QED
    BY <1>4, <2>2
<1>7. /\ \A i, j \in 1 .. n : seq[i] = seq[j] => i = j
      /\ \A a \in Key : Has(cache, a) \/ a = k => \E i \in 1 .. n : seq[i] = a
      /\ \A i \in 1 .. n : seq[i] # k => Has(cache, seq[i])
  <2>1. IsInjective(seq) /\ ToSet(seq) = Present(cache) \cup {k}
    BY DEF Wrote, Enumerates
  <2>2. QED
    BY <1>4, <1>5, <2>1, InjectiveElements, InToSet DEF Present
<1>8. \A i \in 1 .. n : i <= m => ~ Has(r, seq[i])
  BY <1>4 DEF Wrote, Has
<1>9. \A i \in 1 .. n : i > m /\ seq[i] # k => Has(r, seq[i])
  BY <1>4, <1>7 DEF Wrote, Has
<1>10. b \in Key /\ b # k /\ Has(cache, b) /\ ~ Has(r, b)
  BY DEF Victims
<1>11. PICK i \in 1 .. n : seq[i] = b
  BY <1>7, <1>10
<1>12. i <= m
  BY <1>5, <1>9, <1>10, <1>11
<1>13. \A j \in 1 .. n : i < j /\ seq[j] # k =>
         Position(b) < Position(seq[j])
  <2>1. SUFFICES ASSUME NEW j \in 1 .. n, i < j, seq[j] # k
                 PROVE  Position(b) < Position(seq[j])
    OBVIOUS
  <2>2. Before(s, seq[i], seq[j])
    BY <1>2, <1>3, <1>4, <1>10, <1>11, <2>1, MoveToEndKeepsOrder
  <2>3. QED
    BY <1>1, <1>2, <1>11, <2>2, BeforeByPosition
<1>14. ASSUME NEW o \in Key \ {k}, Has(r, o), Has(cache, o)
       PROVE  Position(b) < Position(o)
  <2>1. PICK j \in 1 .. n : seq[j] = o
    BY <1>7, <1>14
  <2>2. j > m
    BY <1>5, <1>8, <1>14, <2>1
  <2>3. i < j
    BY <1>5, <1>12, <2>2
  <2>4. QED
    BY <1>13, <1>14, <2>1, <2>3
<1>15. ASSUME \A o \in Victims(r, k) : Position(o) <= Position(b)
       PROVE  \/ Len(r.order) = MaxEntries
              \/ r.bytes + cache.entry[b].size > MaxBytes
  <2>1. m \in 1 .. n
    BY <1>5, <1>11, <1>12
  <2>2. seq[m] # k
    BY <1>5, <1>6, <1>7, <2>1
  <2>3. seq[m] \in Victims(r, k)
    BY <1>5, <1>7, <1>8, <2>1, <2>2 DEF Victims
  <2>4. seq[m] = b
    <3>1. SUFFICES ASSUME i < m PROVE FALSE
      BY <1>11, <1>12, <2>1
    <3>2. Position(b) < Position(seq[m])
      BY <1>13, <2>1, <2>2, <3>1
    <3>3. Position(seq[m]) <= Position(b)
      BY <1>15, <2>3
    <3>4. Position(b) \in Nat /\ Position(seq[m]) \in Nat
      <4>1. \A a \in Key : Has(cache, a) => Position(a) \in Nat
        <5>1. SUFFICES ASSUME NEW a \in Key, Has(cache, a)
                       PROVE  Position(a) \in Nat
          OBVIOUS
        <5>2. a \in ToSet(s)
          BY <1>2, <5>1 DEF Present
        <5>3. PICK j \in 1 .. Len(s) : s[j] = a
          BY <1>2, <5>2, InToSet
        <5>4. Position(a) = j
          BY <1>1, <1>2, <5>3, PositionOf
        <5>5. QED
          BY <1>2, <5>4
      <4>2. QED
        BY <4>1, <1>5, <1>7, <1>10, <2>1, <2>2
    <3>5. QED
      BY <3>2, <3>3, <3>4
  <2>5. QED
    BY <2>1, <2>4 DEF Wrote
<1>16. QED
  BY <1>14, <1>15

(* If no time passes within a call, set() evicts in the order of last use  *)
(* and takes no key that would still have fitted.                          *)
THEOREM OldestEvictedFirst ==
  ASSUME MaxDrift = 0
  PROVE  Spec => []EvictsOldestAndNoMore
<1>1. SInv => EvictsOldestAndNoMore
  <2>1. SUFFICES ASSUME SInv,
                        NEW k \in Key, NEW v \in Value,
                        NEW ttl \in TTLArgument,
                        NEW b \in Victims(Set(cache, k, v, ttl, 0).cache, k)
                 PROVE  LET r == Set(cache, k, v, ttl, 0).cache
                        IN  /\ \A o \in Key \ {k} :
                                 Has(r, o) /\ Has(cache, o) =>
                                   Position(b) < Position(o)
                            /\ (\A o \in Victims(r, k) :
                                  Position(o) <= Position(b)) =>
                                 \/ Len(r.order) = MaxEntries
                                 \/ r.bytes + cache.entry[b].size > MaxBytes
    BY DEF EvictsOldestAndNoMore
  <2>2. cache \in Fit(0)
    BY <2>1, ExactStore
  <2>3. PICK r : r = Set(cache, k, v, ttl, 0).cache
    OBVIOUS
  <2>4. PICK at : at = ResolveTTL(cache, k, ttl)
    OBVIOUS
  <2>5. ttl \in Nat \cup {None}
    BY InputAssumption DEF TTLArgument
  <2>6. at \in Deadline
    BY <2>2, <2>4, <2>5, FitType, ResolveTTLType
  <2>7. CASE r \in {cache, Drop(cache, k)}
    <3>1. \A o \in Key \ {k} : r.entry[o] = cache.entry[o]
      <4>1. cache \in Tidy(0) /\ cache \in CacheRecord
        BY <2>2, FitType
      <4>2. Removes(cache, k, Drop(cache, k))
        BY <4>1, DropTidies
      <4>3. QED
        BY <2>7, <4>1, <4>2 DEF Removes, CacheRecord
    <3>2. QED
      BY <2>1, <2>3, <3>1 DEF Victims, Has
  <2>8. CASE \E seq \in Seq(Key), m \in Nat :
               Wrote(cache, k, EntryOf(k, v, at), seq, m, r)
    <3>1. PICK seq \in Seq(Key), m \in Nat :
                 Wrote(cache, k, EntryOf(k, v, at), seq, m, r)
      BY <2>8
    <3>2. PICK e \in EntryRecord : e = EntryOf(k, v, at)
      BY <2>6, EntryOfType
    <3>3. QED
      BY <2>1, <2>2, <2>3, <3>1, <3>2, WroteEvictsOldest
  <2>9. QED
    BY <2>2, <2>3, <2>4, <2>5, <2>7, <2>8, SetWrites
<1>2. QED
  BY <1>1, StoreInvariantHolds, PTL

-----------------------------------------------------------------------------
(***************************************************************************)
(* Refinement: KVCache implements OptimisticStore, for every value of its  *)
(* constants.  EXEC commits only while no watched key has changed, an      *)
(* aborted EXEC touches nothing but expired entries it was watching, and a *)
(* failed one leaves every entry as it was.                                *)
(*                                                                         *)
(* The argument is about the loop that compares versions.  A watched       *)
(* version is never ahead of the key's (WatchSound), and versions only     *)
(* rise while the loop runs.  So a comparison that succeeds shows that the *)
(* key has not changed since it was watched; and one that removes an       *)
(* expired entry fails, so that a loop which succeeds changed nothing.     *)
(***************************************************************************)

(* What the abstract store needs to know of the sessions besides IInv.     *)
SessionsTidy ==
  \A s \in Session :
    /\ stale[s] \subseteq Watched(s)
    /\ ~ IsOpen(s) => tx[s].watched = <<>>

-----------------------------------------------------------------------------
(* Which entries the calls can change.                                     *)

LEMMA ReapTouches ==
  ASSUME NEW c \in GoodCache, NEW k \in Key
  PROVE  /\ \A j \in Key \ {k} : Reap(c, k).entry[j] = c.entry[j]
         /\ \/ Reap(c, k) = c
            \/ Version(c, k) < Version(Reap(c, k), k)
<1>1. CASE Has(c, k) /\ IsExpired(c.entry[k], c.now)
  <2>1. PICK u : u = Without(c, k)
    OBVIOUS
  <2>2. Edits(c, k, u) /\ u \in GoodCache
    BY <2>1, WithoutEdits DEF Edits
  <2>3. PICK d : d = BumpVersion(u, k)
    OBVIOUS
  <2>4. d \in AfterBump(u, k)
    BY <2>2, <2>3, BumpVersionBumps
  <2>5. d \in CacheRecord /\ c \in CacheRecord
    BY <2>4 DEF AfterBump, GoodCache
  <2>6. PICK e : e = [d EXCEPT !.expired = @ \cup {k}]
    OBVIOUS
  <2>7. e = Reap(c, k)
    BY <1>1, <2>1, <2>3, <2>6 DEF Reap, RemoveExpired, Drop
  <2>8. /\ e.entry = u.entry
        /\ Version(e, k) = Version(d, k)
    BY <2>4, <2>5, <2>6 DEF AfterBump, CacheRecord, Version
  <2>9. Version(d, k) = c.generation + 1
    BY <2>2, <2>4 DEF AfterBump, Edits, SameVersions
  <2>10. Version(c, k) <= c.generation
    BY <2>5 DEF GoodCache, VersionsBounded, Version
  <2>11. Version(c, k) \in Nat /\ c.generation \in Nat
    BY <2>5, VersionType DEF CacheRecord
  <2>12. QED
    BY <2>2, <2>7, <2>8, <2>9, <2>10, <2>11 DEF Edits
<1>2. CASE ~ (Has(c, k) /\ IsExpired(c.entry[k], c.now))
  BY <1>2 DEF Reap
<1>3. QED
  BY <1>1, <1>2

(* The elements a session that is sound can have on record.                *)
SoundRecord(c, K) ==
  {w \in WatchEntry : w.key \in K /\ w.version <= Version(c, w.key)}

(* The loop changes no entry but those of the keys in K it compares, and   *)
(* none at all when it succeeds.                                           *)
CheckedFrom(c, K) ==
  {r \in Outcomes(c) :
     /\ r.ok => r.cache.entry = c.entry
     /\ \A k \in Key \ K : r.cache.entry[k] = c.entry[k]}

LEMMA CheckNextFrom ==
  ASSUME NEW c \in GoodCache, NEW K \in SUBSET Key,
         NEW r \in CheckedFrom(c, K), NEW w \in SoundRecord(c, K)
  PROVE  CheckNext(r, w) \in CheckedFrom(c, K)
<1>1. CASE ~ r.ok
  BY <1>1 DEF CheckNext
<1>2. CASE r.ok
  <2>1. PICK d : d = r.cache
    OBVIOUS
  <2>2. d \in Advanced(c) /\ d \in GoodCache
    BY <2>1 DEF CheckedFrom, Outcomes, Advanced
  <2>3. w.key \in K /\ w.key \in Key /\ w.version <= Version(c, w.key)
        /\ w.version \in Nat
    BY DEF SoundRecord, WatchEntry
  <2>4. PICK e : e = Reap(d, w.key)
    OBVIOUS
  <2>5. e \in Advanced(d) /\ e \in Advanced(c)
    BY <2>2, <2>3, <2>4, ReapAdvances, AdvancesTransitive
  <2>6. /\ \A j \in Key \ {w.key} : e.entry[j] = d.entry[j]
        /\ e = d \/ Version(d, w.key) < Version(e, w.key)
    BY <2>2, <2>3, <2>4, ReapTouches
  <2>7. PICK n : n = [ok |-> Version(e, w.key) = w.version, cache |-> e]
    OBVIOUS
  <2>8. n = CheckNext(r, w)
    BY <1>2, <2>1, <2>4, <2>7 DEF CheckNext
  <2>9. n \in Outcomes(c)
    BY <2>5, <2>7 DEF Outcomes
  <2>10. d.entry = c.entry
    BY <1>2, <2>1 DEF CheckedFrom
  <2>11. n.ok => e = d
    <3>1. c \in CacheRecord /\ d \in CacheRecord /\ e \in CacheRecord
      BY <2>2, <2>5 DEF Advanced, GoodCache
    <3>2. /\ Version(c, w.key) \in Nat
          /\ Version(d, w.key) \in Nat
          /\ Version(e, w.key) \in Nat
      BY <2>3, <3>1, VersionType
    <3>3. Version(c, w.key) <= Version(d, w.key)
      BY <2>2, <2>3 DEF Advanced, Advances
    <3>4. n.ok => Version(e, w.key) = w.version
      BY <2>7
    <3>5. PICK x, y, z, v : /\ x = Version(c, w.key) /\ y = Version(d, w.key)
                            /\ z = Version(e, w.key) /\ v = w.version
      OBVIOUS
    <3>6. v <= x /\ x <= y /\ (e = d \/ y < z) /\ (n.ok => z = v)
      BY <2>3, <2>6, <3>3, <3>4, <3>5
    <3>7. x \in Nat /\ y \in Nat /\ z \in Nat /\ v \in Nat
      BY <2>3, <3>2, <3>5
    <3>8. QED
      BY <3>6, <3>7
  <2>12. QED
    BY <2>3, <2>6, <2>7, <2>8, <2>9, <2>10, <2>11 DEF CheckedFrom
<1>3. r.ok \in BOOLEAN
  BY DEF CheckedFrom, Outcomes
<1>4. QED
  BY <1>1, <1>2, <1>3

LEMMA CheckingFold ==
  ASSUME NEW c, NEW watched
  PROVE  FoldLeft(CheckNext, Done(c), watched)
           = Checking!Folded(0, Done(c), watched)
BY Zenon DEF CheckOp, Checking!Folded, FoldLeft,
   Checking!MapThenFoldSet, MapThenFoldSet, Checking!Top, Max

LEMMA CheckingTouches ==
  ASSUME NEW c \in GoodCache, NEW K \in SUBSET Key,
         NEW watched \in Seq(SoundRecord(c, K))
  PROVE  FoldLeft(CheckNext, Done(c), watched) \in CheckedFrom(c, K)
<1>1. PICK A : A = CheckedFrom(c, K)
  OBVIOUS
<1>2. PICK B : B = SoundRecord(c, K)
  OBVIOUS
<1>3. \A r \in A, w \in B : CheckOp(0, r, w) \in A
  BY <1>1, <1>2, CheckNextFrom DEF CheckOp
<1>4. PICK d : d = Done(c)
  OBVIOUS
<1>5. d \in A
  BY <1>1, <1>4, AdvancesReflexive, EndOutcome DEF CheckedFrom, Done
<1>6. Checking!Folded(0, d, watched) \in A
  BY <1>2, <1>3, <1>5, Checking!FoldLeftInvariant
<1>7. QED
  BY <1>1, <1>4, <1>6, CheckingFold

LEMMA CheckNextAdvances ==
  ASSUME NEW c \in GoodCache, NEW r \in Outcomes(c), NEW w \in WatchEntry
  PROVE  /\ CheckNext(r, w) \in Outcomes(c)
         /\ ~ r.ok => ~ CheckNext(r, w).ok
         /\ w.version < Version(c, w.key) => ~ CheckNext(r, w).ok
<1>1. CASE ~ r.ok
  BY <1>1 DEF CheckNext
<1>2. CASE r.ok
  <2>1. PICK d : d = r.cache
    OBVIOUS
  <2>2. d \in Advanced(c) /\ d \in GoodCache /\ w.key \in Key /\ w.version \in Nat
    BY <2>1 DEF Outcomes, Advanced, WatchEntry
  <2>3. PICK e : e = Reap(d, w.key)
    OBVIOUS
  <2>4. e \in Advanced(c)
    BY <2>2, <2>3, ReapAdvances, AdvancesTransitive
  <2>5. PICK n : n = [ok |-> Version(e, w.key) = w.version, cache |-> e]
    OBVIOUS
  <2>6. n = CheckNext(r, w)
    BY <1>2, <2>1, <2>3, <2>5 DEF CheckNext
  <2>7. n \in Outcomes(c)
    BY <2>4, <2>5 DEF Outcomes
  <2>8. w.version < Version(c, w.key) => Version(e, w.key) # w.version
    <3>1. c \in CacheRecord /\ e \in CacheRecord
      BY <2>4 DEF Advanced, GoodCache
    <3>2. Version(c, w.key) \in Nat /\ Version(e, w.key) \in Nat
      BY <2>2, <3>1, VersionType
    <3>3. Version(c, w.key) <= Version(e, w.key)
      BY <2>2, <2>4 DEF Advanced, Advances
    <3>4. QED
      BY <2>2, <3>2, <3>3
  <2>9. n.ok => Version(e, w.key) = w.version
    BY <2>5
  <2>10. QED
    BY <1>2, <2>6, <2>7, <2>8, <2>9
<1>3. r.ok \in BOOLEAN
  BY DEF Outcomes
<1>4. QED
  BY <1>1, <1>2, <1>3

(* A loop that compares a key that moved on does not succeed.              *)
LEMMA CheckingNotices ==
  ASSUME NEW c \in GoodCache, NEW watched \in Seq(WatchEntry),
         NEW m \in DOMAIN watched,
         watched[m].version < Version(c, watched[m].key)
  PROVE  ~ FoldLeft(CheckNext, Done(c), watched).ok
<1>1. PICK n : n = Len(watched)
  OBVIOUS
<1>2. n \in Nat /\ DOMAIN watched = 1 .. n
  BY <1>1
<1>3. PICK base : base = Done(c)
  OBVIOUS
<1>4. PICK r : /\ r[0] = base
               /\ \A i \in 1 .. n : r[i] = CheckOp(0, r[i - 1], watched[i])
               /\ r[n] = Checking!Folded(0, base, watched)
  <2>1. PICK p : p = 0
    OBVIOUS
  <2>2. \E r :
          /\ r[0] = base
          /\ \A i \in 1 .. n : r[i] = CheckOp(p, r[i - 1], watched[i])
          /\ r[n] = Checking!Folded(p, base, watched)
    BY <1>2, Checking!FoldLeftRun
  <2>3. QED
    BY <2>1, <2>2, Zenon
<1>5. PICK A : A = Outcomes(c)
  OBVIOUS
<1> DEFINE G == {i \in Nat : i <= n => r[i] \in A /\ (m <= i => ~ r[i].ok)}
<1>6. 0 \in G
  <2>1. base \in A
    BY <1>3, <1>5, AdvancesReflexive, EndOutcome
  <2>2. QED
    BY <1>2, <1>4, <2>1
<1>7. ASSUME NEW i \in Nat, i \in G PROVE i + 1 \in G
  <2> SUFFICES ASSUME i + 1 <= n
               PROVE  r[i + 1] \in A /\ (m <= i + 1 => ~ r[i + 1].ok)
    OBVIOUS
  <2>1. i + 1 \in 1 .. n
    BY <1>2
  <2>2. r[i + 1] = CheckNext(r[i], watched[i + 1])
    BY <2>1, <1>4 DEF CheckOp
  <2>3. r[i] \in A /\ (m <= i => ~ r[i].ok)
    BY <1>2, <1>7
  <2>4. watched[i + 1] \in WatchEntry
    BY <1>2, <2>1
  <2>5. /\ r[i + 1] \in A
        /\ ~ r[i].ok => ~ r[i + 1].ok
        /\ watched[i + 1].version < Version(c, watched[i + 1].key) =>
             ~ r[i + 1].ok
    BY <1>5, <2>2, <2>3, <2>4, CheckNextAdvances
  <2>6. CASE m = i + 1
    BY <2>5, <2>6
  <2>7. CASE m # i + 1
    BY <1>2, <2>3, <2>5, <2>7
  <2>8. QED
    BY <2>6, <2>7
<1> HIDE DEF G
<1>8. Nat \subseteq G
  BY <1>6, <1>7, SetInduction
<1>9. ~ r[n].ok
  BY <1>2, <1>8 DEF G
<1>10. QED
  BY <1>3, <1>4, <1>9, CheckingFold

-----------------------------------------------------------------------------
(* The sessions that only look on learn what was touched.                  *)

LEMMA EntryType ==
  ASSUME IInv
  PROVE  /\ cache.entry \in [Key -> EntryRecord \cup {None}]
         /\ cache' \in Advanced(cache) =>
              cache'.entry \in [Key -> EntryRecord \cup {None}]
<1>1. cache \in CacheRecord
  BY DEF IInv, GoodCache
<1>2. cache' \in Advanced(cache) => cache' \in CacheRecord
  BY DEF Advanced, GoodCache
<1>3. QED
  BY <1>1, <1>2 DEF CacheRecord

LEMMA SpoiledIsTouched ==
  ASSUME NEW c, cache'.entry = c.entry, NEW s \in Session
  PROVE  Spoiled(c)[s] = stale[s] \cup (Abstract!Touched \cap Watched(s))
BY DEF Spoiled, Touched, Abstract!Touched

LEMMA CallRefines ==
  ASSUME IInv, SessionsTidy, NEW r \in Outcomes(cache), Call(r)
  PROVE  Abstract!Change /\ SessionsTidy'
<1>1. r.cache \in Advanced(cache) /\ cache \in GoodCache /\ cache.expired = {}
  BY DEF Outcomes, IInv
<1>2. cache' \in Advanced(cache) /\ cache'.entry = r.cache.entry
  BY <1>1, BecomesAdvances DEF Call
<1>3. /\ stale' = Spoiled(r.cache) /\ tx' = tx
      /\ stale' \in [Session -> SUBSET Key]
  BY StaleType DEF Call
<1>4. \A s \in Session :
        stale'[s] = stale[s] \cup (Abstract!Touched \cap Watched(s))
  BY <1>2, <1>3, SpoiledIsTouched
<1>5. \A s \in Session : Watched(s)' = Watched(s) /\ IsOpen(s)' = IsOpen(s)
  BY <1>3 DEF Watched, IsOpen
<1>6. SessionsTidy'
  BY <1>3, <1>4, <1>5 DEF SessionsTidy
<1>7. Abstract!Spoil(Session)
  BY <1>4 DEF Abstract!Spoil
<1>8. UNCHANGED <<[s \in Session |-> Watched(s)],
                  [s \in Session |-> tx[s].outcome]>>
  BY <1>3, <1>5
<1>9. QED
  BY <1>2, <1>3, <1>6, <1>7, <1>8, EntryType DEF Abstract!Change

LEMMA TickRefines ==
  ASSUME IInv, SessionsTidy, Tick
  PROVE  UNCHANGED Abstract!vars /\ SessionsTidy'
<1>1. cache'.entry = cache.entry /\ tx' = tx /\ stale' = stale
  BY DEF Tick, Later, IInv, GoodCache, CacheRecord
<1>2. \A s \in Session : Watched(s)' = Watched(s) /\ IsOpen(s)' = IsOpen(s)
  BY <1>1 DEF Watched, IsOpen
<1>3. QED
  BY <1>1, <1>2 DEF SessionsTidy, Abstract!vars

-----------------------------------------------------------------------------
(* The steps of a session.                                                 *)

(* Session s goes on with record t, whose outcome is o and whose watched   *)
(* keys are W, and the others keep theirs.                                 *)
GoesOn(s, t, o, W) ==
  /\ tx'[s] = t
  /\ [p \in Session |-> tx'[p].outcome] =
       [[p \in Session |-> tx[p].outcome] EXCEPT ![s] = o]
  /\ [p \in Session |-> Watched(p)'] =
       [[p \in Session |-> Watched(p)] EXCEPT ![s] = W]
  /\ \A p \in Session \ {s} : /\ Watched(p)' = Watched(p)
                              /\ IsOpen(p)' = IsOpen(p)
                              /\ tx'[p] = tx[p]
  /\ Watched(s)' = W

LEMMA OwnRecord ==
  ASSUME IInv, NEW s \in Session, NEW t, tx' = [tx EXCEPT ![s] = t],
         NEW o, o = t.outcome,
         NEW W, W = {t.watched[i].key : i \in DOMAIN t.watched}
  PROVE  GoesOn(s, t, o, W)
<1>1. tx \in [Session -> Transaction]
  BY DEF IInv, TypeOK
<1>2. tx'[s] = t /\ \A p \in Session \ {s} : tx'[p] = tx[p]
  BY <1>1
<1>3. /\ Watched(s)' = W
      /\ \A p \in Session \ {s} : /\ Watched(p)' = Watched(p)
                                  /\ IsOpen(p)' = IsOpen(p)
  BY <1>2 DEF Watched, IsOpen
<1>4. [p \in Session |-> tx'[p].outcome] =
        [[p \in Session |-> tx[p].outcome] EXCEPT ![s] = o]
  <2>1. PICK f : f = [p \in Session |-> tx[p].outcome]
    OBVIOUS
  <2>2. PICK g : g = [p \in Session |-> tx'[p].outcome]
    OBVIOUS
  <2>3. g[s] = o /\ \A p \in Session \ {s} : g[p] = f[p]
    BY <1>2, <2>1, <2>2
  <2>4. g = [f EXCEPT ![s] = o]
    BY <2>1, <2>2, <2>3
  <2>5. QED
    BY <2>1, <2>2, <2>4
<1>5. [p \in Session |-> Watched(p)'] =
        [[p \in Session |-> Watched(p)] EXCEPT ![s] = W]
  BY <1>3
<1>6. QED
  BY <1>2, <1>3, <1>4, <1>5 DEF GoesOn

LEMMA FinishedFields ==
  ASSUME NEW o
  PROVE  /\ Finished(o).outcome = o
         /\ Finished(o).watched = <<>>
         /\ {Finished(o).watched[i].key : i \in DOMAIN Finished(o).watched} = {}
BY DEF Finished

LEMMA MultiRefines ==
  ASSUME IInv, SessionsTidy, NEW s \in Session, Multi(s)
  PROVE  Abstract!Begin(s) /\ SessionsTidy'
<1>1. /\ ~ IsOpen(s) /\ tx' = [tx EXCEPT ![s] = Finished("open")]
      /\ UNCHANGED <<cache, stale>>
  BY DEF Multi
<1>2. Watched(s) = {} /\ stale[s] = {}
  BY <1>1 DEF SessionsTidy, Watched
<1>3. PICK t : t = Finished("open")
  OBVIOUS
<1>4. t.outcome = "open" /\ {t.watched[i].key : i \in DOMAIN t.watched} = {}
  BY <1>3, FinishedFields
<1>5. GoesOn(s, t, "open", {})
  BY <1>1, <1>3, <1>4, OwnRecord
<1>6. [o \in Session |-> Watched(o)'] = [o \in Session |-> Watched(o)]
  BY <1>2, <1>5 DEF GoesOn
<1>7. SessionsTidy'
  BY <1>1, <1>2, <1>4, <1>5 DEF SessionsTidy, GoesOn, IsOpen
<1>8. QED
  BY <1>1, <1>5, <1>6, <1>7 DEF Abstract!Begin, GoesOn, IsOpen

LEMMA UnwatchRefines ==
  ASSUME IInv, SessionsTidy, NEW s \in Session, Unwatch(s)
  PROVE  Abstract!Unwatch(s) /\ SessionsTidy'
<1>1. PICK t : t = [tx[s] EXCEPT !.watched = <<>>]
  OBVIOUS
<1>2. /\ IsOpen(s) /\ tx' = [tx EXCEPT ![s] = t]
      /\ stale' = [stale EXCEPT ![s] = {}] /\ UNCHANGED cache
  BY <1>1 DEF Unwatch
<1>3. tx[s] \in Transaction /\ stale \in [Session -> SUBSET Key]
  BY DEF IInv, TypeOK
<1>4. /\ t.outcome = tx[s].outcome
      /\ {t.watched[i].key : i \in DOMAIN t.watched} = {}
  BY <1>1, <1>3 DEF Transaction
<1>5. GoesOn(s, t, tx[s].outcome, {})
  BY <1>2, <1>4, OwnRecord
<1>6. [o \in Session |-> tx'[o].outcome] = [o \in Session |-> tx[o].outcome]
  BY <1>5 DEF GoesOn
<1>7. SessionsTidy'
  BY <1>2, <1>3, <1>4, <1>5 DEF SessionsTidy, GoesOn, IsOpen
<1>8. QED
  BY <1>2, <1>5, <1>6, <1>7 DEF Abstract!Unwatch, GoesOn, IsOpen

LEMMA QueueRefines ==
  ASSUME IInv, SessionsTidy, NEW s \in Session, NEW op \in QueuedOp, Queue(s, op)
  PROVE  UNCHANGED Abstract!vars /\ SessionsTidy'
<1>1. PICK t : t = [tx[s] EXCEPT !.queue = Append(@, op)]
  OBVIOUS
<1>2. /\ tx' = [tx EXCEPT ![s] = t] /\ UNCHANGED <<cache, stale>>
  BY <1>1 DEF Queue
<1>3. tx[s] \in Transaction
  BY DEF IInv, TypeOK
<1>4. t.outcome = tx[s].outcome /\ t.watched = tx[s].watched
  BY <1>1, <1>3 DEF Transaction
<1>5. /\ tx'[s] = t
      /\ \A o \in Session \ {s} : tx'[o] = tx[o]
  BY <1>2, OwnRecord DEF GoesOn
<1>6. \A o \in Session : /\ tx'[o].outcome = tx[o].outcome
                         /\ tx'[o].watched = tx[o].watched
  BY <1>4, <1>5
<1>7. \A o \in Session : Watched(o)' = Watched(o) /\ IsOpen(o)' = IsOpen(o)
  BY <1>6 DEF Watched, IsOpen
<1>8. QED
  BY <1>2, <1>6, <1>7 DEF Abstract!vars, SessionsTidy

LEMMA DiscardRefines ==
  ASSUME IInv, SessionsTidy, NEW s \in Session, Discard(s)
  PROVE  Abstract!Discard(s) /\ SessionsTidy'
<1>1. PICK t : t = Finished("discarded")
  OBVIOUS
<1>2. /\ IsOpen(s) /\ tx' = [tx EXCEPT ![s] = t]
      /\ stale' = [stale EXCEPT ![s] = {}] /\ UNCHANGED cache
  BY <1>1 DEF Discard
<1>3. stale \in [Session -> SUBSET Key]
  BY DEF IInv, TypeOK
<1>4. /\ t.outcome = "discarded" /\ t.watched = <<>>
      /\ {t.watched[i].key : i \in DOMAIN t.watched} = {}
  BY <1>1, FinishedFields
<1>5. GoesOn(s, t, "discarded", {})
  BY <1>2, <1>4, OwnRecord
<1>6. Abstract!Touched = {}
  BY <1>2 DEF Abstract!Touched
<1>7. Abstract!Spoil(Session \ {s})
  BY <1>2, <1>3, <1>6 DEF Abstract!Spoil
<1>8. SessionsTidy'
  BY <1>2, <1>3, <1>4, <1>5 DEF SessionsTidy, GoesOn, IsOpen
<1>9. Abstract!Finish(s, "discarded")
  BY <1>2, <1>3, <1>5, <1>7 DEF Abstract!Finish, GoesOn, IsOpen
<1>10. QED
  BY <1>2, <1>3, <1>8, <1>9 DEF Abstract!Discard

KeysOf(seq) == {seq[i].key : i \in DOMAIN seq}

(* A record for k joins those of the other watched keys.                   *)
LEMMA WatchRecordKeys ==
  ASSUME NEW seq \in Seq(WatchEntry), NEW k \in Key, NEW v \in Nat,
         NEW all, all = WatchRecord(seq, k, v)
  PROVE  KeysOf(all) = KeysOf(seq) \cup {k}
<1>1. PICK e : e = [key |-> k, version |-> v]
  OBVIOUS
<1>2. CASE \E i \in DOMAIN seq : seq[i].key = k
  <2>1. PICK new : new = [i \in DOMAIN seq |-> IF seq[i].key = k THEN e ELSE seq[i]]
    OBVIOUS
  <2>2. WatchRecord(seq, k, v) = new
    BY <1>1, <1>2, <2>1 DEF WatchRecord
  <2>3. DOMAIN new = DOMAIN seq /\ \A i \in DOMAIN seq : new[i].key = seq[i].key
    BY <1>1, <2>1
  <2>4. KeysOf(new) = KeysOf(seq) \cup {k}
    BY <1>2, <2>3 DEF KeysOf
  <2>5. QED
    BY <2>2, <2>4
<1>3. CASE ~ \E i \in DOMAIN seq : seq[i].key = k
  <2>1. PICK new : new = Append(seq, e)
    OBVIOUS
  <2>2. WatchRecord(seq, k, v) = new
    BY <1>1, <1>3, <2>1 DEF WatchRecord
  <2>3. PICK n : n = Len(seq)
    OBVIOUS
  <2>4. n \in Nat /\ DOMAIN seq = 1 .. n /\ DOMAIN new = 1 .. n + 1
    BY <1>1, <2>1, <2>3 DEF WatchEntry
  <2>5. new[n + 1].key = k /\ \A i \in 1 .. n : new[i] = seq[i]
    BY <1>1, <2>1, <2>3, <2>4
  <2>6. KeysOf(new) = KeysOf(seq) \cup {k}
    BY <2>4, <2>5 DEF KeysOf
  <2>7. QED
    BY <2>2, <2>6
<1>4. QED
  BY <1>2, <1>3

LEMMA WatchRefines ==
  ASSUME IInv, SessionsTidy, NEW s \in Session, NEW k \in Key, Watch(s, k)
  PROVE  Abstract!Watch(s, k) /\ SessionsTidy'
<1>1. PICK c : c = Reap(cache, k)
  OBVIOUS
<1>2. cache \in GoodCache /\ cache.expired = {}
  BY DEF IInv
<1>3. c \in Advanced(cache) /\ c \in CacheRecord
  BY <1>1, <1>2, ReapAdvances DEF Advanced, GoodCache
<1>4. PICK ws : ws = WatchRecord(tx[s].watched, k, Version(c, k))
  OBVIOUS
<1>5. {ws[i].key : i \in DOMAIN ws} = Watched(s) \cup {k}
  <2>1. PICK old : old = tx[s].watched
    OBVIOUS
  <2>2. old \in Seq(WatchEntry)
    BY <2>1, WatchedType DEF IInv
  <2>3. PICK v : v = Version(c, k)
    OBVIOUS
  <2>4. v \in Nat
    BY <1>3, <2>3, VersionType
  <2>5. ws = WatchRecord(old, k, v)
    BY <1>4, <2>1, <2>3
  <2>6. KeysOf(ws) = KeysOf(old) \cup {k}
    BY <2>2, <2>4, <2>5, WatchRecordKeys
  <2>7. QED
    BY <2>1, <2>6 DEF Watched, KeysOf
<1>6. PICK t : t = [tx[s] EXCEPT !.watched = ws]
  OBVIOUS
<1>7. /\ IsOpen(s) /\ Becomes(c) /\ tx' = [tx EXCEPT ![s] = t]
      /\ stale' = [Spoiled(c) EXCEPT ![s] = stale[s] \ {k}]
  BY <1>1, <1>4, <1>6 DEF Watch
<1>8. /\ cache' \in Advanced(cache)
      /\ cache'.entry = c.entry
  BY <1>2, <1>3, <1>7, BecomesAdvances
<1>9. /\ stale'[s] = stale[s] \ {k}
      /\ \A o \in Session \ {s} : stale'[o] = Spoiled(c)[o]
      /\ stale' \in [Session -> SUBSET Key]
  BY <1>7, StaleType DEF IInv, TypeOK
<1>10. tx[s] \in Transaction
  BY DEF IInv, TypeOK
<1>11. t.outcome = tx[s].outcome /\ t.watched = ws
  BY <1>6, <1>10 DEF Transaction
<1>12. GoesOn(s, t, tx[s].outcome, Watched(s) \cup {k})
  BY <1>5, <1>7, <1>11, OwnRecord
<1>13. Abstract!Touched \subseteq {k}
  BY <1>1, <1>2, <1>8, ReapTouches DEF Abstract!Touched
<1>14. \A o \in Session \ {s} :
         stale'[o] = stale[o] \cup (Abstract!Touched \cap Watched(o))
  BY <1>8, <1>9, SpoiledIsTouched
<1>15. Abstract!Spoil(Session \ {s})
  BY <1>14 DEF Abstract!Spoil
<1>16. SessionsTidy'
  BY <1>7, <1>9, <1>11, <1>12, <1>14 DEF SessionsTidy, GoesOn, IsOpen
<1>17. [o \in Session |-> tx'[o].outcome] = [o \in Session |-> tx[o].outcome]
  BY <1>12 DEF GoesOn
<1>18. [o \in Session |-> Watched(o)'] =
         [[o \in Session |-> Watched(o)] EXCEPT ![s] = @ \cup {k}]
  BY <1>12 DEF GoesOn
<1>19. QED
  BY <1>7, <1>8, <1>9, <1>13, <1>15, <1>16, <1>17, <1>18, EntryType
     DEF Abstract!Watch, IsOpen

-----------------------------------------------------------------------------
(* EXEC.                                                                   *)

(* What EXEC of s does when it leaves the cache as c with outcome o.       *)
ExecMakes(s, c, o) ==
  /\ c \in Advanced(cache)
  /\ CASE o = "committed" -> stale[s] = {}
       [] o = "aborted"   -> \A k \in Key \ Watched(s) : c.entry[k] = cache.entry[k]
       [] o = "failed"    -> stale[s] = {} /\ c.entry = cache.entry

LEMMA WatchedIsSound ==
  ASSUME IInv, NEW s \in Session
  PROVE  /\ Watched(s) \subseteq Key
         /\ tx[s].watched \in Seq(SoundRecord(cache, Watched(s)))
<1>1. PICK seq : seq = tx[s].watched
  OBVIOUS
<1>2. seq \in Seq(WatchEntry)
  BY <1>1, WatchedType DEF IInv
<1>3. \A i \in DOMAIN seq : seq[i] \in WatchEntry
  BY <1>2
<1>4. \A i \in DOMAIN seq : seq[i].version <= Version(cache, seq[i].key)
  BY <1>1 DEF IInv, WatchSound
<1>5. PICK B : B = SoundRecord(cache, Watched(s))
  OBVIOUS
<1>6. \A i \in DOMAIN seq : seq[i] \in B
  BY <1>1, <1>3, <1>4, <1>5 DEF SoundRecord, Watched
<1>7. seq \in Seq(B)
  BY <1>2, <1>6
<1>8. Watched(s) \subseteq Key
  BY <1>1, <1>3 DEF Watched, WatchEntry
<1>9. QED
  BY <1>1, <1>5, <1>7, <1>8

(* EXEC that passes its comparisons has nothing stale.                     *)
LEMMA PassedIsFresh ==
  ASSUME IInv, SessionsTidy, NEW s \in Session,
         FoldLeft(CheckNext, Done(cache), tx[s].watched).ok
  PROVE  stale[s] = {}
<1>1. SUFFICES ASSUME NEW k \in stale[s] PROVE FALSE
  OBVIOUS
<1>2. PICK m \in DOMAIN tx[s].watched : tx[s].watched[m].key = k
  BY DEF SessionsTidy, Watched
<1>3. tx[s].watched[m].version < Version(cache, tx[s].watched[m].key)
  BY <1>2 DEF IInv, WatchSound
<1>4. tx[s].watched \in Seq(WatchEntry) /\ cache \in GoodCache
  BY WatchedType DEF IInv
<1>5. QED
  BY <1>3, <1>4, CheckingNotices

LEMMA ExecOutcome ==
  ASSUME IInv, SessionsTidy, NEW s \in Session, NEW d \in Nat, Exec(s, d)
  PROVE  \E c, o :
           /\ o \in {"committed", "aborted", "failed"}
           /\ ExecMakes(s, c, o)
           /\ IsOpen(s) /\ Becomes(c)
           /\ tx' = [tx EXCEPT ![s] = Finished(o)]
           /\ stale' = [Spoiled(c) EXCEPT ![s] = {}]
<1>1. cache \in GoodCache
  BY DEF IInv
<1>2. PICK checked : checked = FoldLeft(CheckNext, Done(cache), tx[s].watched)
  OBVIOUS
<1>3. checked \in CheckedFrom(cache, Watched(s))
  BY <1>1, <1>2, WatchedIsSound, CheckingTouches
<1>4. /\ checked.cache \in Advanced(cache) /\ checked.cache \in GoodCache
      /\ checked.ok \in BOOLEAN
  BY <1>3 DEF CheckedFrom, Outcomes, Advanced
<1>5. PICK start : start = Later(checked.cache, d)
  OBVIOUS
<1>6. start \in Advanced(cache) /\ start \in GoodCache
  BY <1>1, <1>4, <1>5, LaterAdvances, AdvancesTransitive DEF Advanced
<1>7. start.entry = checked.cache.entry
  BY <1>4, <1>5 DEF Later, GoodCache, CacheRecord
<1>8. PICK ran : ran = FoldLeft(ApplyNext, Done(start), tx[s].queue)
  OBVIOUS
<1>9. ran \in Outcomes(start)
  BY <1>6, <1>8, WatchedType, ApplyingAdvances DEF IInv
<1>10. PICK applied : applied = Atomic(start, ran)
  OBVIOUS
<1>11. /\ applied \in Outcomes(start)
       /\ ~ applied.ok => applied.cache.entry = start.entry
  BY <1>6, <1>9, <1>10, AtomicAdvances
<1>12. applied.cache \in Advanced(cache) /\ applied.ok \in BOOLEAN
  BY <1>1, <1>6, <1>11, AdvancesTransitive DEF Outcomes
<1>13. PICK result :
         result = IF checked.ok THEN applied.cache ELSE checked.cache
  OBVIOUS
<1>14. PICK o : o = IF ~ checked.ok THEN "aborted"
                    ELSE IF applied.ok THEN "committed" ELSE "failed"
  OBVIOUS
<1>15. /\ IsOpen(s) /\ Becomes(result)
       /\ tx' = [tx EXCEPT ![s] = Finished(o)]
       /\ stale' = [Spoiled(result) EXCEPT ![s] = {}]
  BY <1>2, <1>5, <1>8, <1>10, <1>13, <1>14, Zenon DEF Exec
<1>16. checked.ok => stale[s] = {} /\ checked.cache.entry = cache.entry
  BY <1>2, <1>3, PassedIsFresh DEF CheckedFrom
<1>17. ExecMakes(s, result, o)
  <2>1. CASE ~ checked.ok
    BY <1>3, <1>4, <1>13, <1>14, <2>1 DEF ExecMakes, CheckedFrom
  <2>2. CASE checked.ok /\ applied.ok
    BY <1>12, <1>13, <1>14, <1>16, <2>2 DEF ExecMakes
  <2>3. CASE checked.ok /\ ~ applied.ok
    BY <1>7, <1>11, <1>12, <1>13, <1>14, <1>16, <2>3 DEF ExecMakes
  <2>4. QED
    BY <1>4, <1>12, <2>1, <2>2, <2>3
<1>18. o \in {"committed", "aborted", "failed"}
  BY <1>14
<1>19. QED
  BY <1>15, <1>17, <1>18

LEMMA ExecRefines ==
  ASSUME IInv, SessionsTidy, NEW s \in Session, NEW d \in Nat, Exec(s, d)
  PROVE  /\ Abstract!Commit(s) \/ Abstract!Abort(s) \/ Abstract!Fail(s)
         /\ SessionsTidy'
<1>1. PICK c, o :
        /\ o \in {"committed", "aborted", "failed"}
        /\ ExecMakes(s, c, o)
        /\ IsOpen(s) /\ Becomes(c)
        /\ tx' = [tx EXCEPT ![s] = Finished(o)]
        /\ stale' = [Spoiled(c) EXCEPT ![s] = {}]
  BY ExecOutcome
<1>2. cache \in GoodCache /\ cache.expired = {} /\ c \in Advanced(cache)
  BY <1>1 DEF IInv, ExecMakes
<1>3. cache' \in Advanced(cache) /\ cache'.entry = c.entry
  BY <1>1, <1>2, BecomesAdvances
<1>4. PICK t : t = Finished(o)
  OBVIOUS
<1>5. /\ t.outcome = o /\ t.watched = <<>>
      /\ {t.watched[i].key : i \in DOMAIN t.watched} = {}
  BY <1>4, FinishedFields
<1>6. GoesOn(s, t, o, {})
  BY <1>1, <1>4, <1>5, OwnRecord
<1>7. /\ stale'[s] = {}
      /\ \A p \in Session \ {s} : stale'[p] = Spoiled(c)[p]
      /\ stale' \in [Session -> SUBSET Key]
  BY <1>1, StaleType DEF IInv, TypeOK
<1>8. \A p \in Session \ {s} :
        stale'[p] = stale[p] \cup (Abstract!Touched \cap Watched(p))
  BY <1>3, <1>7, SpoiledIsTouched
<1>9. Abstract!Spoil(Session \ {s})
  BY <1>8 DEF Abstract!Spoil
<1>10. SessionsTidy'
  BY <1>5, <1>6, <1>7, <1>8 DEF SessionsTidy, GoesOn, IsOpen
<1>11. Abstract!Finish(s, o)
  BY <1>1, <1>6, <1>7, <1>9 DEF Abstract!Finish, GoesOn, IsOpen
<1>12. cache'.entry \in [Key -> EntryRecord \cup {None}]
  BY <1>3, EntryType
<1>13. CASE o = "committed"
  <2>1. stale[s] = {}
    BY <1>1, <1>13 DEF ExecMakes
  <2>2. QED
    BY <1>7, <1>10, <1>11, <1>12, <1>13, <2>1 DEF Abstract!Commit
<1>14. CASE o = "aborted"
  <2>1. \A k \in Key \ Watched(s) : c.entry[k] = cache.entry[k]
    BY <1>1, <1>14 DEF ExecMakes
  <2>2. Abstract!Touched \subseteq Watched(s)
    BY <1>3, <2>1 DEF Abstract!Touched
  <2>3. QED
    BY <1>7, <1>10, <1>11, <1>12, <1>14, <2>2 DEF Abstract!Abort
<1>15. CASE o = "failed"
  <2>1. stale[s] = {} /\ c.entry = cache.entry
    BY <1>1, <1>15 DEF ExecMakes
  <2>2. QED
    BY <1>3, <1>7, <1>10, <1>11, <1>15, <2>1 DEF Abstract!Fail
<1>16. QED
  BY <1>1, <1>13, <1>14, <1>15

-----------------------------------------------------------------------------
(* Every step of the cache is a step of the abstract store or none.        *)
LEMMA NextRefines ==
  ASSUME IInv, SessionsTidy, Next
  PROVE  SessionsTidy' /\ (Abstract!Next \/ UNCHANGED Abstract!vars)
<1> USE DEF Abstract!Next
<1>1. cache \in GoodCache
  BY DEF IInv
<1>2. CASE Tick
  BY <1>2, TickRefines
<1>3. ASSUME NEW r \in Outcomes(cache), Call(r)
      PROVE  SessionsTidy' /\ Abstract!Next
  BY <1>3, CallRefines
<1>4. CASE \/ \E k \in Key : DoGet(k) \/ DoDel(k) \/ DoTTL(k) \/ DoPersist(k)
           \/ \E s \in Session, k \in Key : Read(s, k)
  BY <1>1, <1>3, <1>4, GetAdvances, DelAdvances, TTLAdvances, PersistAdvances
     DEF DoGet, DoDel, DoTTL, DoPersist, Read
<1>5. ASSUME NEW k \in Key, NEW v \in Value, NEW ttl \in TTLArgument,
             NEW d \in Drift, DoSet(k, v, ttl, d)
      PROVE  SessionsTidy' /\ Abstract!Next
  <2>1. ttl \in Nat \cup {None} /\ d \in Nat
    BY InputAssumption, DriftType DEF TTLArgument
  <2>2. QED
    BY <1>1, <1>3, <1>5, <2>1, SetAdvances DEF DoSet
<1>6. ASSUME NEW batch \in Batch, NEW d \in Drift, DoMSet(batch, d)
      PROVE  SessionsTidy' /\ Abstract!Next
  <2>1. /\ d \in Nat
        /\ batch \in Seq([key : Key, value : Value, ttl : Nat \cup {None}])
    BY InputAssumption, DriftType DEF BatchEntry
  <2>2. MSet(cache, batch, d) \in Outcomes(cache)
    BY <1>1, <2>1, MSetAdvances
  <2>3. QED
    BY <1>3, <1>6, <2>2 DEF DoMSet
<1>7. ASSUME NEW k \in Key, NEW by \in Delta, NEW d \in Drift, DoIncr(k, by, d)
      PROVE  SessionsTidy' /\ Abstract!Next
  <2>1. by \in Int /\ d \in Nat
    BY InputAssumption, DriftType
  <2>2. QED
    BY <1>1, <1>3, <1>7, <2>1, IncrAdvances DEF DoIncr
<1>8. ASSUME NEW k \in Key, NEW old \in Value \cup {None}, NEW v \in Value,
             NEW ttl \in TTLArgument, NEW d \in Drift, DoCas(k, old, v, ttl, d)
      PROVE  SessionsTidy' /\ Abstract!Next
  <2>1. ttl \in Nat \cup {None} /\ d \in Nat
    BY InputAssumption, DriftType DEF TTLArgument
  <2>2. QED
    BY <1>1, <1>3, <1>8, <2>1, CasAdvances DEF DoCas
<1>9. ASSUME NEW k \in Key, NEW ttl \in Span, NEW d \in Drift,
             DoExpire(k, ttl, d)
      PROVE  SessionsTidy' /\ Abstract!Next
  <2>1. ttl \in Nat /\ d \in Nat
    BY InputAssumption, DriftType
  <2>2. QED
    BY <1>1, <1>3, <1>9, <2>1, ExpireAdvances DEF DoExpire
<1>10. ASSUME NEW k \in Key, NEW at \in 0 .. MaxTime, NEW d \in Drift,
              DoExpireAt(k, at, d)
       PROVE  SessionsTidy' /\ Abstract!Next
  <2>1. at \in Nat /\ d \in Nat
    BY InputAssumption, DriftType
  <2>2. QED
    BY <1>1, <1>3, <1>10, <2>1, ExpireAtAdvances DEF DoExpireAt
<1>11. CASE DoClear \/ DoSweep \/ \E ns \in Namespace : DoClearPrefix(ns)
  BY <1>1, <1>3, <1>11, ClearAdvances, SweepAdvances, ClearPrefixAdvances
     DEF DoClear, DoSweep, DoClearPrefix
<1>12. ASSUME NEW image \in Image, DoRestore(image) \/ DoReplace(image)
       PROVE  SessionsTidy' /\ Abstract!Next
  <2>1. image \in Seq(SetRecordArgument)
    BY InputAssumption DEF ImageEntry, SetRecordArgument
  <2>2. /\ Restore(cache, image) \in Outcomes(cache)
        /\ Replace(cache, image) \in Outcomes(cache)
    BY <1>1, <2>1, RestoreAdvances, ReplaceAdvances
  <2>3. QED
    BY <1>3, <1>12, <2>2 DEF DoRestore, DoReplace
<1>13. ASSUME NEW s \in Session,
              \/ Multi(s) \/ Unwatch(s) \/ Discard(s)
              \/ \E k \in Key : Watch(s, k)
              \/ \E d \in Drift : Exec(s, d)
       PROVE  SessionsTidy' /\ Abstract!Next
  BY <1>13, MultiRefines, UnwatchRefines, DiscardRefines, WatchRefines,
     ExecRefines, DriftType
<1>14. ASSUME NEW s \in Session, NEW op \in QueuedOp, Queue(s, op)
       PROVE  SessionsTidy' /\ UNCHANGED Abstract!vars
  BY <1>14, QueueRefines
<1>15. QED
  BY <1>2, <1>4, <1>5, <1>6, <1>7, <1>8, <1>9, <1>10, <1>11, <1>12, <1>13,
     <1>14 DEF Next

LEMMA StutterRefines ==
  ASSUME SessionsTidy, UNCHANGED vars
  PROVE  SessionsTidy' /\ UNCHANGED Abstract!vars
<1>1. cache' = cache /\ tx' = tx /\ stale' = stale
  BY DEF vars
<1>2. \A s \in Session : Watched(s)' = Watched(s) /\ IsOpen(s)' = IsOpen(s)
  BY <1>1 DEF Watched, IsOpen
<1>3. QED
  BY <1>1, <1>2 DEF SessionsTidy, Abstract!vars

LEMMA InitRefines == Init => SessionsTidy /\ Abstract!Init
<1>1. SUFFICES ASSUME Init PROVE SessionsTidy /\ Abstract!Init
  OBVIOUS
<1>2. IInv
  BY <1>1, InitInvariant
<1>3. \A s \in Session : tx[s] = Finished("discarded") /\ stale[s] = {}
  BY <1>1 DEF Init
<1>4. \A s \in Session : /\ tx[s].watched = <<>> /\ Watched(s) = {}
                         /\ tx[s].outcome = "discarded"
  BY <1>3, FinishedFields DEF Watched
<1>5. SessionsTidy
  BY <1>3, <1>4 DEF SessionsTidy
<1>6. cache.entry \in [Key -> EntryRecord \cup {None}]
  BY <1>2, EntryType
<1>7. stale = [s \in Session |-> {}]
  BY <1>1 DEF Init
<1>8. QED
  BY <1>4, <1>5, <1>6, <1>7 DEF Abstract!Init

(* KVCache with its transactions implements OptimisticStore: whatever the  *)
(* keys, limits, queues and number of sessions, EXEC commits only over     *)
(* keys that have not changed since they were watched, and an EXEC that    *)
(* fails part way leaves no entry changed.                                 *)
THEOREM TransactionsAreOptimistic == Spec => CommitsAreSound
<1>1. IInv /\ SessionsTidy /\ [Next]_vars =>
        SessionsTidy' /\ [Abstract!Next]_(Abstract!vars)
  BY NextRefines, StutterRefines
<1>2. QED
  BY <1>1, InitRefines, InvariantHolds, PTL
     DEF Spec, CommitsAreSound, Abstract!Spec

=============================================================================
