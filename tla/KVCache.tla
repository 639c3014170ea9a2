------------------------------ MODULE KVCache -------------------------------
(***************************************************************************)
(* One KVCache object (src/cache.ts) used by a program that calls its      *)
(* operations directly and runs optimistic transactions (KVTransaction).   *)
(* A call is one step.  Between two calls anything may run: other calls,   *)
(* the other sessions, the passing of time.                                *)
(*                                                                         *)
(* `cache` is the object, `tx` the KVTransaction objects, `notified` the   *)
(* keys the last step passed to the expiry listener.  `stale` is a history *)
(* variable: the keys a session watches whose entry changed since.         *)
(***************************************************************************)
EXTENDS KVCacheOps

CONSTANTS
  Session,        \* holders of a KVTransaction
  Span,           \* ttl arguments in milliseconds
  Delta,          \* INCR arguments
  Batch,          \* MSET arguments
  Image,          \* restore() arguments
  QueuedOp,       \* operations a session may queue
  MaxQueue,       \* bound on the length of a queue
  MaxGeneration,  \* bound on `generation`, Number.MAX_SAFE_INTEGER in code
  MaxTime,        \* bound on the clock
  MaxDrift        \* bound on the time that passes within one call

TTLArgument == Span \cup {None}

ASSUME InputAssumption ==
  /\ {MaxQueue, MaxGeneration, MaxTime, MaxDrift} \subseteq Nat
  /\ Span \subseteq Nat
  /\ Delta \subseteq Int
  /\ Batch \subseteq Seq(BatchEntry)
  /\ Image \subseteq Seq(ImageEntry)
  /\ QueuedOp \subseteq Queueable

VARIABLES cache, tx, notified, stale

vars == <<cache, tx, notified, stale>>

Drift == 0 .. MaxDrift

-----------------------------------------------------------------------------
(* Transactions: a finished one has nothing watched and nothing queued.    *)

Watched(s) == {tx[s].watched[i].key : i \in DOMAIN tx[s].watched}

Finished(o) == [outcome |-> o, watched |-> <<>>, queue |-> <<>>]

IsOpen(s) == tx[s].outcome = "open"

Init ==
  /\ cache = EmptyCache
  /\ tx = [s \in Session |-> Finished("discarded")]
  /\ notified = {}
  /\ stale = [s \in Session |-> {}]

(* The keys whose entry differs between the cache and c.                   *)
Touched(c) == {k \in Key : c.entry[k] # cache.entry[k]}

(* The call leaves the cache as c.  Its expiry reports go out, and the     *)
(* record of what it changed is dropped with its change frame.             *)
Becomes(c) ==
  /\ c.generation <= MaxGeneration
  /\ c.now <= MaxTime
  /\ cache' = [c EXCEPT !.changed = <<>>, !.expired = {}]
  /\ notified' = c.expired

Spoiled(c) == [s \in Session |-> stale[s] \cup (Touched(c) \cap Watched(s))]

(* A call made outside any transaction.                                    *)
Call(r) ==
  /\ Becomes(r.cache)
  /\ stale' = Spoiled(r.cache)
  /\ UNCHANGED tx

Tick ==
  /\ cache.now < MaxTime
  /\ cache' = Later(cache, 1)
  /\ notified' = {}
  /\ UNCHANGED <<tx, stale>>

DoGet(k)                == Call(Get(cache, k))
DoSet(k, v, ttl, d)     == Call(Set(cache, k, v, ttl, d))
DoMSet(batch, d)        == Call(MSet(cache, batch, d))
DoDel(k)                == Call(Del(cache, k))
DoIncr(k, by, d)        == Call(Incr(cache, k, by, d))
DoCas(k, old, v, t, d)  == Call(Cas(cache, k, old, v, t, d))
DoTTL(k)                == Call(TTL(cache, k))
DoExpire(k, ttl, d)     == Call(Expire(cache, k, ttl, d))
DoExpireAt(k, at, d)    == Call(ExpireAt(cache, k, at, d))
DoPersist(k)            == Call(Persist(cache, k))
DoClearPrefix(ns)       == Call(ClearPrefix(cache, ns))
DoClear                 == Call(Clear(cache))
DoSweep                 == Call(Sweep(cache))
DoRestore(image)        == Call(Restore(cache, image))
DoReplace(image)        == Call(Replace(cache, image))

-----------------------------------------------------------------------------
(* A session starts a new transaction.                                     *)
Multi(s) ==
  /\ ~ IsOpen(s)
  /\ tx' = [tx EXCEPT ![s] = Finished("open")]
  /\ notified' = {}
  /\ UNCHANGED <<cache, stale>>

(* watch() records the current version and replaces an older record.       *)
WatchRecord(seq, k, v) ==
  IF \E i \in DOMAIN seq : seq[i].key = k
  THEN [i \in DOMAIN seq |->
          IF seq[i].key = k THEN [key |-> k, version |-> v] ELSE seq[i]]
  ELSE Append(seq, [key |-> k, version |-> v])

Watch(s, k) ==
  LET c == Reap(cache, k)
  IN  /\ IsOpen(s) /\ KeyFits(k)
      /\ Becomes(c)
      /\ tx' = [tx EXCEPT ![s].watched = WatchRecord(@, k, Version(c, k))]
      /\ stale' = [Spoiled(c) EXCEPT ![s] = stale[s] \ {k}]

Unwatch(s) ==
  /\ IsOpen(s)
  /\ tx' = [tx EXCEPT ![s].watched = <<>>]
  /\ stale' = [stale EXCEPT ![s] = {}]
  /\ notified' = {}
  /\ UNCHANGED cache

Read(s, k) ==
  /\ IsOpen(s)
  /\ Call(Get(cache, k))

Queue(s, op) ==
  /\ IsOpen(s)
  /\ Len(tx[s].queue) < MaxQueue
  /\ tx' = [tx EXCEPT ![s].queue = Append(@, op)]
  /\ notified' = {}
  /\ UNCHANGED <<cache, stale>>

Discard(s) ==
  /\ IsOpen(s)
  /\ tx' = [tx EXCEPT ![s] = Finished("discarded")]
  /\ stale' = [stale EXCEPT ![s] = {}]
  /\ notified' = {}
  /\ UNCHANGED cache

(* Mistake: a key that moved on since it was watched passes.               *)
CheckNotBehind(r, w) ==
  IF ~ r.ok THEN r
  ELSE LET c == Reap(r.cache, w.key)
       IN  [ok |-> Version(c, w.key) >= w.version, cache |-> c]

(* getVersion of one watched key; a mismatch ends the loop.                *)
CheckNext(r, w) ==
  IF ~ r.ok THEN r
  ELSE LET c == Reap(r.cache, w.key)
       IN  [ok |-> Version(c, w.key) = w.version, cache |-> c]

(* exec(): compare every watched version, then apply the queue atomically. *)
Exec(s, d) ==
  /\ IsOpen(s)
  /\ LET checked == FoldLeft(CheckNext, Done(cache), tx[s].watched)
         start   == Later(checked.cache, d)
         applied == Atomic(start, FoldLeft(ApplyNext, Done(start), tx[s].queue))
         result  == IF checked.ok THEN applied.cache ELSE checked.cache
     IN  /\ Becomes(result)
         /\ tx' = [tx EXCEPT ![s] =
                     Finished(IF ~ checked.ok THEN "aborted"
                              ELSE IF applied.ok THEN "committed"
                              ELSE "failed")]
         /\ stale' = [Spoiled(result) EXCEPT ![s] = {}]

-----------------------------------------------------------------------------
Next ==
  \/ Tick
  \/ \E k \in Key : DoGet(k) \/ DoDel(k) \/ DoTTL(k) \/ DoPersist(k)
  \/ \E k \in Key, v \in Value, ttl \in TTLArgument, d \in Drift :
       DoSet(k, v, ttl, d)
  \/ \E batch \in Batch, d \in Drift : DoMSet(batch, d)
  \/ \E k \in Key, by \in Delta, d \in Drift : DoIncr(k, by, d)
  \/ \E k \in Key, old \in Value \cup {None}, v \in Value,
        ttl \in TTLArgument, d \in Drift : DoCas(k, old, v, ttl, d)
  \/ \E k \in Key, ttl \in Span, d \in Drift : DoExpire(k, ttl, d)
  \/ \E k \in Key, at \in 0 .. MaxTime, d \in Drift : DoExpireAt(k, at, d)
  \/ \E ns \in Namespace : DoClearPrefix(ns)
  \/ DoClear
  \/ DoSweep
  \/ \E image \in Image : DoRestore(image) \/ DoReplace(image)
  \/ \E s \in Session :
       \/ Multi(s) \/ Unwatch(s) \/ Discard(s)
       \/ \E k \in Key : Watch(s, k) \/ Read(s, k)
       \/ \E op \in QueuedOp : Queue(s, op)
       \/ \E d \in Drift : Exec(s, d)

Spec == Init /\ [][Next]_vars

-----------------------------------------------------------------------------
(* Invariants.                                                             *)

Transaction ==
  [outcome : {"open", "committed", "aborted", "failed", "discarded"},
   watched : Seq([key : Key, version : Nat]),
   queue   : Seq(QueuedOp)]

(* The state has the shape of the fields of KVCache and KVTransaction.     *)
TypeOK ==
  /\ cache \in CacheRecord
  /\ tx \in [Session -> Transaction]
  /\ notified \subseteq Key
  /\ stale \in [Session -> SUBSET Key]

Lists(seq, S) == IsInjective(seq) /\ ToSet(seq) = S

(* The linked list of the map names every present key once, and that of    *)
(* the version table every key with a version; a present key has one, so   *)
(* pruning never forgets it.                                               *)
ListsAgree ==
  /\ Lists(cache.order, {k \in Key : Has(cache, k)})
  /\ Lists(cache.versionOrder, {k \in Key : cache.version[k] # 0})
  /\ \A k \in Key : Has(cache, k) => cache.version[k] # 0

TotalSize == MapThenSumSet(LAMBDA k : cache.entry[k].size,
                           {k \in Key : Has(cache, k)})

(* The running total `bytes` is the size of what is stored.                *)
BytesExact == cache.bytes = TotalSize

(* Whatever calls were made and however long they took, what is stored is  *)
(* within the limits and the running total does not understate it.         *)
StoreFits ==
  /\ TotalSize <= cache.bytes
  /\ TotalSize <= MaxBytes
  /\ Len(cache.order) <= MaxEntries

(* The version table stays bounded however many keys come and go.          *)
VersionTableBounded == Len(cache.versionOrder) <= VersionLimit

(* A version recorded by watch() is never ahead of the key's version, and  *)
(* falls behind it as soon as the entry changes by any route: a write, a   *)
(* delete, an expiry, an eviction, a change there and back, a prune.       *)
WatchSound ==
  \A s \in Session : \A i \in DOMAIN tx[s].watched :
    LET w == tx[s].watched[i]
    IN  /\ w.version <= Version(cache, w.key)
        /\ w.key \in stale[s] => w.version < Version(cache, w.key)

(* An image restored into an empty cache, at once or when deadlines have   *)
(* passed, gives the entries that the saved cache would still hold, their  *)
(* deadlines and order of use: none is evicted and no expired one is kept. *)
ImageFaithful ==
  \A wait \in 0 .. MaxTime :
    LET c == Later(cache, wait)
        r == Restore(Later(EmptyCache, c.now), Dump(cache))
    IN  /\ r.ok
        /\ Dump(r.cache) = Dump(c)
        /\ \A k \in Key : Has(r.cache, k) = Live(c, k)

Position(k) == CHOOSE i \in DOMAIN cache.order : cache.order[i] = k

(* The keys other than k that are gone from r.                             *)
Victims(r, k) == {b \in Key \ {k} : Has(cache, b) /\ ~ Has(r, b)}

(* A set() evicts in the order of last use, and the cache would not have   *)
(* held the last victim as well.                                           *)
EvictsOldestAndNoMore ==
  \A k \in Key, v \in Value, ttl \in TTLArgument :
    LET r == Set(cache, k, v, ttl, 0).cache
    IN  \A b \in Victims(r, k) :
          /\ \A o \in Key \ {k} :
               Has(r, o) /\ Has(cache, o) => Position(b) < Position(o)
          /\ (\A o \in Victims(r, k) : Position(o) <= Position(b)) =>
               \/ Len(r.order) = MaxEntries
               \/ r.bytes + cache.entry[b].size > MaxBytes

(* A write that is accepted is there when the call returns: it never       *)
(* evicts itself, whatever else it has to evict.                           *)
AcceptedWriteStays ==
  \A k \in Key, v \in Value, ttl \in TTLArgument :
    LET r == Set(cache, k, v, ttl, 0)
    IN  r.ok /\ ResolveTTL(cache, k, ttl) # cache.now =>
          Has(r.cache, k) /\ r.cache.entry[k].value = v

-----------------------------------------------------------------------------
(* Action properties.                                                      *)

(* A key's version never falls, and rises whenever its entry changes.      *)
VersionsAdvance ==
  [][\A k \in Key :
       /\ Version(cache, k) <= Version(cache', k)
       /\ cache'.entry[k] # cache.entry[k] =>
            Version(cache, k) < Version(cache', k)]_vars

(* The expiry listener hears only of keys the call has changed, in a way   *)
(* that whoever watches them sees: no report comes out of a call, or of a  *)
(* transaction, that was rolled back.                                      *)
ReportsTrue ==
  [][\A k \in notified' : Version(cache, k) < Version(cache', k)]_vars

-----------------------------------------------------------------------------
(* The transactions implement OptimisticStore: versions, pruning, expiry   *)
(* and eviction never let EXEC commit over a change it should have seen,   *)
(* and a failed EXEC leaves no trace.                                      *)
Abstract == INSTANCE OptimisticStore WITH
  Content  <- EntryRecord \cup {None},
  store    <- cache.entry,
  watching <- [s \in Session |-> Watched(s)],
  outcome  <- [s \in Session |-> tx[s].outcome]

CommitsAreSound == Abstract!Spec

=============================================================================
