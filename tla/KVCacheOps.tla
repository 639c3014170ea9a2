----------------------------- MODULE KVCacheOps -----------------------------
(***************************************************************************)
(* The operations of KVCache (src/cache.ts) as functions from a cache      *)
(* record to a cache record.  Every operation of the class is synchronous, *)
(* so one call is one such function; the state machines that use them      *)
(* (KVCache and the modules built on it) decide when a call happens.       *)
(*                                                                         *)
(* A cache record has the fields                                           *)
(*   order        keys of `map` from least to most recently used           *)
(*   entry        key -> entry record, or None when the key is not in `map`*)
(*   bytes        the running total `bytes`                                *)
(*   version      key -> `keyVersions` value, 0 when there is none         *)
(*   versionOrder keys of `keyVersions` in insertion order                 *)
(*   generation, absentEpoch   the two counters of the same name           *)
(*   changed      the keys bumped by the running call, in order of their   *)
(*                first bump: the contents of a `changeFrames` set         *)
(*   expired      the keys whose expiry the running call reports           *)
(*   now          what Date.now() returns                                  *)
(* `expiring` is the list of the keys of `order` that carry a deadline: it *)
(* is filled by the callback of `map`.  The hit, miss, eviction and expiry *)
(* statistics are left out.                                                *)
(*                                                                         *)
(* A definition under "Mistake" is a wrong version of the one that follows *)
(* it.  Nothing uses it; put in that one's place it breaks the property    *)
(* PROJECT.json names.                                                     *)
(***************************************************************************)
EXTENDS Integers, Filters

CONSTANTS
  Key,            \* cache keys
  Value,          \* JSON values
  Number,         \* the values that are finite numbers
  None,           \* `undefined`: no entry, no deadline, no ttl argument
  KeySize,        \* [Key -> Nat], utf8ByteLength
  ValueSize,      \* [Value -> Nat], valueByteLength
  MaxEntries, MaxBytes, MaxKeyBytes, MaxValueBytes,
  KeyTTL,         \* [Key -> Nat \cup {None}], namespace or default ttl
  Namespace,      \* prefixes given to clearPrefix
  Under,          \* [Namespace -> SUBSET Key], the keys a prefix matches
  VersionSlack    \* 512 in the code: spare entries of the version table

ASSUME CacheAssumption ==
  /\ Number \subseteq Value \cap Int
  /\ 0 \in Number
  /\ None \notin Value \cup Nat
  /\ KeySize \in [Key -> Nat]
  /\ ValueSize \in [Value -> Nat]
  /\ MaxEntries \in Nat \ {0}
  /\ {MaxBytes, MaxKeyBytes, MaxValueBytes, VersionSlack} \subseteq Nat
  /\ KeyTTL \in [Key -> Nat \cup {None}]
  /\ Under \in [Namespace -> SUBSET Key]

-----------------------------------------------------------------------------
(* Entries and limits.                                                     *)

Deadline == Nat \cup {None}

EntryRecord == [value : Value, expiresAt : Deadline, size : Nat]

ASSUME EntryAssumption == None \notin EntryRecord

NoEntry == [k \in Key |-> None]

EmptyCache ==
  [order |-> <<>>, entry |-> NoEntry, bytes |-> 0,
   version |-> [k \in Key |-> 0], versionOrder |-> <<>>,
   generation |-> 0, absentEpoch |-> 0,
   changed |-> <<>>, expired |-> {}, now |-> 0]

CacheRecord ==
  [order : Seq(Key), entry : [Key -> EntryRecord \cup {None}], bytes : Int,
   version : [Key -> Nat], versionOrder : Seq(Key),
   generation : Nat, absentEpoch : Nat,
   changed : Seq(Key), expired : SUBSET Key, now : Nat]

KeyFits(k) == KeySize[k] <= MaxKeyBytes

EntrySize(k, v) == KeySize[k] + ValueSize[v]

ValueFits(k, v) ==
  /\ KeyFits(k)
  /\ ValueSize[v] <= MaxValueBytes
  /\ EntrySize(k, v) <= MaxBytes

EntryOf(k, v, at) == [value |-> v, expiresAt |-> at, size |-> EntrySize(k, v)]

Has(c, k) == c.entry[k] # None

IsExpired(e, t) == e.expiresAt # None /\ e.expiresAt <= t

Live(c, k) == Has(c, k) /\ ~ IsExpired(c.entry[k], c.now)

(* ResolveTTL(c, k, ttl) is the absolute deadline of a write made now.     *)
ResolveTTL(c, k, ttl) ==
  LET span == IF ttl # None THEN ttl ELSE KeyTTL[k]
  IN  IF span = None THEN None ELSE c.now + span

(* A later reading of the clock within the same call.                      *)
Later(c, d) == [c EXCEPT !.now = @ + d]

-----------------------------------------------------------------------------
(* The ordered map together with the byte total.  Put keeps the position   *)
(* of a key that is already linked, as OrderedMap.set does, and adds the   *)
(* size of the new entry without looking at an old one.                    *)

Unlinked(c, k) ==
  [c EXCEPT !.order = RemoveFirst(@, k),
            !.entry = [@ EXCEPT ![k] = None],
            !.bytes = @ - c.entry[k].size]

Without(c, k) == IF Has(c, k) THEN Unlinked(c, k) ELSE c

Put(c, k, e) ==
  [c EXCEPT !.order = IF Has(c, k) THEN @ ELSE Append(@, k),
            !.entry = [@ EXCEPT ![k] = e],
            !.bytes = @ + e.size]

-----------------------------------------------------------------------------
(* Versions.  A bump records the key as changed and, once the table is too *)
(* large, forgets keys that are not in the map, oldest record first, while *)
(* moving absentEpoch up to the current generation.                        *)

VersionLimit  == 2 * MaxEntries + 2 * VersionSlack
VersionTarget == MaxEntries + VersionSlack

(* Mistake: versions are forgotten without moving absentEpoch.             *)
PruneKeepingEpoch(c, k) ==
  IF ~ Has(c, k) /\ Len(c.versionOrder) > VersionTarget
  THEN [c EXCEPT !.version = [@ EXCEPT ![k] = 0],
                 !.versionOrder = RemoveFirst(@, k)]
  ELSE c

PruneVersion(c, k) ==
  IF ~ Has(c, k) /\ Len(c.versionOrder) > VersionTarget
  THEN [c EXCEPT !.version = [@ EXCEPT ![k] = 0],
                 !.versionOrder = RemoveFirst(@, k),
                 !.absentEpoch = c.generation]
  ELSE c

Recorded(c, k) ==
  [c EXCEPT !.generation = @ + 1,
            !.version = [@ EXCEPT ![k] = c.generation + 1],
            !.versionOrder = IF c.version[k] = 0 THEN Append(@, k) ELSE @,
            !.changed = IF k \in ToSet(@) THEN @ ELSE Append(@, k)]

BumpVersion(c, k) ==
  LET d == Recorded(c, k)
  IN  IF Len(d.versionOrder) > VersionLimit
      THEN FoldLeft(PruneVersion, d, d.versionOrder)
      ELSE d

Version(c, k) == IF c.version[k] # 0 THEN c.version[k] ELSE c.absentEpoch

-----------------------------------------------------------------------------
(* Removal: on request, because the deadline passed, or by eviction.       *)

Drop(c, k) == BumpVersion(Without(c, k), k)

(* Mistake: an expiry is not a change.                                     *)
RemoveExpiredUnversioned(c, k) ==
  [Without(c, k) EXCEPT !.expired = @ \cup {k}]

RemoveExpired(c, k) == [Drop(c, k) EXCEPT !.expired = @ \cup {k}]

(* The prologue of nearly every operation: an expired entry is removed.    *)
Reap(c, k) ==
  IF Has(c, k) /\ IsExpired(c.entry[k], c.now) THEN RemoveExpired(c, k) ELSE c

(* Mistake: a full cache is taken for an overfull one.                     *)
AtCapacity(c) == Len(c.order) >= MaxEntries \/ c.bytes > MaxBytes

OverCapacity(c) == Len(c.order) > MaxEntries \/ c.bytes > MaxBytes

(* One turn of the eviction loop; k is the head of the list.               *)
Evict(c, k) ==
  IF ~ OverCapacity(c) THEN c
  ELSE IF IsExpired(c.entry[k], c.now) THEN RemoveExpired(c, k)
  ELSE Drop(c, k)

(* Mistakes: one eviction for each write; the most recent key goes first.  *)
EvictOnce(c) == IF c.order = <<>> THEN c ELSE Evict(c, Head(c.order))
EvictNewest(c) == FoldLeft(Evict, c, Reverse(c.order))

EvictIfNeeded(c) == FoldLeft(Evict, c, c.order)

(* restore() has an eviction loop of its own that ignores deadlines.       *)
EvictAny(c, k) == IF OverCapacity(c) THEN Drop(c, k) ELSE c

-----------------------------------------------------------------------------
(* The public operations.  Each yields the cache it leaves and whether it  *)
(* returned (ok) or threw.                                                 *)

Done(c)   == [ok |-> TRUE, cache |-> c]
Thrown(c) == [ok |-> FALSE, cache |-> c]

(* delete + set of the same key: the entry becomes the most recent one.    *)
Relink(c, k, e) == Put(Unlinked(c, k), k, e)

(* The common end of every write: link, count, bump, evict.                *)
Store(c, k, e) == EvictIfNeeded(BumpVersion(Put(c, k, e), k))

(* Mistake: an existing entry is overwritten where it stands.              *)
SetInPlace(c, k, v, at) ==
  IF at # None /\ at <= c.now
  THEN IF Has(c, k) THEN Drop(c, k) ELSE c
  ELSE Store(c, k, EntryOf(k, v, at))

SetOwned(c, k, v, at) ==
  IF at # None /\ at <= c.now
  THEN IF Has(c, k) THEN Drop(c, k) ELSE c
  ELSE Store(Without(c, k), k, EntryOf(k, v, at))

Get(c, k) ==
  IF ~ KeyFits(k) THEN Thrown(c)
  ELSE LET r == Reap(c, k)
       IN  Done(IF Has(r, k) THEN Relink(r, k, r.entry[k]) ELSE r)

(* The deadline is computed from a first clock reading; d later it is      *)
(* compared with a second one.                                             *)
Set(c, k, v, ttl, d) ==
  IF ValueFits(k, v)
  THEN Done(SetOwned(Later(c, d), k, v, ResolveTTL(c, k, ttl)))
  ELSE Thrown(c)

SetAt(c, k, v, at) ==
  IF ValueFits(k, v) THEN Done(SetOwned(c, k, v, at)) ELSE Thrown(c)

SetRecord(c, e) == SetOwned(c, e.key, e.value, e.expiresAt)

(* mset validates the whole batch before it writes the first entry.        *)
MSet(c, batch, d) ==
  IF \A i \in DOMAIN batch : ValueFits(batch[i].key, batch[i].value)
  THEN Done(FoldLeft(SetRecord, Later(c, d),
                     [i \in DOMAIN batch |->
                        [key |-> batch[i].key, value |-> batch[i].value,
                         expiresAt |->
                           ResolveTTL(c, batch[i].key, batch[i].ttl)]]))
  ELSE Thrown(c)

Del(c, k) ==
  IF ~ KeyFits(k) THEN Thrown(c)
  ELSE LET r == Reap(c, k)
       IN  Done(IF Has(r, k) THEN Drop(r, k) ELSE r)

(* Mistake: an entry that expires during the call is taken back twice.     *)
IncrTakingTwice(c, k, by, d) ==
  LET r    == Reap(c, k)
      old  == r.entry[k]
      base == IF old = None THEN 0 ELSE old.value
      at   == IF old = None THEN None ELSE old.expiresAt
      size == IF old = None THEN 0 ELSE old.size
  IN  IF base \in Number /\ base + by \in Number /\ ValueFits(k, base + by)
      THEN Done(Store([Reap(Later(r, d), k) EXCEPT !.bytes = @ - size],
                      k, EntryOf(k, base + by, at)))
      ELSE Thrown(r)

(* The entry is judged live at one clock reading and, d later, at another  *)
(* one before its size is taken back.                                      *)
Incr(c, k, by, d) ==
  LET r    == Reap(c, k)
      old  == r.entry[k]
      base == IF old = None THEN 0 ELSE old.value
      at   == IF old = None THEN None ELSE old.expiresAt
      l    == Later(r, d)
  IN  IF ~ KeyFits(k) THEN Thrown(c)
      ELSE IF base \notin Number THEN Thrown(r)
      ELSE IF base + by \notin Number \/ ~ ValueFits(k, base + by)
           THEN Thrown(r)
      ELSE Done(Store(IF Live(l, k) THEN Unlinked(l, k) ELSE l,
                      k, EntryOf(k, base + by, at)))

Cas(c, k, expected, v, ttl, d) ==
  LET r       == Reap(c, k)
      old     == r.entry[k]
      current == IF old = None THEN None ELSE old.value
      at      == IF ttl # None THEN c.now + ttl
                 ELSE IF old # None THEN old.expiresAt
                 ELSE ResolveTTL(c, k, None)
  IN  IF ~ ValueFits(k, v) THEN Thrown(c)
      ELSE IF current # expected THEN Done(r)
      ELSE IF at # None /\ at <= c.now
           THEN Done(IF Has(r, k) THEN Drop(r, k) ELSE r)
      ELSE Done(Store(Later(Without(r, k), d), k, EntryOf(k, v, at)))

(* ttl() and expiration() only remove what has expired.                    *)
TTL(c, k) == IF KeyFits(k) THEN Done(Reap(c, k)) ELSE Thrown(c)

ExpireAt(c, k, at, d) ==
  LET r == Reap(c, k)
      l == Later(r, d)
  IN  IF ~ KeyFits(k) THEN Thrown(c)
      ELSE IF ~ Has(r, k) THEN Done(r)
      ELSE IF at <= l.now THEN Done(RemoveExpired(l, k))
      ELSE Done(BumpVersion(Relink(l, k, [l.entry[k] EXCEPT !.expiresAt = at]),
                            k))

(* Mistake: the deadline is what remains of the ttl.                       *)
ExpireByRemaining(c, k, ttl, d) ==
  LET r == Reap(c, k)
  IN  IF ~ KeyFits(k) THEN Thrown(c)
      ELSE IF ~ Has(r, k) THEN Done(r)
      ELSE Done(BumpVersion(
             Relink(r, k, [r.entry[k] EXCEPT !.expiresAt = ttl - r.now]), k))

Expire(c, k, ttl, d) ==
  LET r == Reap(c, k)
      l == Later(r, d)
  IN  IF ~ KeyFits(k) THEN Thrown(c)
      ELSE IF ~ Has(r, k) THEN Done(r)
      ELSE Done(BumpVersion(
             Relink(l, k, [l.entry[k] EXCEPT !.expiresAt = l.now + ttl]), k))

Persist(c, k) ==
  LET r == Reap(c, k)
  IN  IF ~ KeyFits(k) THEN Thrown(c)
      ELSE IF ~ Has(r, k) THEN Done(r)
      ELSE Done(BumpVersion(
             Relink(r, k, [r.entry[k] EXCEPT !.expiresAt = None]), k))

DropUnder(ns, c, k) == IF k \in Under[ns] THEN Drop(c, k) ELSE c

ClearPrefix(c, ns) ==
  Done(FoldLeft(LAMBDA d, k : DropUnder(ns, d, k), c, c.order))

(* Mistake: the index of the map is emptied and its list is not.           *)
ClearIndexOnly(c) ==
  Done([FoldLeft(BumpVersion, c, c.order) EXCEPT !.entry = NoEntry, !.bytes = 0])

(* Every key is bumped while the map still holds it; then all go at once.  *)
Clear(c) ==
  Done([FoldLeft(BumpVersion, c, c.order) EXCEPT
          !.order = <<>>, !.entry = NoEntry, !.bytes = 0])

Sweep(c) == Done(FoldLeft(Reap, c, c.order))

LiveKeys(c) == {k \in Key : Live(c, k)}

(* An image is a sequence of key/value/expiresAt records, as dump() makes  *)
(* it; restore() refuses it as a whole before it writes anything.          *)
Dump(c) ==
  LET ks == Filter(c.order, LiveKeys(c))
  IN  [i \in DOMAIN ks |-> [key |-> ks[i], value |-> c.entry[ks[i]].value,
                            expiresAt |-> c.entry[ks[i]].expiresAt]]

(* Mistake: a record whose deadline has passed is restored as well.        *)
RestoreExpired(c, e) ==
  BumpVersion(Put(Without(c, e.key), e.key,
                  EntryOf(e.key, e.value, e.expiresAt)), e.key)

RestoreOne(c, e) ==
  IF e.expiresAt # None /\ e.expiresAt <= c.now THEN c
  ELSE BumpVersion(Put(Without(c, e.key), e.key,
                       EntryOf(e.key, e.value, e.expiresAt)), e.key)

ImageOK(image) ==
  /\ \A i \in DOMAIN image : ValueFits(image[i].key, image[i].value)
  /\ \A i, j \in DOMAIN image : image[i].key = image[j].key => i = j

Restore(c, image) ==
  IF ImageOK(image)
  THEN LET r == FoldLeft(RestoreOne, c, image)
       IN  Done(FoldLeft(EvictAny, r, r.order))
  ELSE Thrown(c)

-----------------------------------------------------------------------------
(* atomic(): on a throw everything is restored but the generation, and no  *)
(* expiry of the failed call is reported.                                  *)

(* Mistake: the expiry reports of the failed call go out.                  *)
RolledBackReporting(c, d) ==
  [c EXCEPT !.generation = d.generation, !.now = d.now, !.expired = d.expired]

RolledBack(c, d) == [c EXCEPT !.generation = d.generation, !.now = d.now]

Atomic(c, r) == IF r.ok THEN r ELSE Thrown(RolledBack(c, r.cache))

Replace(c, image) == Atomic(c, Restore(Clear(c).cache, image))

-----------------------------------------------------------------------------
(* Several operations in a row: the arguments and what runs them.          *)

BatchEntry == [key : Key, value : Value, ttl : Nat \cup {None}]

ImageEntry == [key : Key, value : Value, expiresAt : Deadline]

Queueable ==
  [op : {"set"}, key : Key, value : Value, ttl : Nat \cup {None}] \cup
  [op : {"mset"}, batch : Seq(BatchEntry)] \cup
  [op : {"del", "persist"}, key : Key] \cup
  [op : {"clear"}, prefix : Namespace] \cup
  [op : {"expire"}, key : Key, ttl : Nat] \cup
  [op : {"incr"}, key : Key, by : Int] \cup
  [op : {"cas"}, key : Key, expected : Value \cup {None}, value : Value,
   ttl : Nat \cup {None}]

(* apply() runs one queued operation.                                      *)
Apply(c, op) ==
  CASE op.op = "set"     -> Set(c, op.key, op.value, op.ttl, 0)
    [] op.op = "mset"    -> MSet(c, op.batch, 0)
    [] op.op = "del"     -> Del(c, op.key)
    [] op.op = "clear"   -> ClearPrefix(c, op.prefix)
    [] op.op = "expire"  -> Expire(c, op.key, op.ttl, 0)
    [] op.op = "persist" -> Persist(c, op.key)
    [] op.op = "incr"    -> Incr(c, op.key, op.by, 0)
    [] op.op = "cas"     -> Cas(c, op.key, op.expected, op.value, op.ttl, 0)

(* A throw of one operation ends the loop.                                 *)
ApplyNext(r, op) == IF r.ok THEN Apply(r.cache, op) ELSE r

=============================================================================
