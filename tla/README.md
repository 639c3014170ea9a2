# A formal model of YASD

TLA+ specifications of YASD (`src/`): an in-memory key/value cache with
deadlines, LRU eviction and optimistic transactions, served over a RESP
protocol with snapshots and an append-only log, next to a small in-memory SQL
engine. TLC checks the specifications on small instances; TLAPS proves the
theorems listed below for every value of the constants.

Paths below are relative to the repository, whose sources are in `src/`.

## Inventory

| Part | State | Operations | Talks to |
|---|---|---|---|
| `KVCache` (`src/cache.ts`) | ordered map of entries, byte total, version table, absent epoch, generation, atomic and change frames | get, set, mset, del, incr, cas, expire, persist, clear, sweep, dump, restore, replace, atomic | expiry listener, `OrderedMap` |
| `KVTransaction` (`src/cache.ts`) | watched versions, queue, done flag | watch, unwatch, get, queueing, discard, exec | `KVCache` |
| `OrderedMap` (`src/ordered-map.ts`) | linked list, index, undo journal, frames | set, delete, clear, begin, commit, rollback, iterate | callback that fills the index of deadlines |
| Persistence (`src/persistence.ts`) | snapshot file, log file, last sequence, recovery state | append, replay, repair a torn tail, rotate, save and load a snapshot | file system, `KVCache` |
| Server (`src/server.ts`) | connections, request queues, transactions, subscriptions, persistence queue, output account | dispatch, execute, EXEC, publish, save, load, close | cache, log, hub, sockets |
| Client (`src/client.ts`) | pool, pending replies, subscriber connection, transactions | exec, multi, subscribe, reconnect, close | server |
| SQL (`src/executor.ts`, `src/index.ts`, `src/query-utils.ts`) | tables, primary keys, indexes, byte count | create, insert, select, update, delete, drop | parser |
| RESP reader (`src/resp-reader.ts`, `src/protocol.ts`, `src/json-prefix.ts`) | buffer, parse position | feed, next request | server, client |
| Pub/sub hub (`src/pubsub.ts`) | subscribers by channel | subscribe, unsubscribe, publish | server |
| Metrics, deque, parser, JSON, validation, CLI, TLS, health | counters and pure functions | | |

What is hard in this code, by part:

- **Cache.** One write may evict, expire and forget versions of other keys.
  `Date.now()` is read several times within one call. Versions are forgotten
  to bound a table while sessions still rely on them. An atomic call that
  throws must undo all of it and must not report expiries.
- **Ordered map.** Undo by replaying closures over a linked list, nested
  frames, iterators that survive changes, a mirrored index.
- **Persistence.** Append, snapshot, rename and rotation are separate steps
  and a crash may fall between any two, or inside an append.
- **Server.** Commands of one connection wait for asynchronous ones, those of
  others go on; log, commit and invalidation must keep their order; shutdown
  waits for everything under a deadline.
- **Client.** Timeouts race replies, connections fail while others are being
  opened, a subscriber reconnects while old data is still arriving.
- **SQL.** Statements fail part way after rows and indexes have changed.

The full list, each at its line, is under `hazards` in `PROJECT.json`.

## Plan

Done, in this order:

1. `KVCacheOps`, `KVCache`: cache and transactions.
2. `OptimisticStore`: what the transactions promise, and the proof that
   `KVCache` implements it.
3. `OrderedMap`, `ExpiryIndex`: list, journal and frames against plain
   sequences with saved copies (`SavedCopies`) as the abstract specification;
   the mirrored index of deadlines; the budgeted sweep, with liveness.
4. `Persistence`: log, snapshot, rotation and crashes; a restart gives what
   was answered.
5. `Connections`, `Server`: connections, transactions over the wire,
   invalidation, persistence queue and shutdown, around the operations of
   `KVCacheOps`.
6. `ClientPool`, `Subscriber`, `RemoteTransaction`, composed in `Client`.
7. `QueryUtils`, `Tables`: rows, keys and indexes under failing statements;
   index plans, three-valued conditions, LIKE and the heap of ORDER BY against
   a reference definition.

Theorems worth proving next:

- the rest of `Server`'s state (`TypeOK`: a connection that waits owns a job, and
  listens in the hub where it says so), then its announcements and transactions;
- `ImageFaithful`, now that `Dump` is a fold: restoring links the keys in the
  order of the image and evicts nothing;
- `IndexMirrors` for `ExpiryIndex`, from what undoing one closure restores.

## Modules

| Module | Content |
|---|---|
| `Filters` | `Array.prototype.filter` as a fold |
| `KVCacheOps` | every operation of `KVCache` as a function on a cache record |
| `KVCache` | one cache, its direct callers and its transactions, as a state machine; the properties |
| `OptimisticStore` | abstract specification of WATCH and EXEC |
| `MCKVCache` | instances for TLC |
| `OrderedMap` | the linked list, its index, journal and frames as functions on a record |
| `ExpiryIndex` | the cache's map and its index of deadlines, atomic frames, the sweeper |
| `SavedCopies` | abstract specification of nested frames |
| `MCExpiryIndex` | instances for TLC |
| `Persistence` | log, snapshot, SAVE, LOAD, start-up and crashes of a server, around the operations of `KVCacheOps` |
| `MCPersistence` | instances for TLC |
| `Connections` | what the server holds for each connection: output, backpressure, the account of memory, the hub of channels |
| `Server` | commands, transactions over the wire, persistence jobs and shutdown, as a state machine over `Connections` and `KVCacheOps` |
| `MCServer` | eleven scenarios for TLC |
| `ClientState` | what the parts of a client share |
| `ClientPool` | pooled connections: calls, replies, deadlines, failures, replenishing |
| `Subscriber` | the subscriber connection, its generations, handlers and restored channels |
| `RemoteTransaction` | `runTransaction` with its retries, `YasdTransaction`, and as much of the server as decides what commits |
| `Client` | these three side by side, and `close()` |
| `MCClient` | 23 programs for TLC |
| `QueryUtils` | LIKE and the bounded heap, the first loop by loop |
| `Tables` | the SQL executor: statements, indexes, keys, counters, SELECT |
| `MCTables` | statements and queries for TLC |
| `SequenceFacts` | facts about numbers, sets and sequences the proofs use |
| `FoldTheorems` | what `FoldLeft` and the sums of the community modules compute |
| `KVCacheOpsProofs` | lemmas for each operation: what it does to versions, and to what is stored |
| `KVCacheProofs` | invariants and action properties of `KVCache`; it implements `OptimisticStore` |
| `PersistenceProofs` | types, sequence numbers and corrupt logs of `Persistence` |
| `ConnectionProofs` | what output, answers and turns do to the account of memory, the replies, the hub and the sockets |
| `ServerProofs` | in every step of `Server` the account stays right and within its budget, and replies in order |
| `ClientProofs` | the invariants of the client's pool, its subscriber and its transactions |

### State and steps

JavaScript runs one call at a time and every operation of the class is
synchronous, so a call is one step and the operations are functions. The
record a function takes and yields has the fields of the class: `order` and
`entry` are the linked list and the index of `map`, `version` and
`versionOrder` those of `keyVersions`; `bytes`, `generation` and `absentEpoch`
have their names. `changed` stands for a change frame and `expired` for the
reports held back by an atomic frame. The index of deadlines `expiring` is
the part of `order` that carries a deadline and has no field.

The clock is part of the record. Time passes between calls (`Tick`), and
within a call between the readings that matter (`d \in Drift`): set and mset
compute a deadline and compare it later; incr judges an entry twice; cas,
expire and expireAt write after they looked; exec applies after it compared.
Eviction uses the latest reading.

Values are members of a small set with sizes. A `Number` is a value INCR
accepts; `base + by \notin Number` stands for its overflow check. A namespace
is the set of keys it covers. `MaxGeneration` bounds the versions a run uses;
in the code the bound is `Number.MAX_SAFE_INTEGER`. `VersionSlack` is the 512
in `bumpVersion`: the table is pruned above `2*MaxEntries + 2*VersionSlack`
and down to `MaxEntries + VersionSlack`.

`tx` holds one `KVTransaction` for each session. `stale` is a history
variable: the watched keys whose entry has changed since. It is what the
properties compare versions with; no guard reads it.

`OrderedMap` keeps what `KVCacheOps` abstracts: `Link` objects with their two
pointers, the closures of the undo journal as records of what they captured,
and the stack of frames. An unlinked object keeps its neighbours of that time,
because a closure or an open iterator may still hold it; objects nobody holds
are made `Free` after each step, so that garbage does not tell states apart.
`ExpiryIndex` has one such map for the entries and one for the deadlines,
filled by the first one's callback. All calls are one step again, but
`atomic()` is not: the calls its argument makes lie between `BeginAtomic` and
`CommitAtomic` or `RollbackAtomic`, and may open frames of their own. The
iterator that `sweepBudget` keeps from tick to tick is the link it will visit
next. `shown` and `copies` are history variables for the refinement of
`SavedCopies`; `beat` marks the steps of the timer.

`Persistence` splits what the server does where a crash can come between:
`Open` (constructor), `LoadAtStart`, `ReplayAtStart`, each mutation, and for
SAVE `SaveBegins` (number and image), `SaveRenames`, `SaveRotates`. A file is a
sequence of lines; a line is a record, a proper prefix of one, or something
else. A mutation runs in `cache.atomic` with its append, so it is one step:
`Logged`, `Refused` or `AppendFails`; `CrashInWrite` ends the process inside
the append. What LOAD and the queue of persistence jobs do to the cache is
here; how requests reach them is the server's part. `Tear` says what an
interrupted append may leave: nothing, a part that is not JSON, or a whole
record without its newline.

`Server` takes a callback of Node as a step, or one turn of a connection's
request loop (`drain`): it may be suspended between two requests, and while
one of them waits for a persistence job. What a callback does to connections is
a function of `Connections` on a record: `conn` (the `ConnState` of each),
`inflight` (the account of all memory) and `hub`. Requests, queued commands,
watched keys, subscriptions and chunks of output count as one unit each.
`plan` is what the clients and the embedding program do in a scenario, so
that a run need not try every script; when they do it, and how many requests
arrive at once (`Batch`), is free. `jobs` is the persistence queue, its head the
running job; `late` says that the deadline of `close()` has passed; `stale`
holds, for the properties, the watched keys that have changed.

`Client` sees of the server what a client can: it answers the requests of a
connection in order or not at all. A part of the client is one record: `pool`
(calls, connections, `replenishPool`), `sub` (operations, sockets, handlers)
and `tx` (a run and its attempts). Promise continuations run before timers and
sockets (`Quiet`, `SubQuiet`); a timer may fire whenever it is set, so every
order of a late reply and a timeout occurs. `close()` takes two turns: `life`
is `closing` between them.

`Tables` has one action for each kind of statement. A statement that throws
changes nothing, as the code checks everything before its first write, and is
no step; the model performs the same checks in a guard. A value is a type and
a text of small characters; a condition is a tree. SELECT is a function, and
`SelectRight` evaluates every query of the instance in every state.

## Runs

| Run | Instance | What it shows |
|---|---|---|
| `cache_operations` | 3 keys, 3 values (one refused), 2 entries or 4 bytes, 5 versions, clock to 2 | all operations, duplicates in batches, refused batches and images |
| `transactions` | 1 session, queue of 2 from 6 operations, 2 keys, drift 1, deadlines from EXPIREAT and queued operations | refinement of `OptimisticStore`, throwing operations, reports of rolled back calls; the direct calls between its steps are what other sessions do to it |
| `version_pruning` | 3 keys, 1 entry, no slack, 5 versions, no deadlines | forgotten versions |
| `incr_leak` | drift 1 in every call | finds the byte leak below |
| `nested_frames` | 2 keys, 3 entries, frames two deep, journals of 3 closures | a rollback by closures gives what saved copies give |
| `sweeper` | 2 keys, a sweeper of 2 visits a tick, one frame | the lists stay whole around a parked iterator, and every expired entry is removed in the end |
| `crash_recovery` | 2 keys, 5 commands, 7 bytes, 3 records, old and corrupt logs | kills between and inside all steps lose nothing answered, also when a record evicts and replay meets another order of use |
| `missing_newline`, `replay_evicts` | smaller ones | find the disagreements below |
| `server` | 2 clients, eleven scenarios: transactions, refusals, mutations with a log that works, fails or is missing, a slow listener, SAVE, LOAD and `close()` | order of replies, memory within its budget, announcements, EXEC over the wire, shutdown, answers |
| `client` | 23 programs of up to 3 calls, 3 operations on subscriptions, 3 in a transaction, over connections that break, time out and are refused | replies and commands given up, the pool, subscriptions and messages, retried runs, end of all work |
| `sql_tables` | 2 tables with up to 4 and 3 row ids, 4 rows and 24 bytes in all, 3 rows in a result | every order of statements; every query of a fixed set in every state |

The bounds are enough for the cases to happen. In `cache_operations` one write
can evict two keys (a text takes three bytes, a number two); with three keys
and a limit of one entry the version table exceeds its limit of two; five
versions allow a key to be written, evicted, forgotten and written again while
it is watched. Journals of three closures (`MaxUndo`) let an outer frame
relink an entry (two closures) and an inner one delete or overwrite another;
`MaxLinks` of 4 is never exhausted there. Three records (`MaxSeq`) let one be
covered by a snapshot, one be written while it is being saved and one follow
the rotation. `MaxTime` of 1 makes a deadline pass between any two steps.

No time passes within a call of `cache_operations`, as the exactness of the
byte total needs; it does in `transactions` and `incr_leak`, and in the theorems
that do not say otherwise. `sql_tables` has numbers of one digit, so that their
order is that of their texts, and a refused statement changes nothing there by
the form of the actions.

In `server` the limits are small enough to be met by a few requests: a socket
that presses back at 2 units, 3 units of output for a connection, 9 units for
all, 3 requests queued, 2 commands in a MULTI, 2 watched keys, 2 subscriptions
and 2 persistence jobs. Each scenario is there for one hazard, and the steps of
the other client, the disk, the sweeper and the clock come in between at any
point.

In `client` a pool of 2 with at most one request waiting on each connection
makes three calls wait for a connection, share one and be refused; 2 attempts
(4 in the code) make replenishing give up; one retry makes a run lose, win or
give up. Three connections and three sockets suffice for one to be lost and
replaced, as one that nobody remembers is used again.

In `sql_tables` row ids are not used again, so the bound on them bounds the
number of inserted rows; four rows over columns that are unique, indexed,
unindexed (`m`), nullable and of type `any` give ties, NULLs and every kind of
index plan, and 4 rows and 24 bytes in both tables together are reached.

In `crash_recovery` `Tear` leaves out the record without its newline, which the
code mishandles (`missing_newline`). Its logs of an older version give no `ttl` without a deadline after it: replay would extend it
at every start, as `src/README.md` says.

Three runs assume fairness.

- `sweeper`: the interval timer of `startSweeper` goes on firing
  (`TimerFires`). `SweptInTheEnd` speaks of behaviours in which nothing else
  runs from some point on; while keys are touched all the time they move behind
  the iterator, and the code promises nothing about when it reaches them.
- `server`: the event loop goes on. A running request loop takes its next turn,
  a destroyed socket gets its close event, a queued job begins, the deadline of
  `close()` passes, and `close()` continues once what it awaits is there.
  Neither clients nor the disk need to do anything for `ShutdownEnds`; that the
  disk answers and a client reads are hypotheses of `AnswersArrive`, not
  fairness.
- `client`: the client does not stop while something is due by itself, such as
  a continuation, a timer that is set, or the end of a socket (`Due`). What the
  program, the server and the network do in a program is finite, so this is
  weak fairness of those events. Every request and every dial has a timer in
  the code (`src/src/deadline.ts`, `src/src/transport.ts`), so the server need
  not answer.

A definition under the word "Mistake" in the modules is a plausible wrong
version of the one after it. In its place it makes the property named in
`PROJECT.json` (`mutants`) fail, so every property is known to be able to.

### Properties

- `ListsAgree`: list, index and version table name the same keys.
- `BytesExact`: the byte total is the size of what is stored. True while the
  clock does not move within a call, false if it does (`incr_leak`).
- `StoreFits`: what is stored never exceeds the total, nor the total the
  limit.
- `EvictsOldestAndNoMore`, `AcceptedWriteStays`: which keys a write evicts.
- `ImageFaithful`: dump and restore, at once or after deadlines have passed:
  what the saved cache would still hold, nothing evicted and nothing expired.
- `VersionsAdvance`, `VersionTableBounded`, `WatchSound`: versions are bounded
  in number and still never hide a change.
- `ReportsTrue`: the expiry listener hears of nothing that was rolled back.
- `CommitsAreSound`: the refinement.
- `ListsWhole`: forward and backward pointers, index and ends agree in both
  maps, after any deletions, insertions and rollbacks; no journal outlives its
  frames.
- `IndexMirrors`: the index of deadlines holds the entries with a deadline,
  although a rollback does not call back.
- `RollbackRestores`: the refinement of `SavedCopies`, order included.
- `SweptInTheEnd`: wherever the iterator was parked, on a removed link too.
- `NothingLost`: at every point a restart would give the contents after the
  last answered mutation, or after one whose record was written in full before
  the process was killed. `acked` is the set of these.
- `NumberedPastSnapshot`: no record is appended under a number that a later
  start takes for covered or out of order.
- `CorruptLogUntouched`: nothing changes a log with an unreadable line.

Of the server:

- `RepliesInOrder`: replies come in the order of the requests, with none
  missing, whatever waited for the disk or for the socket in between.
- `MemoryBounded`: the account is what the connections hold and stays within
  the budget; no connection has more output than its limit.
- `AnnouncedAsCommitted`: a listener is told, in the step in which it happens,
  of every entry that changes, by commands, EXEC, LOAD, expiry or the embedding
  program, and of nothing that is rolled back because its record or its
  transaction failed. Entries evicted by a write of another key are left out
  of the scenarios: they are not announced (`src/README.md:459`).
- `WatchRespected`: EXEC over the wire has an effect only if no watched key has
  changed since it was first watched, and its answer says whether it had one.
- `CleanStopSaved`: when `close()` resolves after its final save, the snapshot
  is the contents, although commands of open connections, queued jobs and the
  program go on while it waits.
- `ShutdownEnds`, `AnswersArrive`: see fairness.

Of the client:

- `OwnReply`: nobody is given the reply to somebody else's request, whatever
  timed out or broke before.
- `GivenUpStaysUnsent`: a command whose caller was told that it expired before
  dispatch is not dispatched later.
- `PoolWhole`: no connection is lost from sight, pooled twice or left open by
  `close()`, and none waits for a reply nobody will take.
- `Subscribed`: the server subscribes the current connection to every channel
  that has a handler, and no older connection lives.
- `NoneMissed`: after `subscribe()` returned, no message of the channel is
  missed until the connection is lost.
- `RunsAsTold`: what `runTransaction()` reports is what the server did, and the
  writes of a run are never applied twice. Writes the server refused are not
  counted: what it says of a commit is that it has all the others.
- `WorkEnds`: all work ends, even if the server never answers.

Of the tables:

- `TablesWhole`: indexes and primary keys hold exactly the rows there are, the
  counters of rows and bytes are what is stored, across tables, and limits hold.
- `SelectRight`: a query served by indexes, bitmaps of row ids and a heap gives
  what a scan of the table gives, with three-valued conditions, a declarative
  LIKE, and a sort.

### Findings

**Byte leak in incr** (`incr_leak`). `incr` reads the clock at
`src/src/cache.ts:690` and again at line 711. If the deadline passes in
between, line 711 takes the entry for expired and does not take its size back,
but line 715 overwrites it. The total stays too high until the cache is
cleared, although `src/README.md:667` says that `bytes` tracks key + JSON value
size. The entry also keeps its passed deadline, so the increment is lost at
the next access.

**Record without its newline** (`missing_newline`). When an append stops just
before the newline, readers accept the record and nobody completes the line
(`src/src/persistence.ts:510`). The next append continues on it, and the start
after that reads neither record, the second of which was answered.

**Replay evicts** (`replay_evicts`). A batch that names a key twice is logged
with final values in the order of first change, and replayed in that order
(`src/src/persistence.ts:382`). It can then exceed a limit that it did not
exceed when it ran, and evict a key the record does not name.

## Proofs

Every theorem holds for all values of the constants that satisfy the named
assumptions of the modules (`CacheAssumption`, `EntryAssumption`,
`InputAssumption`, `PersistenceAssumption`, `ConnectionsAssumption`,
`ServerAssumption`, `PoolAssumption`, `SubscriberAssumption`,
`ProgramAssumption`, `NoneIsNoCommand`, `RemoteTransactionAssumption`,
`FunctionAssumption`): any keys, values, limits, arguments,
numbers of sessions and connections, scripts, lengths of queues, drifts. They
say that numbers are integers, sizes and limits natural numbers (those of the
output and the budget not 0), that `None` is none of them, no entry, no
connection, no command and no outcome, that no connection is called "host" or
"close" as the owners of other jobs are, that
keys and connections are finitely many where the server needs it, and give the
arguments and what clients send their types.

| Module | Theorem | States |
|---|---|---|
| `KVCacheProofs` | `TypeCorrect`, `WatchIsSound`, `VersionsNeverReused`, `ReportsAreTrue` | `TypeOK`, `WatchSound`, `VersionsAdvance`, `ReportsTrue` |
| | `ListsAlwaysAgree`, `VersionTableNeverGrows`, `StoreNeverOverfull` | `ListsAgree`, `VersionTableBounded`, `StoreFits` |
| | `BytesStayExact`, `WritesStay`, `OldestEvictedFirst` (if `MaxDrift = 0`) | `BytesExact`, `AcceptedWriteStays`, `EvictsOldestAndNoMore` |
| | `TransactionsAreOptimistic` | `CommitsAreSound` |
| `PersistenceProofs` | `TypeCorrect` | `TypeOK` |
| | `NumbersStayNew`, `CorruptLogsStay` (if `TearsShow`) | `NumberedPastSnapshot`, `CorruptLogUntouched` |
| `ServerProofs` | `MemoryStaysBounded`, `RepliesStayInOrder` | `MemoryBounded`, `RepliesInOrder` |
| `ClientProofs` | `RepliesReachTheirCalls`, `ExpiredCallsStayUnsent`, `PoolStaysWhole` | `OwnReply`, `GivenUpStaysUnsent`, `PoolWhole` |
| | `SubscriptionsStay`, `NoMessageMissed` | `Subscribed`, `NoneMissed` |
| | `RunsTellTheTruth` | `RunsAsTold` |

**Versions.** The inductive invariant is `IInv`. `WatchSound` is not inductive
by itself: that a bump yields a version nobody has needs every version and the
absent epoch to be at most `generation` (`VersionsBounded`); that CLEAR bumps
every key it removes needs every present key to be linked (`PresentLinked`).
Both are properties of the cache record alone and form `GoodCache`. The
relation `Advances` between two records (no version falls, a changed entry or a
reported one has a higher version) is reflexive and transitive, so each
operation is shown to advance the record by its parts, and loops by
`FoldLeftInvariant`.

**Storage.** `SInv` says that the cache is in `Fit(MaxDrift)`: a good cache
whose lists enumerate the present keys and the keys with a version, whose
present keys have a version, whose version table is within its limit or holds
present keys only, which counts at least what it stores, exactly so if no time
passes within a call, and which is over its capacity only if it is empty. This
last clause looks odd and is needed: the leak in `incr` can leave more bytes
counted than the limit when nothing is stored at all, and every write is then
evicted at once. It is why exactness, and with it `WritesStay` and
`OldestEvictedFirst`, assume `MaxDrift = 0`; `incr_leak` shows that they need
to. The sum of the sizes is a fold over a set, about which `FoldTheorems` shows
that it does not depend on the order.

**Refinement.** It needs one more fact about EXEC's loop of comparisons:
versions only rise while it runs and a recorded version is never ahead, so a
comparison that succeeds shows the key unchanged since it was watched, and one
that removes an expired entry fails.

**Log.** `TInv` is the types together with `GoodCache`; replay goes through
the operations of the cache, whose lemmas give it. `LogInv` ties memory and
disk together: while the process is up and has not called the log corrupt,
every line is readable and numbered up to `seq`; the snapshot is never ahead of
`seq` while the server works; a running SAVE has a number of at most `seq`, and
once it has renamed its file the snapshot has that number. It needs
`TearsShow`, that an interrupted append leaves nothing or a part of its record:
a whole record without its newline is taken for complete and the next append
makes the log corrupt without `status` telling, which is the finding of
`missing_newline`. `NothingLost` itself is false for some instances, as
`missing_newline` and `replay_evicts` show, and stays with TLC.

**Memory.** Between two callbacks every account is right, but within one the
functions of `Connections` work on a connection whose account is not up to date
yet, such as a queue that has just grown. `Loose(S)` are the states in which
this holds of the connections in `S` only, and `Exact` is `Loose({})`; each
function is shown to take one such set into another, a loop over listeners to
stay in its set, and whatever ends a turn to lead back to `Exact`. The counter
is the sum of the accounts all the time, since it moves with them; that a sum
changes by what one summand does is `SumOfRest`. Three facts make it
inductive, each part of `Decent`. A connection that is closed but still has its
socket holds no more than it is accounted for: its account is brought up to
date again, and were that to fail nobody would disconnect it, as it counts as
closed. Hence one that is ending waits with output in the queue or with the
buffer full, so that it is closed by a drain and only there. And one that does
not exist yet is accounted for nothing. A reply is written before the turn
ends the connection, so `endSocket` finds an account that is right, or a
connection that is mute. The invariant `ServerInv` adds the types of the
cache, the jobs and the snapshot, as what is published comes from them.

**Replies.** Between two callbacks `RepliesInOrder` is nearly its own
invariant; what it lacks is who is under way while the loop is suspended.
`Attending` adds that a connection waits exactly while its last request is in
work, and `Orderly` that a job owned by a connection carries the number of that
request and that nobody waits for two jobs. A job that ends can therefore answer
only the last request taken. Of a function that writes it is enough to know
which request the chunk answers: the first unanswered one, or the same again for
the acknowledgements of SUBSCRIBE and UNSUBSCRIBE. A request may go unanswered
only where the connection is cut off in the same turn, or for an UNSUBSCRIBE,
which says nothing when nothing is subscribed.

**Pool.** `OwnReply` is not inductive: it needs `Answerable`, that a live
connection waits for exactly the requests the server has still to answer, in
that order. This is why `failConn` has to take the connection down whenever one
request is given up. Both are properties of the pool record alone and form
`GoodPool`. `From(p)` are the good pools in which no call is sent that was not
sent in `p`; every function of `ClientPool` yields a member, loops again by
`FoldLeftInvariant`, and `Send` is the only step that leaves it, which it does
for a caller who has been told nothing.

`PoolWhole` needs what a step does in its middle: `failConn` and the
replenishing dial work on connections that are in no pool yet or no more.
`Kept(S)` are the good pools in which every open connection is pooled or is in
`S`, and no call counts on one in `S`; each function is shown to lead from one
such set to another, and between steps `S` is what `replenishPool()` has in
hand. A new connection takes the place of one that nobody remembers, and the
pool of a closed client stays empty (`Emptied`).

**Subscriber.** `SubInv` says which sockets may be up and what is under way on
the one that is: at most one socket is current, at most one dial is still
wanted and only on behalf of the running operation that has not been told, and
at most one answer is on its way to the operation that waits for it
(`Answering`). Every channel with a handler is then subscribed at the server, or
among those the running operation has still to restore, or being asked for;
this is what makes `Subscribed` inductive although re-subscribing goes channel
by channel and may break off between any two. For `NoneMissed`, what is owed to
a handler is in the part of the socket's stream that the client has not read.

**Transactions of the client.** `TxInv` relates three parties that see each
other only through a stream: the function, the connection's waiters and the
server's session. Its conjuncts: the line carries exactly what the running
operation waits for, so an answer is taken by the call that asked (`Linked`,
`Queued`); while a commit is possible, the writes the function has called so far
are, in their order, those in the server's batch, those that wait to be sent or
served, and those refused (`Content`); while EXEC is under way nothing has been
applied, and its answer tells whether the batch has been (`Applied`, `Fits`);
earlier attempts leave nothing at the server (`Elsewhere`), and a run that is
over holds no connection (`Placed`). A run that is told `failed` after EXEC was
sent may have been applied, which is why `RunsAsTold` says of it only that it
was not applied twice.

**Only model-checked.** `ImageFaithful`; `NothingLost`; the ordered map with
its index and frames; the announcements and transactions of the server;
`TypeOK` of the client as a whole, of which `SubInvTyped` and
`TxInvTyped` prove the parts about the subscriber and the transactions; the
tables, whose
conditions are evaluated by recursive operators. Liveness and ENABLED are
outside what the installed provers handle, and so are recursive operators and
induction over data by the library's theorems; loops are folds here, and
`FoldTheorems` derives what is needed about them from their definition.
`Filter` is a fold in place of `SelectSeq` for the same reason.
Every loop has an instance of `FoldTheorems`, which is why that module extends
as little as it can.

## Not modelled

**Files.** A kill of the process loses memory and keeps what was written; loss
of power, which may take unsynced records, is not modelled, nor are the size
limits of the log and the snapshot, exports to other paths, and in
`Persistence` a server without a log or without a snapshot. A sweep visits at
least one entry a tick; how many more the time budget allows is a free choice.

**Server.** INFO and the counters, the HTTP endpoint, the wording of errors,
and the limits on the size of the replies of MGET and TTL.

**Client.** `begin()` and `unwatch()`, the health check, the limits counted in
bytes, the limit of queued subscriptions, and one function registered twice as
a handler. GET, MGET and TTL are one kind of call; writes are another.

**SQL.** Boolean values, the choice of SELECT's columns and its limit on bytes,
EXPLAIN and PROFILE, the cache of parsed statements, the work limit of LIKE,
the forwarding facade in `src/index.ts`.

**Parsers.** The RESP reader, the inline protocol, `json-prefix` and the SQL
parser turn bytes into requests. What is hard in them is every cut of every
text, which a unit test enumerates as well as TLC does; the models take requests
whole.

**Left out for good**: the slow log and other statistics, cloning and
validation of arguments, TLS, the health endpoint, the command line.

### Observations

Behaviour the models follow or avoid, for which no run claims otherwise:

- A write to `server.cache` before `start()` is done, after a rotation has
  emptied the log, gets a number that the snapshot covers; `start()` skips its
  record (`src/src/server.ts:1055`).
- DEL of several keys without a log stops at the first key that throws, after
  earlier ones were deleted; those are not announced
  (`src/src/server.ts:2291`). The scenarios have no key that throws.
- UNSUBSCRIBE with nothing subscribed gets no reply.
- Requests that arrived behind a QUIT may still run while the output of the
  connection is pressed back.
- `close()` ends the sockets: replies that were still in the server's own queue
  are lost, and a later write to such a socket destroys it.
- Commands that wait for a pooled connection fail when replenishing does,
  although some of the connections may have been made.
- After the loss of the subscriber connection nothing subscribes again by
  itself; the next `subscribe()` or `reconnectSubscriptions()` does.
- LIKE compares a character before it considers a wildcard
  (`src/src/query-utils.ts:63`): a text that contains "%" where the pattern has
  one takes it for a literal match, and `'%x John' LIKE '%John%'` is false. The
  texts of `sql_tables` have no "%".
- EXPLAIN of an AND with one side an index serves reports an index scan, as
  `src/README.md:550` says; `src/README.md:686` says that mixed predicates
  report `full-scan`.

`components` in `PROJECT.json` says the same for each part, and `hazards`
which property covers what.
