------------------------------- MODULE Server -------------------------------
(***************************************************************************)
(* YasdServer (src/server.ts): connections and their requests, the         *)
(* transactions of the wire protocol, mutations with their log records and *)
(* invalidations, the queue of SAVE and LOAD, and shutdown.  The cache is  *)
(* that of KVCacheOps and the connections are those of Connections; what   *)
(* the log and the snapshot hold after a crash is Persistence's part.      *)
(*                                                                         *)
(* A step is one callback of the event loop, or one turn of the loop that  *)
(* drains the requests of a connection: other callbacks run only where     *)
(* that loop awaits.                                                       *)
(*                                                                         *)
(* `plan` is what the environment will do: the requests each client sends, *)
(* the writes of the embedding program (`host`), whether there is a log,   *)
(* and bounds the clock (`until`).                                         *)
(* `jobs` is the persistence queue, the running job first.  `late` says    *)
(* that the shutdown deadline has passed.  `stale` is a history variable:  *)
(* the keys a connection watches whose entries changed since it first      *)
(* watched them.                                                           *)
(***************************************************************************)
EXTENDS KVCacheOps, Connections, FiniteSetsExt

CONSTANTS
  Plan,
  Invalidate,     \* the channel __yasd__:invalidate
  Batch,          \* requests one data event may bring
  MaxQueued,      \* maxQueuedRequests
  MaxCommands,    \* maxTransactionCommands
  MaxWatched,     \* maxWatchedKeys
  MaxSubs,        \* maxSubscriptions
  MaxJobs,        \* 64 in the code
  MaxConns,       \* maxConnections
  SlowCommand     \* commands that may take longer than maxCommandMs

(* What a client may send, and what the environment does in a scenario.    *)
Command ==
  [cmd : {"PING"}] \cup
  [cmd : {"GET", "DEL"}, keys : Seq(Key)] \cup
  [cmd : {"PUT"}, op : Queueable]

Request ==
  Command \cup
  [cmd : {"UNWATCH", "MULTI", "EXEC", "DISCARD", "UNSUBSCRIBE", "SAVE", "LOAD",
          "QUIT"}] \cup
  [cmd : {"AUTH"}, good : BOOLEAN] \cup
  [cmd : {"WATCH"}, keys : Seq(Key)] \cup
  [cmd : {"SUBSCRIBE"}, channels : Seq(Channel) \ {<<>>}] \cup
  [cmd : {"PUBLISH"}, channel : Channel]

Scenario ==
  [log : {"off", "good", "failing"},
   password : BOOLEAN, idle : BOOLEAN, autosave : BOOLEAN, closes : BOOLEAN,
   finalSave : BOOLEAN, host : Seq(Command), until : Nat,
   script : [Conn -> Seq(Request)]]

(* "host" and "close" own the jobs that no connection waits for.           *)
ASSUME ServerAssumption ==
  /\ Plan \subseteq Scenario
  /\ Batch \subseteq Nat
  /\ {MaxQueued, MaxCommands, MaxWatched, MaxSubs, MaxJobs, MaxConns} \subseteq Nat
  /\ Invalidate \in Channel
  /\ IsFiniteSet(Key)
  /\ Conn \cap {"host", "close"} = {}

VARIABLES plan, net, cache, log, snapshot, jobs, phase, late, stale

vars == <<plan, net, cache, log, snapshot, jobs, phase, late, stale>>

conn == net.conn

Left == {"stopped", "failed"}

Snapshots == {None} \cup Seq(ImageEntry)

Job == [kind : {"save", "load"}, owner : Conn \cup {"host", "close"},
        re : Nat, begun : BOOLEAN, image : Snapshots]

Init ==
  /\ plan \in Plan
  /\ net = [conn |-> [c \in Conn |-> NoConn], inflight |-> 0,
            hub |-> [ch \in Channel |-> <<>>]]
  /\ cache = EmptyCache
  /\ log = plan.log
  /\ snapshot = None
  /\ jobs = <<>>
  /\ phase = "open"
  /\ late = FALSE
  /\ stale = [c \in Conn |-> {}]

-----------------------------------------------------------------------------
(* Commands: what executeCommand does to the cache, and what it announces. *)

Event(kind, k) == [event |-> kind, key |-> k]

(* Whether an operation on k did more than remove an expired entry.        *)
Bumped(c, d, k) == d.generation > Reap(c, k).generation

Announced(c, d, op) ==
  CASE op.op \in {"set", "incr"} -> <<Event("set", op.key)>>
    [] op.op = "mset"  -> [i \in DOMAIN op.batch |->
                             Event("set", op.batch[i].key)]
    [] op.op = "clear" -> <<[event |-> "clear", prefix |-> op.prefix]>>
    [] OTHER -> IF ~ Bumped(c, d, op.key) THEN <<>>
                ELSE <<Event(IF op.op = "cas" THEN "set" ELSE op.op, op.key)>>

Nothing(c) == [ok |-> TRUE, cache |-> c, events |-> <<>>]

Reading(r, k) ==
  IF ~ r.ok THEN r
  ELSE LET g == Get(r.cache, k) IN [r EXCEPT !.ok = g.ok, !.cache = g.cache]

(* DEL announces what it deleted, unless a key it refuses comes later.     *)
Deleting(r, k) ==
  IF ~ r.ok THEN r
  ELSE LET d == Del(r.cache, k)
       IN  [ok |-> d.ok, cache |-> d.cache,
            events |-> IF Bumped(r.cache, d.cache, k)
                       THEN Append(r.events, Event("del", k)) ELSE r.events]

Execute(c, req) ==
  CASE req.cmd = "PING" -> Nothing(c)
    [] req.cmd = "GET"  -> FoldLeft(Reading, Nothing(c), req.keys)
    [] req.cmd = "DEL"  -> FoldLeft(Deleting, Nothing(c), req.keys)
    [] req.cmd = "PUT"  -> LET r == Apply(c, req.op)
                           IN  [ok |-> r.ok, cache |-> r.cache,
                                events |-> IF r.ok
                                           THEN Announced(c, r.cache, req.op)
                                           ELSE <<>>]

(* All the commands of an EXEC run, the failure of one fails the whole.    *)
ExecuteNext(r, req) ==
  LET e == Execute(r.cache, req)
  IN  [ok |-> r.ok /\ e.ok, cache |-> e.cache, events |-> r.events \o e.events]

ExecuteAll(c, queue) == FoldLeft(ExecuteNext, Nothing(c), queue)

Expiries(c) == LET ks == SetToSeq(c.expired)
               IN  [i \in DOMAIN ks |-> Event("expire", ks[i])]

(* Without a log a mutation is not atomic: what it did stays.              *)
Plainly(r) ==
  [ok |-> r.ok, cache |-> r.cache,
   events |-> Expiries(r.cache) \o (IF r.ok THEN r.events ELSE <<>>)]

(* Mistake: the invalidations of a failed mutation are published.          *)
AtomicallyTelling(c, r, logged) ==
  IF r.ok /\ (r.cache.changed = <<>> \/ logged) THEN Plainly(r)
  ELSE [ok |-> FALSE, cache |-> RolledBack(c, r.cache),
        events |-> r.events]

(* atomicChanges(): the record is appended before the change is final, and *)
(* only then is anything published.                                        *)
Atomically(c, r, logged) ==
  IF r.ok /\ (r.cache.changed = <<>> \/ logged) THEN Plainly(r)
  ELSE [ok |-> FALSE, cache |-> RolledBack(c, r.cache), events |-> <<>>]

Mutation(r, logged) ==
  IF log = "off" THEN Plainly(r) ELSE Atomically(cache, r, logged)

(* Whether an append works; after one that failed none does.               *)
Appends == CASE log = "off"     -> {TRUE}
             [] log = "good"    -> {TRUE}
             [] log = "failing" -> {TRUE, FALSE}
             [] log = "broken"  -> {FALSE}

LogAfter(r, logged) ==
  IF r.ok /\ r.cache.changed # <<>> /\ ~ logged THEN "broken" ELSE log

PublishAll(n, events) ==
  FoldLeft(LAMBDA m, e : Publish(m, Invalidate, e), n, events)

-----------------------------------------------------------------------------
(* The cache after a step, and what watching connections have missed.      *)

Watching(k) == DOMAIN k.watch

Became(c) ==
  LET touched == {k \in Key : c.entry[k] # cache.entry[k]}
  IN  /\ cache' = [c EXCEPT !.changed = <<>>, !.expired = {}]
      /\ stale' = [d \in Conn |->
                     {k \in Watching(net'.conn[d]) :
                        k \in stale[d] \cup (touched \cap Watching(conn[d]))}]

Still == UNCHANGED <<cache, stale, log>>

-----------------------------------------------------------------------------
(* Sockets.                                                                *)

Registered == {c \in Conn : conn[c].socket \in {"open", "ended", "destroyed"}}

Connect(c) ==
  /\ conn[c].socket = "none"
  /\ phase = "open"
  /\ net' = [net EXCEPT !.conn[c] =
               IF Cardinality(Registered) >= MaxConns
               THEN [NoConn EXCEPT !.socket = "gone"]
               ELSE NewConn(~ plan.password)]
  /\ UNCHANGED <<plan, jobs, snapshot, phase, late>> /\ Still

Started(b, c) ==
  IF b.ok /\ b.net.conn[c].loop = "idle"
  THEN [b.net EXCEPT !.conn[c].loop = "running"] ELSE b.net

QueueUp(a, c, n, room) ==
  IF ~ a.ok THEN a.net
  ELSE IF n > room
  THEN Disconnect([a.net EXCEPT !.conn[c].arrived = @ + room], c)
  ELSE Started(Account([a.net EXCEPT !.conn[c].arrived = @ + n], c, 0), c)

(* onData(): the requests of one data event join the queue and the loop is *)
(* started unless it runs.                                                 *)
Arrive(c, n) ==
  LET k == conn[c]
  IN  /\ phase = "open" /\ ~ k.closed
      /\ k.arrived + n <= Len(plan.script[c])
      /\ net' = QueueUp(Account(net, c, n), c, n,
                        MaxQueued - (k.arrived - k.taken))
      /\ UNCHANGED <<plan, jobs, snapshot, phase, late>> /\ Still

Take(c) ==
  /\ conn[c].wire # <<>>
  /\ net' = Taken(net, c)
  /\ UNCHANGED <<plan, jobs, snapshot, phase, late>> /\ Still

(* The client hangs up or the connection breaks.                           *)
ClientLeaves(c) ==
  /\ conn[c].socket \in {"open", "ended"}
  /\ net' = Cleanup(net, c)
  /\ UNCHANGED <<plan, cache, log, jobs, snapshot, phase, late>>
  /\ stale' = [stale EXCEPT ![c] = {}]

CloseEvent(c) ==
  /\ conn[c].socket = "destroyed"
  /\ net' = Cleanup(net, c)
  /\ UNCHANGED <<plan, cache, log, jobs, snapshot, phase, late>>
  /\ stale' = [stale EXCEPT ![c] = {}]

(* idleConnectionTimeoutMs passes without traffic.                         *)
IdleTimeout(c) ==
  /\ plan.idle
  /\ conn[c].socket = "open" /\ ~ conn[c].closed
  /\ net' = Disconnect(net, c)
  /\ UNCHANGED <<plan, jobs, snapshot, phase, late>> /\ Still

-----------------------------------------------------------------------------
(* One turn of drainRequests: the next request of a connection.            *)

Requested(c) == plan.script[c][conn[c].taken + 1]

Proceeds(c) ==
  /\ conn[c].loop = "running"
  /\ conn[c].arrived > conn[c].taken /\ ~ conn[c].closed /\ phase = "open"

LoopEnds(c) ==
  /\ conn[c].loop = "running"
  /\ conn[c].arrived = conn[c].taken \/ conn[c].closed \/ phase # "open"
  /\ net' = Account([net EXCEPT !.conn[c].loop = "idle"], c, 0).net
  /\ UNCHANGED <<plan, jobs, snapshot, phase, late>> /\ Still

Begun(c) ==
  [net EXCEPT !.conn[c] = [@ EXCEPT !.taken = conn[c].taken + 1, !.active = 1]]

Reply(n, c, kind) ==
  Write(n, c, [kind |-> kind, re |-> n.conn[c].taken]).net

(* The end of a turn: the loop goes on if there is more to do.             *)
GoesOn(a, c) ==
  [a.net EXCEPT !.conn[c].loop =
     IF a.ok /\ a.net.conn[c].arrived > a.net.conn[c].taken THEN "running"
     ELSE "idle"]

Turned(n, c) == GoesOn(Account([n EXCEPT !.conn[c].active = 0], c, 0), c)

Hangs(n, c) == [Turned(EndSocket(n, c), c) EXCEPT !.conn[c].loop = "idle"]

(* The turn answers and ends; a command over its time budget ends the      *)
(* connection as well.                                                     *)
Answer(n, c, kind) ==
  \/ net' = Turned(Reply(n, c, kind), c)
  \/ /\ Requested(c).cmd \in SlowCommand
     /\ net' = Hangs(Reply(n, c, kind), c)

Transactional == {"PING", "GET", "DEL", "PUT"}

InSubscriberMode == {"SUBSCRIBE", "UNSUBSCRIBE", "PING", "QUIT", "AUTH"}

Permitted(k, cmd) ==
  /\ k.authed \/ cmd \in {"AUTH", "QUIT"}
  /\ ~ k.subMode \/ cmd \in InSubscriberMode

(* A command that is an error where it stands.                             *)
Misplaced(k, req) ==
  CASE req.cmd = "AUTH"  -> k.multi \/ (plan.password /\ ~ req.good)
    [] req.cmd = "WATCH" -> \/ k.multi
                            \/ Cardinality(Watching(k) \cup ToSet(req.keys))
                                 > MaxWatched
    [] req.cmd = "MULTI" -> k.multi
    [] req.cmd \in {"EXEC", "DISCARD"} -> ~ k.multi
    [] req.cmd = "UNWATCH" -> FALSE
    [] req.cmd = "SUBSCRIBE" ->
         \/ k.multi
         \/ Cardinality(k.subs \cup ToSet(req.channels)) > MaxSubs
    [] req.cmd \in Transactional -> FALSE
    [] OTHER -> k.multi

Refuse(c) ==
  /\ Proceeds(c)
  /\ \/ ~ Permitted(conn[c], Requested(c).cmd)
     \/ Misplaced(conn[c], Requested(c))
  /\ net' = Turned(Reply(Begun(c), c, "error"), c)
  /\ UNCHANGED <<plan, jobs, snapshot, phase, late>> /\ Still

(* The next request of c is well placed and is one of cmds.                *)
Asks(c, cmds) ==
  /\ Proceeds(c)
  /\ Requested(c).cmd \in cmds
  /\ Permitted(conn[c], Requested(c).cmd)
  /\ ~ Misplaced(conn[c], Requested(c))
  /\ UNCHANGED <<plan, snapshot, phase, late>>

Auth(c) ==
  /\ Asks(c, {"AUTH"})
  /\ Answer([Begun(c) EXCEPT !.conn[c].authed = TRUE], c, "ok")
  /\ UNCHANGED jobs /\ Still

Quit(c) ==
  /\ Asks(c, {"QUIT"})
  /\ net' = Hangs(Reply(Begun(c), c, "ok"), c)
  /\ UNCHANGED jobs /\ Still

(* Mistake: watching a key again renews its version.                       *)
WatchedAnew(k, c, keys) ==
  LET d == FoldLeft(Reap, c, keys)
  IN  [cache |-> d,
       watch |-> [key \in Watching(k) \cup ToSet(keys) |->
                    IF key \in ToSet(keys) THEN Version(d, key)
                    ELSE k.watch[key]]]

(* WATCH keeps the version of a key that is watched already.               *)
WatchedMore(k, c, keys) ==
  LET new == Filter(keys, Key \ Watching(k))
      d   == FoldLeft(Reap, c, new)
  IN  [cache |-> d,
       watch |-> [key \in Watching(k) \cup ToSet(keys) |->
                    IF key \in Watching(k) THEN k.watch[key]
                    ELSE Version(d, key)]]

Watches(c, w) ==
  /\ Answer(PublishAll([Begun(c) EXCEPT !.conn[c].watch = w.watch],
                       Expiries(w.cache)), c, "ok")
  /\ Became(w.cache)

Watch(c) ==
  /\ Asks(c, {"WATCH"})
  /\ Watches(c, WatchedMore(conn[c], cache, Requested(c).keys))
  /\ UNCHANGED <<jobs, log>>

Unwatch(c) ==
  /\ Asks(c, {"UNWATCH"})
  /\ Answer([Begun(c) EXCEPT !.conn[c].watch = <<>>], c, "ok")
  /\ Became(cache)
  /\ UNCHANGED <<jobs, log>>

Multi(c) ==
  /\ Asks(c, {"MULTI"})
  /\ Answer([Begun(c) EXCEPT !.conn[c] =
                [@ EXCEPT !.multi = TRUE, !.txFailed = FALSE]], c, "ok")
  /\ UNCHANGED jobs /\ Still

WithoutTx(n, c) ==
  [n EXCEPT !.conn[c] =
     [@ EXCEPT !.multi = FALSE, !.tx = <<>>, !.watch = <<>>]]

Discard(c) ==
  /\ Asks(c, {"DISCARD"})
  /\ Answer(WithoutTx(Begun(c), c), c, "ok")
  /\ Became(cache)
  /\ UNCHANGED <<jobs, log>>

(* Inside MULTI a command is queued, up to the limit.                      *)
Enqueue(c) ==
  LET k    == conn[c]
      full == k.txFailed \/ Len(k.tx) >= MaxCommands
  IN  /\ Asks(c, Transactional)
      /\ k.multi
      /\ IF full
         THEN net' = Turned(Reply([Begun(c) EXCEPT !.conn[c].txFailed = TRUE],
                                  c, "error"), c)
         ELSE Answer([Begun(c) EXCEPT !.conn[c].tx = Append(@, Requested(c))],
                     c, "ok")
      /\ UNCHANGED jobs /\ Still

(* EXEC compares versions up to the first that differs ...                 *)
CheckWatch(k, c) ==
  FoldLeft(LAMBDA r, key :
             IF ~ r.ok THEN r
             ELSE LET d == Reap(r.cache, key)
                  IN  [ok |-> Version(d, key) = k.watch[key], cache |-> d],
           Done(c), SetToSeq(Watching(k)))

(* ... and what was queued runs over an unchanged cache, all or nothing.   *)
ExecFinds(c, checked) ==
  /\ ~ checked.ok
  /\ Answer(PublishAll(WithoutTx(Begun(c), c), Expiries(checked.cache)), c, "nil")
  /\ Became(checked.cache)
  /\ UNCHANGED log

ExecTold(c, checked, a) ==
  PublishAll(WithoutTx(Begun(c), c), Expiries(checked.cache) \o a.events)

(* A failed command is part of the answer, a failed append an error.       *)
ExecEnds(c, checked, r, a) ==
  /\ IF r.ok /\ ~ a.ok
     THEN net' = Turned(Reply(ExecTold(c, checked, a), c, "error"), c)
     ELSE Answer(ExecTold(c, checked, a), c,
                 IF a.ok THEN "array" ELSE "failed")
  /\ Became(a.cache)

ExecRuns(c, checked, r) ==
  /\ checked.ok
  /\ \E logged \in Appends :
       /\ ExecEnds(c, checked, r, Atomically(checked.cache, r, logged))
       /\ log' = LogAfter(r, logged)

ExecOver(c, checked) ==
  \/ ExecFinds(c, checked)
  \/ ExecRuns(c, checked,
              ExecuteAll([checked.cache EXCEPT !.changed = <<>>,
                                               !.expired = {}], conn[c].tx))

Exec(c) ==
  /\ Asks(c, {"EXEC"})
  /\ ~ conn[c].txFailed
  /\ ExecOver(c, CheckWatch(conn[c], cache))
  /\ UNCHANGED jobs

ExecFailed(c) ==
  /\ Asks(c, {"EXEC"})
  /\ conn[c].txFailed
  /\ net' = Turned(Reply([WithoutTx(Begun(c), c) EXCEPT
                           !.conn[c].txFailed = FALSE], c, "error"), c)
  /\ Became(cache)
  /\ UNCHANGED <<jobs, log>>

(* Commands outside MULTI: a read, or a mutation with its record.          *)
Ends(c, m) ==
  /\ IF m.ok THEN Answer(PublishAll(Begun(c), m.events), c, "ok")
     ELSE net' = Turned(Reply(PublishAll(Begun(c), m.events), c, "error"), c)
  /\ Became(m.cache)

Reads(c) ==
  /\ Asks(c, {"PING", "GET"})
  /\ ~ conn[c].multi
  /\ Ends(c, Plainly(Execute(cache, Requested(c))))
  /\ UNCHANGED <<jobs, log>>

MutatesBy(c, r) ==
  \E logged \in Appends :
    /\ Ends(c, Mutation(r, logged))
    /\ log' = LogAfter(r, logged)

Mutates(c) ==
  /\ Asks(c, {"DEL", "PUT"})
  /\ ~ conn[c].multi
  /\ MutatesBy(c, Execute(cache, Requested(c)))
  /\ UNCHANGED jobs

(* SUBSCRIBE listens on every channel, then acknowledges each, as long as  *)
(* writing works.                                                          *)
Acknowledge(n, c, channels, kind) ==
  FoldLeft(LAMBDA m, ch : Reply(m, c, kind), n, channels)

Subscribe(c) ==
  LET chs == Requested(c).channels
      n   == FoldLeft(LAMBDA m, ch : Listen(m, c, ch),
                      [Begun(c) EXCEPT !.conn[c].subMode = TRUE], chs)
  IN  /\ Asks(c, {"SUBSCRIBE"})
      /\ net' = Turned(Acknowledge(n, c, chs, "subscribed"), c)
      /\ UNCHANGED jobs /\ Still

(* UNSUBSCRIBE of one channel after the other, until a write fails;        *)
(* without one it has nothing to answer.                                   *)
Dropping(n, c, ch) ==
  Write(Unlisten(n, c, ch), c,
        [kind |-> "unsubscribed", re |-> n.conn[c].taken])

Unsubscribed(n, c) ==
  Turned([n EXCEPT !.conn[c].subMode = n.conn[c].subs # {}], c)

Unsubscribe(c) ==
  /\ Asks(c, {"UNSUBSCRIBE"})
  /\ net' = Unsubscribed(
               FoldLeft(LAMBDA r, ch : IF r.ok THEN Dropping(r.net, c, ch) ELSE r,
                        Yes(Begun(c)), SetToSeq(conn[c].subs)).net, c)
  /\ UNCHANGED jobs /\ Still

PublishNote(c) ==
  /\ Asks(c, {"PUBLISH"})
  /\ Answer(Publish(Begun(c), Requested(c).channel, "note"), c, "ok")
  /\ UNCHANGED jobs /\ Still

-----------------------------------------------------------------------------
(* The persistence queue.                                                  *)

NewJob(kind, owner, re) ==
  [kind |-> kind, owner |-> owner, re |-> re, begun |-> FALSE, image |-> None]

(* Mistake: the loop does not wait for the job.                            *)
AwaitNothing(n, c) == Turned(n, c)

Await(n, c) ==
  Account([n EXCEPT !.conn[c].loop = "waiting"], c, 0).net

(* SAVE and LOAD of a client wait their turn, the client for them.         *)
SaveOrLoad(c) ==
  LET n == Begun(c)
  IN  /\ Asks(c, {"SAVE", "LOAD"})
      /\ IF Len(jobs) >= MaxJobs
         THEN net' = Turned(Reply(n, c, "error"), c) /\ UNCHANGED jobs
         ELSE /\ net' = Await(n, c)
              /\ jobs' = Append(jobs,
                           NewJob(IF Requested(c).cmd = "SAVE" THEN "save"
                                  ELSE "load", c, n.conn[c].taken))
      /\ Still

Autosave ==
  /\ plan.autosave
  /\ phase = "open" /\ jobs = <<>>
  /\ jobs' = <<NewJob("save", "host", 0)>>
  /\ UNCHANGED <<plan, net, snapshot, phase, late>> /\ Still

(* SAVE takes its image here, LOAD reads the file.                         *)
JobBegins ==
  /\ jobs # <<>> /\ ~ Head(jobs).begun
  /\ jobs' = [jobs EXCEPT ![1] =
                [@ EXCEPT !.begun = TRUE,
                          !.image = IF Head(jobs).kind = "save" THEN Dump(cache)
                                    ELSE snapshot]]
  /\ UNCHANGED <<plan, net, snapshot, phase, late>> /\ Still

(* The promise of a finished job settles: its owner goes on.               *)
Settled(n, job, ok) ==
  IF job.owner \notin Conn THEN n
  ELSE LET k == n.conn[job.owner]
       IN  Turned(Write(n, job.owner,
                        [kind |-> IF ok THEN "ok" ELSE "error",
                         re |-> job.re]).net, job.owner)

(* The last step of close() empties the hub, whatever went wrong.          *)
Leaves(n, next) ==
  /\ phase' = next
  /\ net' = IF next \notin Left \/ phase \in Left THEN n
            ELSE [n EXCEPT !.hub = [ch \in Channel |-> <<>>]]

(* close() waits for its own job, the last one, until the deadline.        *)
AfterFinal(job, ok) ==
  IF job.owner # "close" \/ phase # "saving" THEN phase
  ELSE IF ok THEN "stopped" ELSE "failed"

JobDone(job) ==
  jobs # <<>> /\ job = Head(jobs) /\ job.begun /\ jobs' = Tail(jobs)

JobFails ==
  LET job == Head(jobs)
  IN  /\ JobDone(job)
      /\ Leaves(Settled(net, job, FALSE), AfterFinal(job, FALSE))
      /\ UNCHANGED <<plan, snapshot, late>> /\ Still

(* The snapshot is renamed; a broken log then refuses its rotation.        *)
Saved ==
  LET job == Head(jobs)
      ok  == log # "broken"
  IN  /\ JobDone(job) /\ job.kind = "save"
      /\ snapshot' = job.image
      /\ Leaves(Settled(net, job, ok), AfterFinal(job, ok))
      /\ UNCHANGED <<plan, late>> /\ Still

Replacing(r) ==
  [ok |-> r.ok, cache |-> r.cache, events |-> <<[event |-> "load"]>>]

LoadEnds(job, a) ==
  /\ net' = Settled(PublishAll(net, a.events), job, a.ok)
  /\ Became(a.cache)

LoadedAs(job, r) ==
  \E logged \in Appends :
    /\ LoadEnds(job, Atomically(cache, r, logged))
    /\ log' = LogAfter(r, logged)

(* LOAD replaces the contents in one step, logged like any other change.   *)
Loaded ==
  LET job == Head(jobs)
  IN  /\ JobDone(job) /\ job.kind = "load" /\ job.image # None
      /\ LoadedAs(job, Replacing(Replace(cache, job.image)))
      /\ UNCHANGED <<plan, snapshot, phase, late>>

-----------------------------------------------------------------------------
(* The embedding program, time, and the sweeper.                           *)

Told(m) == net' = PublishAll(net, m.events) /\ Became(m.cache)

WrittenBy(r) ==
  \E logged \in Appends :
    /\ Told(Mutation(r, logged))
    /\ plan' = [plan EXCEPT !.host = Tail(@)]
    /\ log' = LogAfter(r, logged)
    /\ UNCHANGED <<jobs, snapshot, phase, late>>

(* Mistake: a server that closes still takes writes of its program.        *)
HostWritesAlways ==
  /\ plan.host # <<>>
  /\ WrittenBy(Execute(cache, Head(plan.host)))

(* server.cache goes the way of a command, and throws once close() began.  *)
HostWrites ==
  /\ plan.host # <<>> /\ phase = "open"
  /\ WrittenBy(Execute(cache, Head(plan.host)))

Tick ==
  /\ cache.now < plan.until
  /\ UNCHANGED <<plan, net, log, jobs, snapshot, phase, late>>
  /\ Became(Later(cache, 1))

SweepExpired ==
  /\ phase \notin Left
  /\ \E k \in Key : Has(cache, k) /\ ~ Live(cache, k)
  /\ Told(Plainly(Nothing(Sweep(cache).cache)))
  /\ UNCHANGED <<plan, log, jobs, snapshot, phase, late>>

-----------------------------------------------------------------------------
(* close().                                                                *)

(* No more connections and requests; the sockets end once what they have   *)
(* buffered is out.                                                        *)
Close ==
  /\ plan.closes
  /\ phase = "open"
  /\ phase' = "draining"
  /\ net' = [net EXCEPT !.conn =
               [c \in Conn |->
                  IF conn[c].socket # "open" THEN conn[c]
                  ELSE [conn[c] EXCEPT !.socket = "ended"]]]
  /\ UNCHANGED <<plan, jobs, snapshot, late>> /\ Still

DeadlinePasses ==
  /\ phase \in {"draining", "saving"}
  /\ ~ late
  /\ late' = TRUE
  /\ UNCHANGED <<plan, net, jobs, snapshot, phase>> /\ Still

Destroyed(k) ==
  IF k.socket = "ended"
  THEN [k EXCEPT !.socket = "destroyed", !.wire = <<>>] ELSE k

(* Mistake: clients that stay are waited for.                              *)
SocketsAllGone ==
  /\ phase = "draining"
  /\ Registered = {}
  /\ phase' = "saving"
  /\ jobs' = Append(jobs, NewJob("save", "close", 0))
  /\ UNCHANGED <<plan, net, snapshot, late>> /\ Still

(* The sockets are gone, or the deadline has passed and those that are     *)
(* left are destroyed; then comes the final save.                          *)
SocketsDone ==
  /\ phase = "draining"
  /\ Registered = {} \/ late
  /\ LET n == [net EXCEPT !.conn = [c \in Conn |-> Destroyed(conn[c])]]
     IN  IF plan.finalSave /\ Len(jobs) >= MaxJobs
         THEN Leaves(n, "failed") /\ UNCHANGED jobs
         ELSE /\ Leaves(n, "saving")
              /\ jobs' = IF plan.finalSave
                         THEN Append(jobs, NewJob("save", "close", 0))
                         ELSE jobs
  /\ UNCHANGED <<plan, snapshot, late>> /\ Still

JobsDone ==
  /\ phase = "saving" /\ ~ plan.finalSave /\ jobs = <<>>
  /\ Leaves(net, "stopped")
  /\ UNCHANGED <<plan, jobs, snapshot, late>> /\ Still

GiveUp ==
  /\ phase = "saving" /\ late
  /\ Leaves(net, "failed")
  /\ UNCHANGED <<plan, jobs, snapshot, late>> /\ Still

-----------------------------------------------------------------------------
Turn(c) ==
  \/ LoopEnds(c) \/ Refuse(c) \/ Auth(c) \/ Quit(c)
  \/ Watch(c) \/ Unwatch(c) \/ Multi(c) \/ Enqueue(c) \/ Exec(c) \/ Discard(c)
  \/ ExecFailed(c) \/ Reads(c) \/ Mutates(c)
  \/ Subscribe(c) \/ Unsubscribe(c) \/ PublishNote(c)
  \/ SaveOrLoad(c)

JobEnds == JobFails \/ Saved \/ Loaded

Shutdown == Close \/ DeadlinePasses \/ SocketsDone \/ JobsDone \/ GiveUp

Next ==
  \/ \E c \in Conn :
       \/ Connect(c) \/ Take(c) \/ ClientLeaves(c) \/ CloseEvent(c)
       \/ IdleTimeout(c) \/ Turn(c)
       \/ \E n \in Batch : Arrive(c, n)
  \/ Autosave \/ JobBegins \/ JobEnds
  \/ HostWrites \/ Tick \/ SweepExpired
  \/ Shutdown

Spec == Init /\ [][Next]_vars

(* Every running loop can take its next turn, and a step is a turn if and  *)
(* only if it takes a request or ends the loop: so this is WF_vars(Turn(c)).*)
TurnTaken(c) ==
  /\ conn[c].loop = "running"
  /\ net'.conn[c].loop # "running" \/ net'.conn[c].taken > conn[c].taken

TurnsTaken(c) ==
  []<>(conn[c].loop # "running") \/ []<><<TurnTaken(c)>>_vars

(* The event loop goes on: turns are taken, sockets that were destroyed    *)
(* close, timers fire.  Neither clients nor the disk need to be quick.     *)
Fairness ==
  /\ \A c \in Conn : TurnsTaken(c) /\ WF_vars(CloseEvent(c))
  /\ WF_vars(JobBegins)
  /\ WF_vars(DeadlinePasses) /\ WF_vars(SocketsDone)
  /\ WF_vars(JobsDone) /\ WF_vars(GiveUp)

FairSpec == Spec /\ Fairness

-----------------------------------------------------------------------------
(* Invariants.                                                             *)

(* The fields have their types, and a connection listens in the hub where  *)
(* it says so, until close() empties the hub.                              *)
TypeOK ==
  /\ cache \in CacheRecord
  /\ net.inflight \in Nat
  /\ log \in {"off", "good", "failing", "broken"}
  /\ phase \in {"open", "draining", "saving"} \cup Left
  /\ \A i \in DOMAIN jobs : jobs[i] \in Job /\ (jobs[i].begun => i = 1)
  /\ \A c \in Conn :
       /\ conn[c].loop \in {"idle", "running", "waiting"}
       /\ conn[c].taken <= conn[c].arrived
       /\ stale[c] \subseteq Watching(conn[c])
       /\ conn[c].loop = "waiting" <=>
            \E i \in DOMAIN jobs : jobs[i].owner = c
       /\ phase \notin Left => \A ch \in Channel :
            ch \in conn[c].subs <=> c \in ToSet(net.hub[ch])

IsReply(chunk) == chunk.kind # "message"

Replies(k) == SelectSeq(Output(k), IsReply)

Many == {"SUBSCRIBE", "UNSUBSCRIBE"}

(* The n-th request is answered by one of the first `last` chunks, or is   *)
(* UNSUBSCRIBE, which answers once for each subscription there is.         *)
Replied(script, o, last, n) ==
  \/ script[n].cmd = "UNSUBSCRIBE"
  \/ \E i \in 1 .. last : IsReply(o[i]) /\ o[i].re = n

InOrder(script, o) ==
  \A j \in DOMAIN o : IsReply(o[j]) =>
    /\ \A i \in 1 .. j - 1 : IsReply(o[i]) =>
         \/ o[i].re < o[j].re
         \/ o[i].re = o[j].re /\ script[o[j].re].cmd \in Many
    /\ \A n \in 1 .. o[j].re : Replied(script, o, j, n)

(* Each of the first t requests has its reply, and no other has.           *)
Served(script, o, t) ==
  /\ \A n \in 1 .. t : Replied(script, o, Len(o), n)
  /\ \A i \in DOMAIN o : IsReply(o[i]) => o[i].re <= t

(* What is written on the connection reaches its client.                   *)
Reaches(k) == ~ Mute(k) /\ k.socket = "open"

(* Whatever waited for the disk or for the socket meanwhile, the replies   *)
(* of a connection come in the order of its requests, none is missing      *)
(* before one that was sent, and while the connection is up every request  *)
(* taken so far has its reply, and no other has.                           *)
RepliesInOrder ==
  \A c \in Conn :
    LET k == conn[c]
        o == Output(k)
    IN  /\ InOrder(plan.script[c], o)
        /\ Reaches(k) => Served(plan.script[c], o, k.taken - k.active)

(* The account of all connections is what they hold, and never exceeds the *)
(* budget; no connection has more output than its limit.                   *)
MemoryBounded ==
  /\ net.inflight = MapThenSumSet(LAMBDA c : conn[c].accounted, Conn)
  /\ net.inflight <= MaxInflight
  /\ \A c \in Conn :
       /\ Pending(conn[c]) <= MaxPending
       /\ ~ Unreachable(conn[c]) => conn[c].accounted = Held(conn[c])

Alive(image) == {e \in ToSet(image) : ~ IsExpired(e, cache.now)}

(* A close() that resolves after its final save has saved everything: no   *)
(* mutation comes after the image, not from a client, a queued LOAD or the *)
(* embedding program.                                                      *)
CleanStopSaved ==
  phase = "stopped" /\ plan.finalSave =>
    snapshot # None /\ Alive(snapshot) = Alive(Dump(cache))

-----------------------------------------------------------------------------
(* Action properties.                                                      *)

Hears(k) == Invalidate \in k.subs /\ Reaches(k)

News(c) ==
  LET old == Output(conn[c])
      new == Output(net'.conn[c])
  IN  SelectSeq(SubSeq(new, Len(old) + 1, Len(new)),
                LAMBDA m : m.kind = "message" /\ m.channel = Invalidate)

Names(event, k) ==
  CASE event.event = "load"  -> TRUE
    [] event.event = "clear" -> k \in Under[event.prefix]
    [] OTHER -> event.key = k

(* A client that listens is told of exactly what happened to the cache, in *)
(* the step in which it happened: of every entry that changed, whoever     *)
(* changed it, and of no key whose change was rolled back because its      *)
(* transaction or its log record failed.                                   *)
AnnouncedAsCommitted ==
  [][\A c \in Conn :
       Hears(conn[c]) /\ Hears(net'.conn[c]) =>
         /\ \A k \in Key : cache'.entry[k] # cache.entry[k] =>
              \E i \in DOMAIN News(c) : Names(News(c)[i].event, k)
         /\ \A i \in DOMAIN News(c) : "key" \in DOMAIN News(c)[i].event =>
              Version(cache', News(c)[i].event.key) >
                Version(cache, News(c)[i].event.key)]_vars

Executes(c) ==
  /\ conn[c].multi /\ ~ net'.conn[c].multi
  /\ net'.conn[c].taken = conn[c].taken + 1
  /\ Requested(c).cmd = "EXEC"

(* What EXEC changed, but for expired entries it came across.              *)
Effects ==
  {k \in Key : /\ cache'.entry[k] # cache.entry[k]
               /\ Live(cache, k) \/ cache'.entry[k] # None}

(* EXEC has an effect only if no watched key changed since it was first    *)
(* watched, by any client, by expiry or there and back; and what it        *)
(* answers tells whether it had one.                                       *)
WatchRespected ==
  [][\A c \in Conn : Executes(c) =>
       LET k == conn[c]
           r == Replies(net'.conn[c])
       IN  /\ Effects # {} => /\ stale[c] = {} /\ ~ k.txFailed
                              /\ \A w \in Watching(k) :
                                   Has(cache, w) => Live(cache, w)
           /\ ~ Mute(net'.conn[c]) =>
                (Last(r).kind \in {"nil", "failed", "error"} => Effects = {})]_vars

-----------------------------------------------------------------------------
(* Liveness.                                                               *)

(* close() ends, though clients stay, do not read, or the disk hangs.      *)
ShutdownEnds == phase = "draining" ~> phase \in Left

Owed(k) == k.arrived > k.taken \/ k.active = 1 \/ Pending(k) > 0

Over(k) == k.closed \/ k.ending \/ k.socket # "open"

(* A job that has begun can always end, as JobFails: WF_vars(JobEnds).     *)
JobsEnd ==
  []<>(jobs = <<>> \/ ~ Head(jobs).begun) \/ []<><<jobs' = Tail(jobs)>>_vars

(* WF_vars(Take(c)).                                                       *)
ClientReads(c) ==
  []<>(conn[c].wire = <<>>)
    \/ []<><<net'.conn[c].received # conn[c].received>>_vars

(* If the disk answers and the client reads, the client gets an answer to  *)
(* everything it asked, unless its connection ends.                        *)
AnswersArrive ==
  JobsEnd /\ (\A c \in Conn : ClientReads(c)) =>
    \A c \in Conn :
      Owed(conn[c]) ~> (~ Owed(conn[c]) \/ Over(conn[c]))

=============================================================================
