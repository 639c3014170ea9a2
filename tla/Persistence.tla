----------------------------- MODULE Persistence -----------------------------
(***************************************************************************)
(* The durable side of YasdServer (src/server.ts, src/persistence.ts): the *)
(* append-only log, the snapshot, SAVE, LOAD, and start-up after a crash.  *)
(*                                                                         *)
(* On disk: `snapshot`, what the snapshot file holds, and `file`, the log  *)
(* as the lines between its newlines.  A line is a record, "torn" (a       *)
(* proper prefix of one) or "bad" (anything else); `ended` says that the   *)
(* last line has its newline.  In memory: the cache, `seq` and `status`    *)
(* (lastSeq and recoveryStatus of AofLog), how far the process has come    *)
(* (`mode`) and the snapshot being saved (`job`).  Jobs of the persistence *)
(* queue run one at a time, so only the running one is a variable.         *)
(*                                                                         *)
(* `acked` is a history variable: the contents a restart may come up with. *)
(* It is the contents after the last mutation that was answered, and also  *)
(* those after one that was cut short with its whole record written.       *)
(*                                                                         *)
(* A kill of the process loses what is in memory; what was written stays.  *)
(* Loss of power, which may take unsynced records with it, is left out.    *)
(***************************************************************************)
EXTENDS KVCacheOps, FiniteSetsExt

CONSTANTS
  Command,        \* what a client may ask: the operations of one mutation
  OldSnapshot,    \* snapshots that may be there before the first start
  OldFile,        \* and logs
  Tear,           \* what an interrupted append may leave of its record
  MaxSeq,         \* bound on `seq`, Number.MAX_SAFE_INTEGER in the code
  MaxTime         \* bound on the clock

Contents == [Key -> [value : Value, expiresAt : Deadline] \cup {None}]

ImageEntries == Seq(ImageEntry)

Patch == [op : {"patch"}, entries : ImageEntries, deleted : Seq(Key)]

(* Patches are all that this version appends; older ones logged commands.  *)
OldSet ==
  [op : {"set"}, key : Key, value : Value, expiresAt : Deadline] \cup
  [op : {"set"}, key : Key, value : Value, ttl : Nat \cup {None}]

OldOp ==
  OldSet \cup
  [op : {"mset"}, entries : Seq(OldSet)] \cup
  [op : {"del"}, keys : Seq(Key)] \cup
  [op : {"clear"}, prefix : Namespace] \cup
  [op : {"expire"}, key : Key, expiresAt : Nat] \cup
  [op : {"expire"}, key : Key, ttl : Nat] \cup
  [op : {"persist"}, key : Key] \cup
  [op : {"incr"}, key : Key, by : Int]

AofOp == Patch \cup OldOp \cup [op : {"transaction"}, ops : Seq(OldOp)]

Line ==
  [kind : {"record"}, seq : Nat \cup {None}, op : AofOp] \cup
  [kind : {"torn", "bad"}]

LogFile == [lines : Seq(Line), ended : BOOLEAN]

Snapshot == [entries : ImageEntries, seq : Nat \cup {None}]

ASSUME PersistenceAssumption ==
  /\ Command \subseteq Seq(Queueable)
  /\ OldSnapshot \subseteq Snapshot \cup {None}
  /\ OldFile \subseteq LogFile
  /\ Tear \subseteq {"nothing", "prefix", "unterminated"}
  /\ {MaxSeq, MaxTime} \subseteq Nat

VARIABLES snapshot, file, cache, seq, status, mode, job, acked

disk   == <<snapshot, file>>
memory == <<cache, seq, status, mode, job>>
vars   == <<disk, memory, acked>>

-----------------------------------------------------------------------------
(* The log file.                                                           *)

EmptyFile == [lines |-> <<>>, ended |-> TRUE]

Record(n, op) == [kind |-> "record", seq |-> n, op |-> op]

Torn == [kind |-> "torn"]
Bad  == [kind |-> "bad"]

(* Text appended to a file without a final newline joins the last line.    *)
Written(f, line, ended) ==
  [lines |-> IF f.ended THEN Append(f.lines, line)
             ELSE Append(Front(f.lines), Bad),
   ended |-> ended]

WrittenInPart(f, line, tear) ==
  CASE tear = "nothing"      -> f
    [] tear = "prefix"       -> Written(f, Torn, FALSE)
    [] tear = "unterminated" -> Written(f, line, FALSE)

NumberOf(line) == IF line.kind = "record" THEN line.seq ELSE None

(* A reader goes on past a line that parses and whose number increases.    *)
Readable(lines, i) ==
  /\ lines[i].kind = "record"
  /\ lines[i].seq # None =>
       \A j \in 1 .. i - 1 : lines[j].seq # None => lines[j].seq < lines[i].seq

GoodLength(lines) ==
  Max({n \in 0 .. Len(lines) : \A i \in 1 .. n : Readable(lines, i)})

GoodLines(f) == SubSeq(f.lines, 1, GoodLength(f.lines))

AllRead(f) == GoodLength(f.lines) = Len(f.lines)

TornTail(f) ==
  /\ GoodLength(f.lines) = Len(f.lines) - 1
  /\ Last(f.lines) = Torn /\ ~ f.ended

WithoutTail(f) == [lines |-> Front(f.lines), ended |-> TRUE]

(* Mistake: the number of the last line is taken for the last number.      *)
LastLineNumber(lines) == IF lines = <<>> THEN 0 ELSE NumberOf(Last(lines))

LastSequence(lines) ==
  Max({0} \cup ({NumberOf(lines[i]) : i \in DOMAIN lines} \ {None}))

-----------------------------------------------------------------------------
(* Replay.                                                                 *)

InOrder(c, seqn, Op(_, _)) ==
  FoldLeft(LAMBDA r, x : IF r.ok THEN Op(r.cache, x) ELSE r, Done(c), seqn)

ReplaySet(c, e) ==
  IF "expiresAt" \in DOMAIN e THEN SetAt(c, e.key, e.value, e.expiresAt)
  ELSE Set(c, e.key, e.value, e.ttl, 0)

PutBack(c, e) == SetAt(c, e.key, e.value, e.expiresAt)

ApplyPatch(c, op) ==
  LET r == InOrder(c, op.deleted, Del)
  IN  Atomic(c, IF r.ok THEN InOrder(r.cache, op.entries, PutBack) ELSE r)

ApplyAofOp(c, op) ==
  CASE op.op = "set"     -> ReplaySet(c, op)
    [] op.op = "mset"    -> InOrder(c, op.entries, ReplaySet)
    [] op.op = "del"     -> InOrder(c, op.keys, Del)
    [] op.op = "clear"   -> ClearPrefix(c, op.prefix)
    [] op.op = "expire"  -> IF "expiresAt" \in DOMAIN op
                            THEN ExpireAt(c, op.key, op.expiresAt, 0)
                            ELSE Expire(c, op.key, op.ttl, 0)
    [] op.op = "persist" -> Persist(c, op.key)
    [] op.op = "incr"    -> Incr(c, op.key, op.by, 0)
    [] op.op = "patch"   -> ApplyPatch(c, op)

ReplayRecord(c, line) ==
  Atomic(c, IF line.op.op = "transaction"
            THEN InOrder(c, line.op.ops, ApplyAofOp)
            ELSE ApplyAofOp(c, line.op))

(* A snapshot that carries a number covers the records up to it, and all   *)
(* that carry none.                                                        *)
Covered(upTo, line) ==
  upTo # None /\ (line.seq = None \/ line.seq <= upTo)

Uncovered(lines, upTo) == {l \in ToSet(lines) : ~ Covered(upTo, l)}

(* The cache after replay and whether every record that was read applied.  *)
Replay(c, lines, upTo) ==
  InOrder(c, Filter(lines, Uncovered(lines, upTo)), ReplayRecord)

SnapshotSeq == IF snapshot = None THEN None ELSE snapshot.seq

(* Versions, reports and change records mean nothing from call to call.    *)
Settled(c) ==
  [c EXCEPT !.version = EmptyCache.version, !.versionOrder = <<>>,
            !.generation = 0, !.absentEpoch = 0, !.changed = <<>>,
            !.expired = {}]

ContentsOf(c) ==
  [k \in Key |->
     IF Has(c, k) THEN [value |-> c.entry[k].value,
                        expiresAt |-> c.entry[k].expiresAt]
     ELSE None]

(* Restore of the snapshot, then of the records read, at the time t.       *)
Fresh == [EmptyCache EXCEPT !.now = cache.now]

Loaded(c) == IF snapshot = None THEN c ELSE Replace(c, snapshot.entries).cache

Recovered == Replay(Loaded(Fresh), GoodLines(file), SnapshotSeq).cache

Init ==
  /\ snapshot \in OldSnapshot
  /\ file \in OldFile
  /\ cache = EmptyCache
  /\ seq = 0
  /\ status = "clean"
  /\ mode = "down"
  /\ job = None
  /\ acked = {ContentsOf(Recovered)}

-----------------------------------------------------------------------------
(* Start and end of the process.                                           *)

(* What a reader makes of the file: a torn tail is cut off, if the         *)
(* truncation works; anything else that stops it makes the log corrupt.    *)
Scan(before) ==
  \/ /\ AllRead(file)
     /\ status' = before
     /\ UNCHANGED file
  \/ /\ TornTail(file)
     /\ status' = IF before = "clean" THEN "torn-tail" ELSE before
     /\ file' = WithoutTail(file)
  \/ /\ ~ AllRead(file)
     /\ status' = "corrupt"
     /\ UNCHANGED file

(* new YasdServer(): an empty cache, and the last sequence number read.    *)
Open ==
  /\ mode = "down"
  /\ mode' = "open"
  /\ Scan("clean")
  /\ cache' = Fresh
  /\ seq' = LastSequence(GoodLines(file))
  /\ UNCHANGED <<snapshot, job, acked>>

(* start(): first the snapshot; when reading it fails, start() may be      *)
(* called again.                                                           *)
LoadAtStart ==
  /\ mode = "open"
  /\ mode' = "loaded"
  /\ cache' = Settled(Loaded(cache))
  /\ UNCHANGED <<disk, seq, status, job, acked>>

(* Then the log.  From here on the contents are visible.                   *)
ReplayAtStart ==
  LET r == Replay(cache, GoodLines(file), SnapshotSeq)
  IN  /\ mode = "loaded"
      /\ IF r.ok THEN mode' = "up" /\ Scan(status)
         ELSE mode' = "up" /\ status' = "corrupt" /\ UNCHANGED file
      /\ cache' = Settled(r.cache)
      /\ seq' = IF SnapshotSeq = None THEN seq ELSE Max({seq, SnapshotSeq})
      /\ acked' = {ContentsOf(r.cache)}
      /\ UNCHANGED <<snapshot, job>>

StartFails ==
  /\ mode = "loaded"
  /\ mode' = "open"
  /\ UNCHANGED <<disk, cache, seq, status, job, acked>>

Close ==
  /\ mode = "up"
  /\ mode' = "closing"
  /\ UNCHANGED <<disk, cache, seq, status, job, acked>>

Gone ==
  /\ mode' = "down"
  /\ job' = None
  /\ cache' = Fresh
  /\ seq' = 0
  /\ status' = "clean"

(* The process ends between two of its steps, by a kill or when the        *)
(* shutdown deadline passes.                                               *)
Crash ==
  /\ mode # "down"
  /\ Gone
  /\ UNCHANGED <<disk, acked>>

-----------------------------------------------------------------------------
(* Mutations: runCacheMutation.                                            *)

(* Mistake: keys that went away by eviction are not logged.                *)
PatchWithoutDeletions(c) ==
  LET live == Filter(c.changed, LiveKeys(c))
  IN  [op |-> "patch",
       entries |-> [i \in DOMAIN live |->
                      [key |-> live[i], value |-> c.entry[live[i]].value,
                       expiresAt |-> c.entry[live[i]].expiresAt]],
       deleted |-> <<>>]

(* A change as it is logged: final values and deadlines, and deletions.    *)
PatchOf(c) ==
  LET live == Filter(c.changed, LiveKeys(c))
  IN  [op |-> "patch",
       entries |-> [i \in DOMAIN live |->
                      [key |-> live[i], value |-> c.entry[live[i]].value,
                       expiresAt |-> c.entry[live[i]].expiresAt]],
       deleted |-> Filter(c.changed, Key \ LiveKeys(c))]

NewRecord(c) == Record(seq + 1, PatchOf(c))

Writable == status # "corrupt" /\ seq < MaxSeq

Undone(r) == Settled(RolledBack(cache, r.cache))

(* The operation threw, or changed nothing.                                *)
Unlogged(r) ==
  /\ ~ r.ok \/ r.cache.changed = <<>>
  /\ cache' = IF r.ok THEN Settled(r.cache) ELSE Undone(r)
  /\ UNCHANGED <<disk, seq, status, acked>>

Logged(r) ==
  /\ Writable
  /\ file' = Written(file, NewRecord(r.cache), TRUE)
  /\ seq' = seq + 1
  /\ status' = "clean"
  /\ cache' = Settled(r.cache)
  /\ acked' = {ContentsOf(r.cache)}
  /\ UNCHANGED snapshot

(* The append is refused: the log is corrupt.                              *)
Refused(r) ==
  /\ status = "corrupt"
  /\ cache' = Undone(r)
  /\ UNCHANGED <<disk, seq, status, acked>>

(* Part of the record reaches the file.                                    *)
Cut(r, tear) ==
  /\ Writable
  /\ file' = WrittenInPart(file, NewRecord(r.cache), tear)
  /\ acked' = IF tear = "unterminated" THEN acked \cup {ContentsOf(r.cache)}
              ELSE acked
  /\ UNCHANGED snapshot

(* The append throws: the mutation is undone and the log is closed.        *)
AppendFails(r, tear) ==
  /\ Cut(r, tear)
  /\ status' = "corrupt"
  /\ cache' = Undone(r)
  /\ UNCHANGED seq

Mutate(r) ==
  /\ \/ Unlogged(r)
     \/ /\ r.ok /\ r.cache.changed # <<>>
        /\ Logged(r) \/ Refused(r) \/ \E tear \in Tear : AppendFails(r, tear)
  /\ UNCHANGED <<mode, job>>

Run(command) == FoldLeft(ApplyNext, Done(cache), command)

InService == mode = "up"

(* A server that closes takes no more writes, but its jobs still run.      *)
Working == InService \/ mode = "closing"

Write(command) == InService /\ Mutate(Run(command))

(* A kill during the append.                                               *)
CrashInWrite(command, tear) ==
  LET r == Run(command)
  IN  /\ InService
      /\ r.ok /\ r.cache.changed # <<>>
      /\ Cut(r, tear)
      /\ Gone

(* Calls that log nothing: a read, and the sweeper.                        *)
Quiet(c) ==
  /\ Working
  /\ cache' = Settled(c)
  /\ UNCHANGED <<disk, seq, status, mode, job, acked>>

Read(k) == Quiet(Get(cache, k).cache)

SweepExpired == Quiet(Sweep(cache).cache)

Tick ==
  /\ cache.now < MaxTime
  /\ cache' = Later(cache, 1)
  /\ UNCHANGED <<disk, seq, status, mode, job, acked>>

-----------------------------------------------------------------------------
(* SAVE and LOAD, the jobs of the persistence queue.                       *)

(* The number and the image are taken in one step.                         *)
SaveBegins ==
  /\ Working /\ job = None
  /\ job' = [step |-> "writing", entries |-> Dump(cache), seq |-> seq]
  /\ UNCHANGED <<disk, cache, seq, status, mode, acked>>

SaveFails ==
  /\ job # None
  /\ job' = None
  /\ UNCHANGED <<disk, cache, seq, status, mode, acked>>

(* Mistake: the number is read again when the file is renamed.             *)
SaveRenamesLate ==
  /\ job # None /\ job.step = "writing"
  /\ snapshot' = [entries |-> job.entries, seq |-> seq]
  /\ job' = [job EXCEPT !.step = "renamed"]
  /\ UNCHANGED <<file, cache, seq, status, mode, acked>>

(* The temporary file, written and synced, takes the snapshot's name.      *)
SaveRenames ==
  /\ job # None /\ job.step = "writing"
  /\ snapshot' = [entries |-> job.entries, seq |-> job.seq]
  /\ job' = [job EXCEPT !.step = "renamed"]
  /\ UNCHANGED <<file, cache, seq, status, mode, acked>>

Newer(lines, n) ==
  Filter(lines, {l \in ToSet(lines) : l.seq # None /\ l.seq > n})

(* Mistakes: the log is rotated although corrupt; the next number is taken *)
(* from the file alone.                                                    *)
RotateRegardless ==
  /\ job # None /\ job.step = "renamed"
  /\ job' = None
  /\ file' = [lines |-> Newer(GoodLines(file), job.seq), ended |-> TRUE]
  /\ seq' = Max({job.seq, LastSequence(file'.lines)})
  /\ UNCHANGED <<snapshot, cache, status, mode, acked>>

RotateForgetting ==
  /\ job # None /\ job.step = "renamed"
  /\ job' = None
  /\ \/ status = "corrupt" /\ UNCHANGED <<file, seq>>
     \/ /\ status # "corrupt"
        /\ file' = [lines |-> Newer(GoodLines(file), job.seq), ended |-> TRUE]
        /\ seq' = LastSequence(file'.lines)
  /\ UNCHANGED <<snapshot, cache, status, mode, acked>>

(* rotateAfter(): the records the snapshot lacks go to a new file.  Its    *)
(* own check for a corrupt log repeats the one before it.                  *)
SaveRotates ==
  /\ job # None /\ job.step = "renamed"
  /\ job' = None
  /\ \/ status = "corrupt" /\ UNCHANGED <<file, seq>>
     \/ /\ status # "corrupt"
        /\ file' = [lines |-> Newer(GoodLines(file), job.seq), ended |-> TRUE]
        /\ seq' = Max({job.seq, LastSequence(file'.lines)})
  /\ UNCHANGED <<snapshot, cache, status, mode, acked>>

(* LOAD replaces the contents and logs the difference.                     *)
Load ==
  /\ Working /\ job = None
  /\ snapshot # None
  /\ Mutate(Replace(cache, snapshot.entries))

-----------------------------------------------------------------------------
Next ==
  \/ Open \/ LoadAtStart \/ ReplayAtStart \/ StartFails
  \/ Close \/ Crash \/ Tick \/ SweepExpired
  \/ \E command \in Command :
       Write(command) \/ \E tear \in Tear : CrashInWrite(command, tear)
  \/ \E k \in Key : Read(k)
  \/ SaveBegins \/ SaveFails \/ SaveRenames \/ SaveRotates
  \/ Load

Spec == Init /\ [][Next]_vars

-----------------------------------------------------------------------------
(* Disk and memory have the shape of the files and of the fields.          *)
TypeOK ==
  /\ snapshot \in Snapshot \cup {None}
  /\ file \in LogFile
  /\ cache \in CacheRecord
  /\ seq \in Nat
  /\ status \in {"clean", "torn-tail", "corrupt"}
  /\ mode \in {"down", "open", "loaded", "up", "closing"}
  /\ job \in {None} \cup
       [step : {"writing", "renamed"}, entries : ImageEntries, seq : Nat]
  /\ acked \subseteq Contents

Alive(contents) ==
  [k \in Key |->
     IF contents[k] = None \/ IsExpired(contents[k], cache.now) THEN None
     ELSE contents[k]]

(* Wherever the process is, in the middle of a SAVE included, the disk     *)
(* holds what was answered: a restart at this very point gives the         *)
(* contents of the last answered mutation, deadlines included, or those of *)
(* one cut short in its append; and those are what readers are shown.      *)
NothingLost ==
  LET promised == {Alive(d) : d \in acked}
  IN  /\ Alive(ContentsOf(Recovered)) \in promised
      /\ Working => Alive(ContentsOf(cache)) \in promised

(* A record that is appended is newer than the snapshot and than every     *)
(* record before it, so no later start takes it for covered or stops at    *)
(* it.                                                                     *)
NumberedPastSnapshot ==
  [][Len(file'.lines) > Len(file.lines) /\ file'.ended =>
       /\ SnapshotSeq = None \/ SnapshotSeq < Last(file'.lines).seq
       /\ Readable(file'.lines, Len(file'.lines))]_vars

(* A log with a line nobody can read stays as it is, record by record, for *)
(* the operator to repair: neither a write nor a SAVE touches it.          *)
CorruptLogUntouched ==
  [][~ AllRead(file) /\ ~ TornTail(file) => UNCHANGED file]_vars

=============================================================================
