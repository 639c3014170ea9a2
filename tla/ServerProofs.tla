---------------------------- MODULE ServerProofs ----------------------------
(***************************************************************************)
(* Theorems about Server for every value of its constants: the memory      *)
(* account is what the connections hold and stays within its budget, and   *)
(* replies come in the order of their requests, whatever clients, jobs and *)
(* shutdown do in whatever order.                                          *)
(***************************************************************************)
EXTENDS ConnectionProofs, KVCacheOpsProofs

-----------------------------------------------------------------------------
(* Commands.                                                               *)

(* What a command or a mutation yields over c.                             *)
Results(c) == [ok : BOOLEAN, cache : Advanced(c), events : Seq(Announcement)]

LEMMA ResultType ==
  ASSUME NEW c \in GoodCache, NEW r \in Results(c)
  PROVE  /\ r.ok \in BOOLEAN /\ r.cache \in Advanced(c)
         /\ r.cache \in GoodCache /\ r.cache \in CacheRecord
         /\ r.events \in Seq(Announcement)
BY DEF Results, Advanced, GoodCache

LEMMA ResultTransitive ==
  ASSUME NEW c \in GoodCache, NEW d \in Advanced(c), NEW r \in Results(d)
  PROVE  r \in Results(c)
<1>1. d \in GoodCache
  BY DEF Advanced
<1>2. r.cache \in Advanced(c)
  BY <1>1, ResultType, AdvancesTransitive
<1>3. QED
  BY <1>2 DEF Results

LEMMA NothingType ==
  ASSUME NEW c \in GoodCache
  PROVE  Nothing(c) \in Results(c)
<1>1. c \in Advanced(c)
  BY AdvancesReflexive
<1>2. PICK none : none = <<>>
  OBVIOUS
<1>3. none \in Seq(Announcement)
  BY <1>2
<1>4. QED
  BY <1>1, <1>2, <1>3 DEF Nothing, Results

LEMMA EventType ==
  ASSUME NEW kind \in {"set", "del", "expire", "persist"}, NEW k \in Key
  PROVE  Event(kind, k) \in Announcement
BY DEF Event, Announcement

LEMMA SingleEvent ==
  ASSUME NEW e \in Announcement
  PROVE  <<e>> \in Seq(Announcement)
OBVIOUS

LEMMA AnnouncedType ==
  ASSUME NEW c, NEW d, NEW op \in Queueable
  PROVE  Announced(c, d, op) \in Seq(Announcement)
<1>1. CASE op.op \in {"set", "incr"}
  <2>1. op.key \in Key
    BY <1>1 DEF Queueable
  <2>2. <<Event("set", op.key)>> \in Seq(Announcement)
    BY <2>1, EventType, SingleEvent
  <2>3. QED
    BY <1>1, <2>2 DEF Announced
<1>2. CASE op.op = "mset"
  <2>1. PICK batch \in Seq(BatchEntry) : batch = op.batch
    BY <1>2 DEF Queueable
  <2>2. ASSUME NEW i \in 1 .. Len(batch)
        PROVE  Event("set", batch[i].key) \in Announcement
    <3>1. batch[i] \in BatchEntry
      OBVIOUS
    <3>2. batch[i].key \in Key
      BY <3>1 DEF BatchEntry
    <3>3. QED
      BY <3>2, EventType
  <2>3. PICK n \in Nat : n = Len(batch) /\ DOMAIN batch = 1 .. n
    OBVIOUS
  <2>4. [i \in 1 .. n |-> Event("set", batch[i].key)] \in Seq(Announcement)
    BY <2>2, <2>3
  <2>5. Announced(c, d, op) = [i \in 1 .. n |-> Event("set", batch[i].key)]
    BY <1>2, <2>1, <2>3 DEF Announced
  <2>6. QED
    BY <2>4, <2>5
<1>3. CASE op.op = "clear"
  <2>1. op.prefix \in Namespace
    BY <1>3 DEF Queueable
  <2>2. [event |-> "clear", prefix |-> op.prefix] \in Announcement
    BY <2>1 DEF Announcement
  <2>3. QED
    BY <1>3, <2>2, SingleEvent DEF Announced
<1>4. CASE op.op \in {"del", "persist", "expire", "cas"}
  <2>1. op.key \in Key
    BY <1>4 DEF Queueable
  <2>2. PICK kind \in {"set", "del", "expire", "persist"} :
          kind = IF op.op = "cas" THEN "set" ELSE op.op
    BY <1>4
  <2>3. <<Event(kind, op.key)>> \in Seq(Announcement)
    BY <2>1, EventType, SingleEvent
  <2>4. <<>> \in Seq(Announcement)
    OBVIOUS
  <2>5. Announced(c, d, op) \in {<<>>, <<Event(kind, op.key)>>}
    BY <1>4, <2>2 DEF Announced
  <2>6. QED
    BY <2>3, <2>4, <2>5
<1>5. QED
  BY <1>1, <1>2, <1>3, <1>4 DEF Queueable

ReadOp(p, r, k) == Reading(r, k)
ReadAll == INSTANCE FoldTheorems WITH Op <- ReadOp

LEMMA ReadingType ==
  ASSUME NEW c \in GoodCache, NEW keys \in Seq(Key)
  PROVE  FoldLeft(Reading, Nothing(c), keys) \in Results(c)
<1>1. FoldLeft(Reading, Nothing(c), keys) = ReadAll!Folded(0, Nothing(c), keys)
  BY Zenon DEF ReadOp, ReadAll!Folded, FoldLeft,
     ReadAll!MapThenFoldSet, MapThenFoldSet, ReadAll!Top, Max
<1>2. PICK A : A = Results(c)
  OBVIOUS
<1>3. \A r \in A, k \in Key : ReadOp(0, r, k) \in A
  <2>1. SUFFICES ASSUME NEW r \in Results(c), NEW k \in Key
                 PROVE  Reading(r, k) \in Results(c)
    BY <1>2 DEF ReadOp
  <2>2. CASE ~ r.ok
    BY <2>2 DEF Reading
  <2>3. CASE r.ok
    <3>1. PICK g : g = Get(r.cache, k)
      OBVIOUS
    <3>2. g \in Outcomes(c)
      BY <3>1, ResultType, GetAdvances, OutcomeTransitive
    <3>3. [r EXCEPT !.ok = g.ok, !.cache = g.cache] \in Results(c)
      BY <3>2 DEF Results, Outcomes
    <3>4. QED
      BY <2>3, <3>1, <3>3 DEF Reading
  <2>4. QED
    BY <2>2, <2>3
<1>4. PICK base : base = Nothing(c)
  OBVIOUS
<1>5. base \in A
  BY <1>2, <1>4, NothingType
<1>6. ReadAll!Folded(0, base, keys) \in A
  BY <1>3, <1>5, ReadAll!FoldLeftInvariant
<1>7. QED
  BY <1>1, <1>2, <1>4, <1>6

DeleteOp(p, r, k) == Deleting(r, k)
DeleteAll == INSTANCE FoldTheorems WITH Op <- DeleteOp

LEMMA DeletingType ==
  ASSUME NEW c \in GoodCache, NEW keys \in Seq(Key)
  PROVE  FoldLeft(Deleting, Nothing(c), keys) \in Results(c)
<1>1. FoldLeft(Deleting, Nothing(c), keys)
        = DeleteAll!Folded(0, Nothing(c), keys)
  BY Zenon DEF DeleteOp, DeleteAll!Folded, FoldLeft,
     DeleteAll!MapThenFoldSet, MapThenFoldSet, DeleteAll!Top, Max
<1>2. PICK A : A = Results(c)
  OBVIOUS
<1>3. \A r \in A, k \in Key : DeleteOp(0, r, k) \in A
  <2>1. SUFFICES ASSUME NEW r \in Results(c), NEW k \in Key
                 PROVE  Deleting(r, k) \in Results(c)
    BY <1>2 DEF DeleteOp
  <2>2. CASE ~ r.ok
    BY <2>2 DEF Deleting
  <2>3. CASE r.ok
    <3>1. PICK g : g = Del(r.cache, k)
      OBVIOUS
    <3>2. g \in Outcomes(c)
      BY <3>1, ResultType, DelAdvances, OutcomeTransitive
    <3>3. PICK events \in Seq(Announcement) :
            events = IF Bumped(r.cache, g.cache, k)
                     THEN Append(r.events, Event("del", k)) ELSE r.events
      <4>1. r.events \in Seq(Announcement)
        BY ResultType
      <4>2. Append(r.events, Event("del", k)) \in Seq(Announcement)
        BY <4>1, EventType, AppendProperties
      <4>3. QED
        BY <4>1, <4>2
    <3>4. [ok |-> g.ok, cache |-> g.cache, events |-> events] \in Results(c)
      BY <3>2 DEF Results, Outcomes
    <3>5. QED
      BY <2>3, <3>1, <3>3, <3>4 DEF Deleting
  <2>4. QED
    BY <2>2, <2>3
<1>4. PICK base : base = Nothing(c)
  OBVIOUS
<1>5. base \in A
  BY <1>2, <1>4, NothingType
<1>6. DeleteAll!Folded(0, base, keys) \in A
  BY <1>3, <1>5, DeleteAll!FoldLeftInvariant
<1>7. QED
  BY <1>1, <1>2, <1>4, <1>6

LEMMA ExecuteType ==
  ASSUME NEW c \in GoodCache, NEW req \in Command
  PROVE  Execute(c, req) \in Results(c)
<1>1. CASE req.cmd = "PING"
  BY <1>1, NothingType DEF Execute
<1>2. CASE req.cmd = "GET"
  <2>1. req.keys \in Seq(Key)
    BY <1>2 DEF Command
  <2>2. QED
    BY <1>2, <2>1, ReadingType DEF Execute
<1>3. CASE req.cmd = "DEL"
  <2>1. req.keys \in Seq(Key)
    BY <1>3 DEF Command
  <2>2. QED
    BY <1>3, <2>1, DeletingType DEF Execute
<1>4. CASE req.cmd = "PUT"
  <2>1. PICK op \in Queueable : op = req.op
    BY <1>4 DEF Command
  <2>2. PICK r : r = Apply(c, op)
    OBVIOUS
  <2>3. r \in Outcomes(c)
    BY <2>2, ApplyAdvances
  <2>4. PICK events \in Seq(Announcement) :
          events = IF r.ok THEN Announced(c, r.cache, op) ELSE <<>>
    <3>1. <<>> \in Seq(Announcement)
      OBVIOUS
    <3>2. Announced(c, r.cache, op) \in Seq(Announcement)
      BY AnnouncedType
    <3>3. QED
      BY <3>1, <3>2
  <2>5. [ok |-> r.ok, cache |-> r.cache, events |-> events] \in Results(c)
    BY <2>3 DEF Results, Outcomes
  <2>6. QED
    BY <1>4, <2>1, <2>2, <2>4, <2>5 DEF Execute
<1>5. QED
  BY <1>1, <1>2, <1>3, <1>4 DEF Command

ExecuteOp(p, r, req) == ExecuteNext(r, req)
ExecuteEach == INSTANCE FoldTheorems WITH Op <- ExecuteOp

LEMMA ExecuteAllType ==
  ASSUME NEW c \in GoodCache, NEW queue \in Seq(Command)
  PROVE  ExecuteAll(c, queue) \in Results(c)
<1>1. ExecuteAll(c, queue) = ExecuteEach!Folded(0, Nothing(c), queue)
  BY Zenon DEF ExecuteAll, ExecuteOp, ExecuteEach!Folded,
     FoldLeft, ExecuteEach!MapThenFoldSet,
     MapThenFoldSet, ExecuteEach!Top, Max
<1>2. PICK A : A = Results(c)
  OBVIOUS
<1>3. \A r \in A, req \in Command : ExecuteOp(0, r, req) \in A
  <2>1. SUFFICES ASSUME NEW r \in Results(c), NEW req \in Command
                 PROVE  ExecuteNext(r, req) \in Results(c)
    BY <1>2 DEF ExecuteOp
  <2>2. PICK e : e = Execute(r.cache, req)
    OBVIOUS
  <2>3. e \in Results(c)
    BY <2>2, ResultType, ExecuteType, ResultTransitive
  <2>4. PICK ok \in BOOLEAN : ok = (r.ok /\ e.ok)
    BY <2>3, ResultType
  <2>5. PICK events \in Seq(Announcement) : events = r.events \o e.events
    <3>1. r.events \in Seq(Announcement) /\ e.events \in Seq(Announcement)
      BY <2>3, ResultType
    <3>2. r.events \o e.events \in Seq(Announcement)
      BY <3>1
    <3>3. QED
      BY <3>2
  <2>6. [ok |-> ok, cache |-> e.cache, events |-> events] \in Results(c)
    BY <2>3 DEF Results
  <2>7. QED
    BY <2>2, <2>4, <2>5, <2>6 DEF ExecuteNext
<1>4. PICK base : base = Nothing(c)
  OBVIOUS
<1>5. base \in A
  BY <1>2, <1>4, NothingType
<1>6. ExecuteEach!Folded(0, base, queue) \in A
  BY <1>3, <1>5, ExecuteEach!FoldLeftInvariant
<1>7. QED
  BY <1>1, <1>2, <1>4, <1>6

LEMMA SetToSeqType ==
  ASSUME NEW S, IsFiniteSet(S)
  PROVE  SetToSeq(S) \in Seq(S)
<1>1. PICK n \in Nat : n = Cardinality(S) /\ ExistsBijection(1 .. n, S)
  BY FS_CardinalityType
<1>2. \E f \in [1 .. n -> S] : IsInjective(f)
  BY <1>1 DEF ExistsBijection, Bijection, Injection
<1>3. SetToSeq(S) \in [1 .. n -> S]
  BY <1>1, <1>2 DEF SetToSeq
<1>4. QED
  BY <1>3

LEMMA SomeKeys ==
  ASSUME NEW S \in SUBSET Key
  PROVE  SetToSeq(S) \in Seq(Key)
<1>1. IsFiniteSet(S)
  BY ServerAssumption, FS_Subset
<1>2. SetToSeq(S) \in Seq(S)
  BY <1>1, SetToSeqType
<1>3. QED
  BY <1>2

LEMMA ExpiriesType ==
  ASSUME NEW c \in CacheRecord
  PROVE  Expiries(c) \in Seq(Announcement)
<1>1. c.expired \in SUBSET Key
  BY DEF CacheRecord
<1>2. PICK ks \in Seq(Key) : ks = SetToSeq(c.expired)
  BY <1>1, SomeKeys
<1>3. PICK n \in Nat : n = Len(ks) /\ DOMAIN ks = 1 .. n
  OBVIOUS
<1>4. ASSUME NEW i \in 1 .. n
      PROVE  Event("expire", ks[i]) \in Announcement
  BY <1>3, EventType
<1>5. [i \in 1 .. n |-> Event("expire", ks[i])] \in Seq(Announcement)
  BY <1>4
<1>6. QED
  BY <1>2, <1>3, <1>5 DEF Expiries

LEMMA PlainlyType ==
  ASSUME NEW c \in GoodCache, NEW r \in Results(c)
  PROVE  Plainly(r) \in Results(c)
<1>1. /\ r.ok \in BOOLEAN /\ r.cache \in Advanced(c) /\ r.cache \in CacheRecord
      /\ r.events \in Seq(Announcement)
  BY ResultType
<1>2. PICK told \in Seq(Announcement) : told = IF r.ok THEN r.events ELSE <<>>
  <2>1. <<>> \in Seq(Announcement)
    OBVIOUS
  <2>2. QED
    BY <1>1, <2>1
<1>3. PICK gone \in Seq(Announcement) : gone = Expiries(r.cache)
  BY <1>1, ExpiriesType
<1>4. PICK events \in Seq(Announcement) : events = gone \o told
  <2>1. gone \o told \in Seq(Announcement)
    OBVIOUS
  <2>2. QED
    BY <2>1
<1>5. [ok |-> r.ok, cache |-> r.cache, events |-> events] \in Results(c)
  BY <1>1 DEF Results
<1>6. QED
  BY <1>2, <1>3, <1>4, <1>5 DEF Plainly

LEMMA AtomicallyType ==
  ASSUME NEW c \in GoodCache, NEW r \in Results(c), NEW logged
  PROVE  Atomically(c, r, logged) \in Results(c)
<1>1. PICK none : none = <<>>
  OBVIOUS
<1>2. none \in Seq(Announcement)
  BY <1>1
<1>3. RolledBack(c, r.cache) \in Advanced(c)
  BY ResultType, RolledBackAdvances
<1>4. [ok |-> FALSE, cache |-> RolledBack(c, r.cache), events |-> none]
        \in Results(c)
  BY <1>2, <1>3 DEF Results
<1>5. Plainly(r) \in Results(c)
  BY PlainlyType
<1>6. QED
  BY <1>1, <1>4, <1>5 DEF Atomically

LEMMA MutationType ==
  ASSUME cache \in GoodCache, NEW r \in Results(cache), NEW logged
  PROVE  Mutation(r, logged) \in Results(cache)
BY PlainlyType, AtomicallyType DEF Mutation

(* The histories of a call are forgotten at its end.                       *)
Settle(c) == [c EXCEPT !.changed = <<>>, !.expired = {}]

LEMMA SettleAdvances ==
  ASSUME NEW c \in GoodCache
  PROVE  Settle(c) \in Advanced(c) /\ Settle(c) \in GoodCache
<1>1. PICK none : none = <<>>
  OBVIOUS
<1>2. PICK empty : empty = {}
  OBVIOUS
<1>3. none \in Seq(Key) /\ empty \subseteq c.expired
  BY <1>1, <1>2
<1>4. PICK d : d = [c EXCEPT !.changed = none, !.expired = empty]
  OBVIOUS
<1>5. c \in CacheRecord
  BY DEF GoodCache
<1>6. d \in CacheRecord
  BY <1>2, <1>3, <1>4, <1>5 DEF CacheRecord
<1>7. Annotates(c, d)
  BY <1>2, <1>4, <1>5, <1>6 DEF Annotates, CacheRecord
<1>8. d \in Advanced(c)
  BY <1>7, AnnotationAdvances
<1>9. QED
  BY <1>1, <1>2, <1>4, <1>8 DEF Settle, Advanced

LEMMA BecameGood ==
  ASSUME NEW c \in GoodCache, Became(c)
  PROVE  cache' \in GoodCache
BY SettleAdvances DEF Became, Settle

CheckOp(k, r, key) ==
  IF ~ r.ok THEN r
  ELSE LET d == Reap(r.cache, key)
       IN  [ok |-> Version(d, key) = k.watch[key], cache |-> d]
CheckEach == INSTANCE FoldTheorems WITH Op <- CheckOp

LEMMA CheckWatchType ==
  ASSUME NEW k \in ConnRecord, NEW c \in GoodCache
  PROVE  CheckWatch(k, c).cache \in Advanced(c)
<1>1. PICK ks \in Seq(Key) : ks = SetToSeq(Watching(k))
  <2>1. Watching(k) \in SUBSET Key
    BY FiniteWatch DEF Watching, ConnRecord
  <2>2. QED
    BY <2>1, SomeKeys
<1>2. CheckWatch(k, c) = CheckEach!Folded(k, Done(c), SetToSeq(Watching(k)))
  BY Zenon DEF CheckWatch, CheckOp, CheckEach!Folded,
     FoldLeft, CheckEach!MapThenFoldSet,
     MapThenFoldSet, CheckEach!Top, Max
<1>3. PICK A : A = Outcomes(c)
  OBVIOUS
<1>4. \A r \in A, key \in Key : CheckOp(k, r, key) \in A
  <2>1. SUFFICES ASSUME NEW r \in Outcomes(c), NEW key \in Key
                 PROVE  CheckOp(k, r, key) \in Outcomes(c)
    BY <1>3
  <2>2. PICK d : d = Reap(r.cache, key)
    OBVIOUS
  <2>3. d \in Advanced(c)
    <3>1. r.cache \in Advanced(c) /\ r.cache \in GoodCache
      BY DEF Outcomes, Advanced
    <3>2. QED
      BY <2>2, <3>1, ReapAdvances, AdvancesTransitive
  <2>4. PICK ok \in BOOLEAN : ok = (Version(d, key) = k.watch[key])
    OBVIOUS
  <2>5. [ok |-> ok, cache |-> d] \in Outcomes(c)
    BY <2>3 DEF Outcomes
  <2>6. QED
    BY <2>2, <2>4, <2>5 DEF CheckOp
<1>5. PICK base : base = Done(c)
  OBVIOUS
<1>6. base \in A
  BY <1>3, <1>5, AdvancesReflexive, EndOutcome
<1>7. CheckEach!Folded(k, base, ks) \in A
  BY <1>4, <1>6, CheckEach!FoldLeftInvariant
<1>8. CheckWatch(k, c) \in Outcomes(c)
  BY <1>1, <1>2, <1>3, <1>5, <1>7
<1>9. QED
  BY <1>8 DEF Outcomes

LEMMA WatchedMoreType ==
  ASSUME NEW k \in ConnRecord, NEW c \in GoodCache, NEW keys \in Seq(Key),
         NEW w, w = WatchedMore(k, c, keys)
  PROVE  w.cache \in Advanced(c) /\ w.watch \in WatchTable
<1>1. PICK new \in Seq(Key) : new = Filter(keys, Key \ Watching(k))
  BY FilterSelects
<1>2. PICK d : d = FoldLeft(Reap, c, new)
  OBVIOUS
<1>3. d \in Advanced(c) /\ d \in CacheRecord
  BY <1>2, ReapingAdvances DEF Advanced, GoodCache
<1>4. PICK D : D = Watching(k) \cup ToSet(keys)
  OBVIOUS
<1>5. k.watch \in WatchTable
  BY DEF ConnRecord
<1>6. Watching(k) \subseteq Key /\ k.watch \in [Watching(k) -> Nat]
  BY <1>5, FiniteWatch DEF Watching
<1>7. D \in SUBSET Key
  BY <1>4, <1>6, InToSet
<1>8. ASSUME NEW key \in D
      PROVE  (IF key \in Watching(k) THEN k.watch[key] ELSE Version(d, key))
               \in Nat
  BY <1>3, <1>6, <1>7, VersionType
<1>9. [key \in D |-> IF key \in Watching(k) THEN k.watch[key]
                     ELSE Version(d, key)] \in [D -> Nat]
  BY <1>8
<1>10. w.watch \in [D -> Nat] /\ w.cache = d
  BY <1>1, <1>2, <1>4, <1>9 DEF WatchedMore
<1>11. QED
  BY <1>3, <1>7, <1>10 DEF WatchTable

-----------------------------------------------------------------------------
(* The invariant, and the steps that keep it.                              *)

ServerInv ==
  /\ plan \in Scenario
  /\ net \in Exact
  /\ cache \in GoodCache
  /\ jobs \in Seq(Job)
  /\ snapshot \in Snapshots
  /\ Patient(net, jobs)

(* The scenario changes only in what the embedding program has yet to do.  *)
LEMMA StillExact ==
  ASSUME plan'.script = plan.script, net' \in Exact
  PROVE  (net \in Exact)'
BY DEF Exact, Loose, Asked

LEMMA StillPatient ==
  ASSUME plan'.script = plan.script, Patient(net', jobs')
  PROVE  Patient(net, jobs)'
BY DEF Patient, Attending, Orderly

LEMMA Kept ==
  ASSUME ServerInv, net' \in Exact, cache' \in GoodCache, jobs' \in Seq(Job),
         snapshot' \in Snapshots, plan' \in Scenario,
         plan'.script = plan.script, Patient(net', jobs')
  PROVE  ServerInv'
BY StillExact, StillPatient DEF ServerInv

(* The connections only chat, and the jobs are as before.                  *)
LEMMA ChatKeeps ==
  ASSUME ServerInv, net' \in Chatting(net), jobs' = jobs
  PROVE  jobs' \in Seq(Job) /\ Patient(net', jobs')
<1>1. net \in NetRecord /\ Patient(net, jobs)
  BY LooseType DEF ServerInv, Exact
<1>2. QED
  BY <1>1, ChatPatient DEF ServerInv

Exactly == net' \in Exact /\ cache' \in GoodCache

(* The turn is over and its request has been answered.                     *)
Finished(c) == net' \in AtRest(c) /\ cache' \in GoodCache

LEMMA FinishedKeeps ==
  ASSUME ServerInv, NEW c \in Conn, Proceeds(c), Finished(c), jobs' = jobs
  PROVE  Exactly /\ jobs' \in Seq(Job) /\ Patient(net', jobs')
<1>1. net \in NetRecord /\ jobs \in Seq(Job) /\ Patient(net, jobs)
  BY LooseType DEF ServerInv, Exact
<1>2. net' \in Exact /\ net' \in NetRecord /\ Ended(c, net')
  BY LooseType DEF Finished, AtRest, Exact
<1>3. NoJob(jobs, c)
  BY <1>1, NotWaiting DEF Proceeds, conn
<1>4. Attended(plan.script[c], net'.conn[c]) /\ Others(c, net')
  BY <1>2, EndedAttended DEF Ended
<1>5. Patient(net', jobs)
  BY <1>1, <1>2, <1>3, <1>4, EndedPatient
<1>6. QED
  BY <1>1, <1>2, <1>5 DEF Exactly, Finished

(* Answers of a command that may have published something.                 *)
LEMMA AnswerTold ==
  ASSUME NEW c \in Conn, NEW n \in Busy(c), NEW events \in Seq(Announcement),
         NEW kind \in ReplyKind, NEW m, m = PublishAll(n, events)
  PROVE  /\ Turned(Reply(m, c, kind), c) \in AtRest(c)
         /\ Answer(m, c, kind) => net' \in AtRest(c)
<1>1. PICK T : T = {c}
  OBVIOUS
<1>2. n \in Loose(T) /\ n \in Underway(c)
  BY <1>1 DEF Busy, Underway
<1>3. m \in Informing(T, n)
  BY <1>2, PublishAllInforms
<1>4. m \in Underway(c)
  BY <1>1, <1>2, <1>3, UnderwayGoesOn
<1>5. QED
  BY <1>4, AnswerExact

LEMMA AnswerBusy ==
  ASSUME NEW c \in Conn, NEW n \in Busy(c), NEW kind \in ReplyKind
  PROVE  /\ Turned(Reply(n, c, kind), c) \in AtRest(c)
         /\ Hangs(Reply(n, c, kind), c) \in AtRest(c)
         /\ Answer(n, c, kind) => net' \in AtRest(c)
BY AnswerExact DEF Busy

LEMMA Asking ==
  ASSUME ServerInv, NEW c \in Conn, NEW cmds, Asks(c, cmds)
  PROVE  /\ Begun(c) \in Busy(c) /\ conn[c] \in ConnRecord
         /\ Requested(c).cmd \in cmds /\ Proceeds(c)
<1>1. net.conn[c] \in ConnRecord
  BY LooseType DEF ServerInv, Exact
<1>2. QED
  BY <1>1, BegunBusy DEF ServerInv, Patient, Asks, conn

LEMMA PlainTurns ==
  ASSUME ServerInv, NEW c \in Conn,
         Refuse(c) \/ Auth(c) \/ Quit(c) \/ Multi(c)
  PROVE  Finished(c)
<1>1. cache' = cache /\ cache \in GoodCache
  BY DEF ServerInv, Refuse, Auth, Quit, Multi, Still
<1>2. "ok" \in ReplyKind /\ "error" \in ReplyKind
  BY DEF ReplyKind
<1>3. CASE Refuse(c)
  <2>1. Begun(c) \in Busy(c)
    BY <1>3, BegunBusy DEF ServerInv, Patient, Refuse
  <2>2. QED
    BY <1>1, <1>2, <1>3, <2>1, AnswerBusy DEF Refuse, Finished
<1>4. CASE Auth(c)
  <2>1. Begun(c) \in Busy(c)
    BY <1>4, Asking DEF Auth
  <2>2. PICK n : n = [Begun(c) EXCEPT !.conn[c].authed = TRUE]
    OBVIOUS
  <2>3. n \in Busy(c)
    BY <2>1, <2>2, BusyEdits
  <2>4. Answer(n, c, "ok")
    BY <1>4, <2>2 DEF Auth
  <2>5. QED
    BY <1>1, <1>2, <2>3, <2>4, AnswerBusy DEF Finished
<1>5. CASE Quit(c)
  <2>1. Begun(c) \in Busy(c)
    BY <1>5, Asking DEF Quit
  <2>2. QED
    BY <1>1, <1>2, <1>5, <2>1, AnswerBusy DEF Quit, Finished
<1>6. CASE Multi(c)
  <2>1. Begun(c) \in Busy(c)
    BY <1>6, Asking DEF Multi
  <2>2. PICK n : n = [Begun(c) EXCEPT !.conn[c] =
                        [@ EXCEPT !.multi = TRUE, !.txFailed = FALSE]]
    OBVIOUS
  <2>3. n \in Busy(c)
    BY <2>1, <2>2, BusyEdits
  <2>4. Answer(n, c, "ok")
    BY <1>6, <2>2 DEF Multi
  <2>5. QED
    BY <1>1, <1>2, <2>3, <2>4, AnswerBusy DEF Finished
<1>7. QED
  BY <1>3, <1>4, <1>5, <1>6

LEMMA WatchTurns ==
  ASSUME ServerInv, NEW c \in Conn, Watch(c) \/ Unwatch(c) \/ Discard(c)
  PROVE  Finished(c)
<1>1. cache \in GoodCache
  BY DEF ServerInv
<1>2. "ok" \in ReplyKind
  BY DEF ReplyKind
<1>3. CASE Watch(c)
  <2>1. /\ Begun(c) \in Busy(c) /\ conn[c] \in ConnRecord
        /\ Requested(c).cmd = "WATCH" /\ Proceeds(c)
    BY <1>3, Asking DEF Watch
  <2>2. PICK keys \in Seq(Key) : keys = Requested(c).keys
    BY <2>1, RequestType DEF ServerInv
  <2>3. PICK w : w = WatchedMore(conn[c], cache, keys)
    OBVIOUS
  <2>4. w.cache \in Advanced(cache) /\ w.watch \in WatchTable
    BY <1>1, <2>1, <2>3, WatchedMoreType
  <2>5. w.cache \in GoodCache /\ w.cache \in CacheRecord
    BY <2>4 DEF Advanced, GoodCache
  <2>6. PICK n : n = [Begun(c) EXCEPT !.conn[c].watch = w.watch]
    OBVIOUS
  <2>7. n \in Busy(c)
    BY <2>1, <2>4, <2>6, BusyEdits
  <2>8. PICK events \in Seq(Announcement) : events = Expiries(w.cache)
    BY <2>5, ExpiriesType
  <2>9. Answer(PublishAll(n, events), c, "ok") /\ Became(w.cache)
    BY <1>3, <2>2, <2>3, <2>6, <2>8 DEF Watch, Watches
  <2>10. net' \in AtRest(c)
    BY <1>2, <2>7, <2>9, AnswerTold
  <2>11. QED
    BY <2>5, <2>9, <2>10, BecameGood DEF Finished
<1>4. CASE Unwatch(c)
  <2>1. Begun(c) \in Busy(c)
    BY <1>4, Asking DEF Unwatch
  <2>2. PICK n : n = [Begun(c) EXCEPT !.conn[c].watch = <<>>]
    OBVIOUS
  <2>3. n \in Busy(c)
    BY <2>1, <2>2, BusyEdits
  <2>4. Answer(n, c, "ok") /\ Became(cache)
    BY <1>4, <2>2 DEF Unwatch
  <2>5. QED
    BY <1>1, <1>2, <2>3, <2>4, AnswerBusy, BecameGood DEF Finished
<1>5. CASE Discard(c)
  <2>1. Begun(c) \in Busy(c)
    BY <1>5, Asking DEF Discard
  <2>2. PICK n : n = WithoutTx(Begun(c), c)
    OBVIOUS
  <2>3. n \in Busy(c)
    BY <2>1, <2>2, BusyEdits
  <2>4. Answer(n, c, "ok") /\ Became(cache)
    BY <1>5, <2>2 DEF Discard
  <2>5. QED
    BY <1>1, <1>2, <2>3, <2>4, AnswerBusy, BecameGood DEF Finished
<1>6. QED
  BY <1>3, <1>4, <1>5

LEMMA EnqueueExact ==
  ASSUME ServerInv, NEW c \in Conn, Enqueue(c)
  PROVE  Finished(c)
<1>1. cache' \in GoodCache
  BY DEF ServerInv, Enqueue, Still
<1>2. "ok" \in ReplyKind /\ "error" \in ReplyKind
  BY DEF ReplyKind
<1>3. /\ Begun(c) \in Busy(c) /\ Requested(c).cmd \in Transactional
      /\ Proceeds(c)
  BY Asking DEF Enqueue
<1>4. PICK req \in Command : req = Requested(c)
  BY <1>3, RequestType DEF ServerInv
<1>5. PICK n : n = [Begun(c) EXCEPT !.conn[c].txFailed = TRUE]
  OBVIOUS
<1>6. PICK m : m = [Begun(c) EXCEPT !.conn[c].tx = Append(@, req)]
  OBVIOUS
<1>7. n \in Busy(c) /\ m \in Busy(c)
  BY <1>3, <1>5, <1>6, BusyEdits
<1>8. net' = Turned(Reply(n, c, "error"), c) \/ Answer(m, c, "ok")
  BY <1>4, <1>5, <1>6 DEF Enqueue
<1>9. QED
  BY <1>1, <1>2, <1>7, <1>8, AnswerBusy DEF Finished


(* What runs is an advance of the cache that was checked.                  *)
LEMMA ExecExact ==
  ASSUME ServerInv, NEW c \in Conn, Exec(c)
  PROVE  Finished(c)
<1>1. cache \in GoodCache
  BY DEF ServerInv
<1>2. {"nil", "error", "array", "failed"} \subseteq ReplyKind
  BY DEF ReplyKind
<1>3. Begun(c) \in Busy(c) /\ conn[c] \in ConnRecord
  BY Asking DEF Exec
<1>4. PICK n : n = WithoutTx(Begun(c), c)
  OBVIOUS
<1>5. n \in Busy(c)
  BY <1>3, <1>4, BusyEdits
<1>6. PICK checked : checked = CheckWatch(conn[c], cache)
  OBVIOUS
<1>7. PICK d : d = checked.cache
  OBVIOUS
<1>8. d \in GoodCache /\ d \in CacheRecord
  BY <1>1, <1>3, <1>6, <1>7, CheckWatchType DEF Advanced, GoodCache
<1>9. PICK gone \in Seq(Announcement) : gone = Expiries(d)
  BY <1>8, ExpiriesType
<1>10. ExecOver(c, checked)
  BY <1>6 DEF Exec
<1>11. CASE ExecFinds(c, checked)
  <2>1. Answer(PublishAll(n, gone), c, "nil") /\ Became(d)
    BY <1>4, <1>7, <1>9, <1>11 DEF ExecFinds
  <2>2. net' \in AtRest(c)
    BY <1>2, <1>5, <2>1, AnswerTold
  <2>3. QED
    BY <1>8, <2>1, <2>2, BecameGood DEF Finished
<1>12. ASSUME NEW r, r = ExecuteAll(Settle(d), conn[c].tx),
              ExecRuns(c, checked, r)
       PROVE  Finished(c)
  <2>1. Settle(d) \in Advanced(d) /\ Settle(d) \in GoodCache
    BY <1>8, SettleAdvances
  <2>2. conn[c].tx \in Seq(Command)
    BY <1>3 DEF ConnRecord
  <2>3. r \in Results(d)
    BY <1>8, <1>12, <2>1, <2>2, ExecuteAllType, ResultTransitive
  <2>4. PICK logged, a :
          a = Atomically(d, r, logged) /\ ExecEnds(c, checked, r, a)
    BY <1>7, <1>12 DEF ExecRuns
  <2>5. a \in Results(d)
    BY <1>8, <2>3, <2>4, AtomicallyType
  <2>6. PICK events \in Seq(Announcement) : events = gone \o a.events
    <3>1. a.events \in Seq(Announcement)
      BY <1>8, <2>5, ResultType
    <3>2. gone \o a.events \in Seq(Announcement)
      BY <3>1
    <3>3. QED
      BY <3>2
  <2>7. PICK m : m = PublishAll(n, events)
    OBVIOUS
  <2>8. ExecTold(c, checked, a) = m
    BY <1>4, <1>7, <1>9, <2>6, <2>7 DEF ExecTold
  <2>9. \/ net' = Turned(Reply(m, c, "error"), c)
        \/ Answer(m, c, IF a.ok THEN "array" ELSE "failed")
    BY <2>4, <2>8 DEF ExecEnds
  <2>10. net' \in AtRest(c)
    BY <1>2, <1>5, <2>7, <2>9, AnswerTold
  <2>11. Became(a.cache) /\ a.cache \in GoodCache
    BY <1>8, <2>4, <2>5, ResultType DEF ExecEnds
  <2>12. QED
    BY <2>10, <2>11, BecameGood DEF Finished
<1>13. QED
  BY <1>7, <1>10, <1>11, <1>12 DEF ExecOver, Settle

LEMMA ExecFailedExact ==
  ASSUME ServerInv, NEW c \in Conn, ExecFailed(c)
  PROVE  Finished(c)
<1>1. cache \in GoodCache /\ Became(cache)
  BY DEF ServerInv, ExecFailed
<1>2. "error" \in ReplyKind
  BY DEF ReplyKind
<1>3. Begun(c) \in Busy(c)
  <2>1. Asks(c, {"EXEC"})
    BY Zenon DEF ExecFailed
  <2>2. QED
    BY <2>1, Asking
<1>4. PICK n : n = WithoutTx(Begun(c), c)
  OBVIOUS
<1>5. n \in Busy(c)
  BY <1>3, <1>4, BusyEdits
<1>6. PICK m : m = [n EXCEPT !.conn[c].txFailed = FALSE]
  OBVIOUS
<1>7. m \in Busy(c)
  BY <1>5, <1>6, BusyEdits
<1>8. net' = Turned(Reply(m, c, "error"), c)
  BY <1>4, <1>6 DEF ExecFailed
<1>9. QED
  BY <1>1, <1>2, <1>7, <1>8, AnswerBusy, BecameGood DEF Finished

LEMMA EndsExact ==
  ASSUME ServerInv, NEW c \in Conn, Begun(c) \in Busy(c),
         NEW m \in Results(cache), Ends(c, m)
  PROVE  Finished(c)
<1>1. "ok" \in ReplyKind /\ "error" \in ReplyKind
  BY DEF ReplyKind
<1>2. m.cache \in GoodCache /\ m.events \in Seq(Announcement)
  BY ResultType DEF ServerInv
<1>3. PICK n : n = PublishAll(Begun(c), m.events)
  OBVIOUS
<1>4. net' = Turned(Reply(n, c, "error"), c) \/ Answer(n, c, "ok")
  BY <1>3 DEF Ends
<1>5. net' \in AtRest(c)
  BY <1>1, <1>2, <1>3, <1>4, AnswerTold
<1>6. QED
  BY <1>2, <1>5, BecameGood DEF Ends, Finished

LEMMA CommandTurns ==
  ASSUME ServerInv, NEW c \in Conn, Reads(c) \/ Mutates(c)
  PROVE  Finished(c)
<1>1. cache \in GoodCache
  BY DEF ServerInv
<1>2. /\ Begun(c) \in Busy(c) /\ Requested(c).cmd \in Transactional
      /\ Proceeds(c)
  BY Asking DEF Reads, Mutates, Transactional
<1>3. PICK r : r = Execute(cache, Requested(c))
  OBVIOUS
<1>4. r \in Results(cache)
  <2>1. Requested(c) \in Command
    BY <1>2, RequestType DEF ServerInv
  <2>2. QED
    BY <1>1, <1>3, <2>1, ExecuteType
<1>5. \E m \in Results(cache) : Ends(c, m)
  <2>1. CASE Reads(c)
    BY <1>1, <1>3, <1>4, <2>1, PlainlyType DEF Reads
  <2>2. CASE Mutates(c)
    BY <1>1, <1>3, <1>4, <2>2, MutationType DEF Mutates, MutatesBy
  <2>3. QED
    BY <2>1, <2>2
<1>6. QED
  BY <1>2, <1>5, EndsExact

LEMMA HubTurns ==
  ASSUME ServerInv, NEW c \in Conn,
         Subscribe(c) \/ Unsubscribe(c) \/ PublishNote(c)
  PROVE  Finished(c)
<1>1. cache' \in GoodCache
  BY DEF ServerInv, Subscribe, Unsubscribe, PublishNote, Still
<1>2. "ok" \in ReplyKind /\ "subscribed" \in ReplyKind
  BY DEF ReplyKind
<1>3. PICK T : T = {c}
  OBVIOUS
<1>4. CASE Subscribe(c)
  <2>1. /\ Begun(c) \in Busy(c) /\ Requested(c).cmd = "SUBSCRIBE"
        /\ Proceeds(c)
    <3>1. Asks(c, {"SUBSCRIBE"})
      BY <1>4, Zenon DEF Subscribe
    <3>2. QED
      BY <3>1, Asking
  <2>2. PICK chs \in Seq(Channel) : chs = Requested(c).channels /\ chs # <<>>
    BY <2>1, RequestType DEF ServerInv
  <2>3. PICK n : n = [Begun(c) EXCEPT !.conn[c].subMode = TRUE]
    OBVIOUS
  <2>4. n \in Busy(c)
    BY <2>1, <2>3, BusyEdits
  <2>5. PICK m : m = FoldLeft(LAMBDA o, ch : Listen(o, c, ch), n, chs)
    OBVIOUS
  <2>6. m \in Busy(c)
    BY <2>4, <2>5, ListeningBusy
  <2>7. PICK o : o = Acknowledge(m, c, chs, "subscribed")
    OBVIOUS
  <2>8. o \in Replying(c)
    BY <1>2, <2>1, <2>2, <2>6, <2>7, AcknowledgeReplies DEF Busy, Many
  <2>9. Turned(o, c) \in AtRest(c)
    BY <2>8, ReplyingRests
  <2>10. net' = Turned(o, c)
    BY <1>4, <2>2, <2>3, <2>5, <2>7, Zenon DEF Subscribe
  <2>11. QED
    BY <1>1, <2>9, <2>10 DEF Finished
<1>5. CASE Unsubscribe(c)
  <2>1. /\ Begun(c) \in Replying(c) /\ conn[c] \in ConnRecord
        /\ Requested(c).cmd \in Many
    <3>1. Asks(c, {"UNSUBSCRIBE"})
      BY <1>5, Zenon DEF Unsubscribe
    <3>2. /\ Begun(c) \in Busy(c) /\ conn[c] \in ConnRecord
          /\ Requested(c).cmd = "UNSUBSCRIBE"
      BY <3>1, Asking
    <3>3. QED
      BY <3>2, UnsubscribeReplying DEF Busy, Many
  <2>2. PICK chs : chs = SetToSeq(conn[c].subs)
    OBVIOUS
  <2>3. chs \in Seq(conn[c].subs)
    BY <2>1, <2>2, SetToSeqType DEF ConnRecord, Subscriptions
  <2>4. PICK n : n = FoldLeft(LAMBDA r, ch : IF r.ok THEN Dropping(r.net, c, ch)
                                             ELSE r, Yes(Begun(c)), chs).net
    OBVIOUS
  <2>5. n \in Replying(c)
    BY <2>1, <2>3, <2>4, DroppingAllReplies
  <2>6. net' = Unsubscribed(n, c)
    BY <1>5, <2>2, <2>4, Zenon DEF Unsubscribe
  <2>7. QED
    BY <1>1, <2>5, <2>6, UnsubscribedRests DEF Finished
<1>6. CASE PublishNote(c)
  <2>1. /\ Begun(c) \in Busy(c) /\ Requested(c).cmd = "PUBLISH"
        /\ Proceeds(c)
    BY <1>6, Asking DEF PublishNote
  <2>2. PICK ch \in Channel : ch = Requested(c).channel
    BY <2>1, RequestType DEF ServerInv
  <2>3. PICK n : n = Publish(Begun(c), ch, "note")
    OBVIOUS
  <2>4. n \in Underway(c)
    <3>1. Begun(c) \in Loose(T) /\ Begun(c) \in Underway(c)
      BY <1>3, <2>1 DEF Busy, Underway
    <3>2. n \in Informing(T, Begun(c))
      BY <2>3, <3>1, PublishInforms
    <3>3. QED
      BY <1>3, <3>1, <3>2, UnderwayGoesOn
  <2>5. Answer(n, c, "ok")
    BY <1>6, <2>2, <2>3 DEF PublishNote
  <2>6. QED
    BY <1>1, <1>2, <2>4, <2>5, AnswerExact DEF Finished
<1>7. QED
  BY <1>4, <1>5, <1>6

LEMMA NewJobType ==
  ASSUME NEW kind \in {"save", "load"}, NEW owner \in Conn \cup {"host", "close"},
         NEW re \in Nat
  PROVE  /\ NewJob(kind, owner, re) \in Job
         /\ NewJob(kind, owner, re).owner = owner
         /\ NewJob(kind, owner, re).re = re
BY DEF NewJob, Job, Snapshots

LEMMA SaveOrLoadKeeps ==
  ASSUME ServerInv, NEW c \in Conn, SaveOrLoad(c)
  PROVE  Exactly /\ jobs' \in Seq(Job) /\ Patient(net', jobs')
<1>1. /\ cache' \in GoodCache /\ jobs \in Seq(Job) /\ Patient(net, jobs)
      /\ net \in NetRecord
  BY LooseType DEF ServerInv, SaveOrLoad, Still, Exact
<1>2. "error" \in ReplyKind
  BY DEF ReplyKind
<1>3. PICK n : n = Begun(c)
  OBVIOUS
<1>4. n \in Busy(c) /\ Proceeds(c)
  BY <1>3, Asking DEF SaveOrLoad
<1>5. n.conn[c].taken \in Nat
  BY <1>4, LooseType DEF Busy, Underway, ConnRecord
<1>6. PICK kind \in {"save", "load"} :
        kind = IF Requested(c).cmd = "SAVE" THEN "save" ELSE "load"
  OBVIOUS
<1>7. PICK job \in Job :
        /\ job = NewJob(kind, c, n.conn[c].taken)
        /\ job.owner = c /\ job.re = n.conn[c].taken
  BY <1>5, NewJobType
<1>8. CASE net' = Turned(Reply(n, c, "error"), c) /\ jobs' = jobs
  <2>1. Finished(c)
    BY <1>1, <1>2, <1>4, <1>8, AnswerBusy DEF Finished
  <2>2. QED
    BY <1>4, <1>8, <2>1, FinishedKeeps
<1>9. CASE net' = Await(n, c) /\ jobs' = Append(jobs, job)
  <2>1. /\ net' \in Exact /\ Others(c, net')
        /\ Attended(plan.script[c], net'.conn[c])
        /\ Awaited(net'.conn[c], job.re)
    BY <1>4, <1>7, <1>9, AwaitExact
  <2>2. net' \in NetRecord
    BY <2>1, LooseType DEF Exact
  <2>3. NoJob(jobs, c)
    BY <1>1, <1>4, NotWaiting DEF Proceeds, conn
  <2>4. Patient(net', jobs)
    BY <1>1, <2>1, <2>2, <2>3, EndedPatient
  <2>5. jobs' \in Seq(Job) /\ Patient(net', jobs')
    BY <1>1, <1>7, <1>9, <2>1, <2>3, <2>4, OrderlyAppend
  <2>6. QED
    BY <1>1, <2>1, <2>5 DEF Exactly
<1>10. QED
  BY <1>3, <1>6, <1>7, <1>8, <1>9 DEF SaveOrLoad

(* A turn leaves the scenario and the snapshot alone, and only SAVE and    *)
(* LOAD touch the queue of jobs.                                           *)
LEMMA TurnKeeps ==
  ASSUME ServerInv, NEW c \in Conn, Turn(c)
  PROVE  ServerInv'
<1>1. /\ plan \in Scenario /\ snapshot \in Snapshots /\ jobs \in Seq(Job)
  BY DEF ServerInv
<1>2. SUFFICES plan' = plan /\ snapshot' = snapshot /\ Exactly
               /\ jobs' \in Seq(Job) /\ Patient(net', jobs')
  BY <1>1, Kept DEF Exactly
<1>3. ASSUME NEW cmds, Asks(c, cmds)
      PROVE  /\ plan' = plan /\ snapshot' = snapshot
             /\ Finished(c) /\ jobs' = jobs =>
                  Exactly /\ jobs' \in Seq(Job) /\ Patient(net', jobs')
  BY <1>3, FinishedKeeps DEF Asks
<1>4. CASE LoopEnds(c)
  <2>1. net.conn[c].loop # "waiting" /\ net \in Exact /\ cache \in GoodCache
    BY <1>4 DEF LoopEnds, conn, ServerInv
  <2>2. net' \in Exact /\ net' \in Chatting(net)
    BY <1>4, <2>1, LoopEndsExact DEF LoopEnds
  <2>3. /\ plan' = plan /\ snapshot' = snapshot /\ jobs' = jobs
        /\ cache' = cache
    BY <1>4 DEF LoopEnds, Still
  <2>4. QED
    BY <2>1, <2>2, <2>3, ChatKeeps DEF Exactly
<1>5. CASE Refuse(c)
  <2>1. Finished(c) /\ Proceeds(c)
    BY <1>5, PlainTurns DEF Refuse
  <2>2. plan' = plan /\ snapshot' = snapshot /\ jobs' = jobs
    BY <1>5 DEF Refuse
  <2>3. QED
    BY <2>1, <2>2, FinishedKeeps
<1>6. CASE Auth(c) \/ Quit(c) \/ Multi(c)
  BY <1>3, <1>6, PlainTurns DEF Auth, Quit, Multi
<1>7. CASE Watch(c) \/ Unwatch(c) \/ Discard(c)
  BY <1>3, <1>7, WatchTurns DEF Watch, Unwatch, Discard
<1>8. CASE Enqueue(c)
  BY <1>3, <1>8, EnqueueExact DEF Enqueue
<1>9. CASE Exec(c)
  BY <1>3, <1>9, ExecExact DEF Exec
<1>10. CASE ExecFailed(c)
  BY <1>3, <1>10, ExecFailedExact DEF ExecFailed
<1>11. CASE Reads(c) \/ Mutates(c)
  BY <1>3, <1>11, CommandTurns DEF Reads, Mutates
<1>12. CASE Subscribe(c) \/ Unsubscribe(c) \/ PublishNote(c)
  <2>1. (\E cmds : Asks(c, cmds)) /\ jobs' = jobs
    <3>1. CASE Subscribe(c)
      <4>1. Asks(c, {"SUBSCRIBE"}) /\ UNCHANGED jobs
        BY <3>1, Zenon DEF Subscribe
      <4>2. QED
        BY <4>1
    <3>2. CASE Unsubscribe(c)
      <4>1. Asks(c, {"UNSUBSCRIBE"}) /\ UNCHANGED jobs
        BY <3>2, Zenon DEF Unsubscribe
      <4>2. QED
        BY <4>1
    <3>3. CASE PublishNote(c)
      BY <3>3 DEF PublishNote
    <3>4. QED
      BY <1>12, <3>1, <3>2, <3>3
  <2>2. QED
    BY <1>3, <1>12, <2>1, HubTurns
<1>13. CASE SaveOrLoad(c)
  <2>1. Asks(c, {"SAVE", "LOAD"})
    BY <1>13 DEF SaveOrLoad
  <2>2. QED
    BY <1>3, <1>13, <2>1, SaveOrLoadKeeps
<1>14. QED
  BY <1>4, <1>5, <1>6, <1>7, <1>8, <1>9, <1>10, <1>11, <1>12, <1>13,
     Zenon DEF Turn

LEMMA SocketsKeep ==
  ASSUME ServerInv, NEW c \in Conn,
         \/ Connect(c) \/ Take(c) \/ ClientLeaves(c) \/ CloseEvent(c)
         \/ IdleTimeout(c) \/ \E n \in Batch : Arrive(c, n)
  PROVE  ServerInv'
<1>1. /\ plan \in Scenario /\ net \in Exact /\ cache \in GoodCache
      /\ snapshot \in Snapshots /\ jobs \in Seq(Job)
  BY DEF ServerInv
<1>2. SUFFICES /\ plan' = plan /\ snapshot' = snapshot /\ jobs' = jobs
               /\ cache' = cache /\ net' \in Exact
               /\ net' \in Chatting(net) \/ Patient(net', jobs)
  BY <1>1, ChatKeeps, Kept
<1>3. CASE Connect(c)
  <2>1. PICK b \in BOOLEAN : b = ~ plan.password
    BY <1>1 DEF Scenario
  <2>2. PICK l : /\ l = (IF Cardinality(Registered) >= MaxConns
                         THEN [NoConn EXCEPT !.socket = "gone"]
                         ELSE NewConn(~ plan.password))
                 /\ net' = [net EXCEPT !.conn[c] = l]
    BY <1>3 DEF Connect
  <2>3. NewConn(~ plan.password) = NewConn(b)
    BY <2>1, Zenon
  <2>4. l = NewConn(b) \/ l = [NoConn EXCEPT !.socket = "gone"]
    BY <2>2, <2>3
  <2>5. net.conn[c].socket = "none"
    BY <1>3 DEF Connect, conn
  <2>6. net' \in Exact
    BY <1>1, <2>2, <2>4, <2>5, ConnectExact
  <2>7. net \in NetRecord /\ net' \in NetRecord
    BY <1>1, <2>6, LooseType DEF Exact
  <2>8. net'.conn[c] = l /\ Only(net, net', c)
    BY <2>2, <2>7 DEF NetRecord, Only
  <2>9. Others(c, net')
    BY <2>8, ChatReflexive DEF Only, Others, conn
  <2>10. Attended(plan.script[c], net'.conn[c])
    BY <2>4, <2>8, NewAttended
  <2>11. NoJob(jobs, c) /\ Patient(net, jobs)
    BY <2>5, NotWaiting DEF ServerInv
  <2>12. Patient(net', jobs)
    BY <2>7, <2>9, <2>10, <2>11, EndedPatient
  <2>13. QED
    BY <1>3, <2>6, <2>12 DEF Connect, Still
<1>4. CASE Take(c)
  BY <1>1, <1>4, TakenExact DEF Take, Still, conn
<1>5. CASE ClientLeaves(c) \/ CloseEvent(c)
  <2>1. /\ plan' = plan /\ snapshot' = snapshot /\ jobs' = jobs
        /\ cache' = cache /\ net' = Cleanup(net, c)
        /\ net.conn[c].socket # "none"
    BY <1>5 DEF ClientLeaves, CloseEvent, conn
  <2>2. QED
    BY <1>1, <2>1, CleanupExact
<1>6. CASE IdleTimeout(c)
  BY <1>1, <1>6, DisconnectExact DEF IdleTimeout, Still
<1>7. ASSUME NEW n \in Batch, Arrive(c, n)
      PROVE  /\ plan' = plan /\ snapshot' = snapshot /\ jobs' = jobs
             /\ cache' = cache /\ net' \in Exact /\ net' \in Chatting(net)
  <2>1. n \in Nat /\ MaxQueued \in Nat
    BY ServerAssumption
  <2>2. PICK k : k = net.conn[c]
    OBVIOUS
  <2>3. ~ net.conn[c].closed /\ k.arrived + n <= Asked(c)
    BY <1>7, <2>2 DEF Arrive, conn, Asked
  <2>4. net' = QueueUp(Account(net, c, n), c, n,
                       MaxQueued - (k.arrived - k.taken))
    BY <1>7, <2>2 DEF Arrive, conn
  <2>5. Asked(c) \in Nat
    BY <1>1, AskedType
  <2>6. net' \in Exact /\ net' \in Chatting(net)
    BY <1>1, <2>1, <2>2, <2>3, <2>4, <2>5, QueueUpExact
  <2>7. QED
    BY <1>7, <2>6 DEF Arrive, Still
<1>8. QED
  BY <1>3, <1>4, <1>5, <1>6, <1>7

-----------------------------------------------------------------------------
(* Jobs, the embedding program, time and shutdown.                         *)

(* Nothing to publish, or what was published.                              *)
LEMMA ToldExact ==
  ASSUME NEW n \in Exact, NEW events \in Seq(Announcement)
  PROVE  PublishAll(n, events) \in Exact /\ PublishAll(n, events) \in Chatting(n)
<1>1. PICK S : S = {}
  OBVIOUS
<1>2. n \in Loose(S)
  BY <1>1 DEF Exact
<1>3. PublishAll(n, events) \in Loose(S) /\ PublishAll(n, events) \in Chatting(n)
  BY <1>2, PublishAllInforms DEF Informing, Sending
<1>4. QED
  BY <1>1, <1>3 DEF Exact

LEMMA ImageSeq ==
  ASSUME NEW c \in CacheRecord
  PROVE  Dump(c) \in Snapshots
BY DumpType DEF Snapshots

LEMMA HeadOfJobs ==
  ASSUME ServerInv, NEW job, JobDone(job)
  PROVE  /\ job \in Job /\ jobs' \in Seq(Job) /\ Patient(net, jobs')
         /\ job.owner \in Conn => /\ Awaited(net.conn[job.owner], job.re)
                                  /\ NoJob(jobs', job.owner)
<1>1. /\ jobs \in Seq(Job) /\ jobs # <<>> /\ Patient(net, jobs)
      /\ job = Head(jobs) /\ jobs' = Tail(jobs)
  BY DEF ServerInv, JobDone
<1>2. QED
  BY <1>1, OrderlyTail

(* A client that waits is answered, unless it has left meanwhile.          *)
LEMMA SettledKeeps ==
  ASSUME ServerInv, NEW job, JobDone(job), NEW n \in Exact, n \in Chatting(net),
         NEW ok \in BOOLEAN, NEW m, m = Settled(n, job, ok)
  PROVE  m \in Exact /\ Patient(m, jobs')
<1>1. /\ job \in Job /\ Patient(net, jobs')
      /\ job.owner \in Conn => /\ Awaited(net.conn[job.owner], job.re)
                               /\ NoJob(jobs', job.owner)
  BY HeadOfJobs
<1>2. net \in NetRecord /\ n \in NetRecord
  BY LooseType DEF ServerInv, Exact
<1>3. Patient(n, jobs')
  BY <1>1, <1>2, ChatPatient
<1>4. CASE job.owner \notin Conn
  BY <1>3, <1>4 DEF Settled
<1>5. ASSUME NEW c \in Conn, job.owner = c
      PROVE  m \in Exact /\ Patient(m, jobs')
  <2>1. PICK k \in ConnRecord : k = n.conn[c]
    BY <1>2, ConnType
  <2>2. PICK s : s = plan.script[c]
    OBVIOUS
  <2>3. Chat(s, net.conn[c], k) /\ Awaited(net.conn[c], job.re)
    BY <1>1, <1>5, <2>1, <2>2 DEF Chatting
  <2>4. Awaited(k, job.re)
    BY <2>3, ChatAwaited
  <2>5. Attended(s, k)
    BY <1>3, <2>1, <2>2 DEF Patient, Attending
  <2>6. k.socket # "none" /\ Heard(s, k, k.taken - 1)
    BY <2>4, <2>5 DEF Awaited, Attended
  <2>7. PICK kind \in ReplyKind : kind = IF ok THEN "ok" ELSE "error"
    BY DEF ReplyKind
  <2>8. PICK chunk \in Chunk : chunk = [kind |-> kind, re |-> job.re]
    BY <1>1 DEF Job, Chunk
  <2>9. PICK S : S = {}
    OBVIOUS
  <2>10. n \in Loose(S) /\ S \subseteq {c}
    BY <2>9 DEF Exact
  <2>11. PICK r : r = Write(n, c, chunk)
    OBVIOUS
  <2>12. PICK w : w = r.net
    OBVIOUS
  <2>13. /\ w \in Loose(S) /\ Only(n, w, c)
         /\ Mute(n.conn[c]) => w = n
    <3>1. r.net \in Loose(S) /\ Only(n, r.net, c)
      BY <2>10, <2>11, WriteSettles
    <3>2. ASSUME Mute(n.conn[c])
          PROVE  r.net = n
      BY <2>11, <3>2 DEF Write, No
    <3>3. QED
      BY <2>12, <3>1, <3>2
  <2>14. Answered(c, w.conn[c])
    <3>1. CASE k.socket = "gone"
      <4>1. k.closed
        BY <2>1, <2>10, <3>1, LooseType DEF Decent
      <4>2. w = n /\ ~ Reaches(k)
        BY <2>1, <2>13, <4>1 DEF Mute, Reaches
      <4>3. QED
        BY <2>1, <2>2, <2>6, <4>2 DEF Answered, Heard
    <3>2. CASE k.socket # "gone"
      <4>1. chunk = [kind |-> kind, re |-> k.taken]
        BY <2>4, <2>8, <3>2 DEF Awaited
      <4>2. QED
        BY <2>1, <2>2, <2>6, <2>10, <2>11, <2>12, <4>1, ReplyAnswers
    <3>3. QED
      BY <3>1, <3>2
  <2>15. Others(c, w)
    <3>1. Others(c, n)
      BY DEF Others, Chatting, conn
    <3>2. QED
      BY <2>13, <3>1, OthersOnly
  <2>16. m = Turned(w, c)
    BY <1>5, <2>7, <2>8, <2>11, <2>12 DEF Settled
  <2>17. m \in Exact
    BY <2>10, <2>13, <2>16, TurnedExact
  <2>18. m \in NetRecord /\ Ended(c, m)
    BY <2>10, <2>13, <2>14, <2>15, <2>16, <2>17, TurnedEnds, LooseType DEF Exact
  <2>19. Attended(plan.script[c], m.conn[c]) /\ Others(c, m)
    BY <2>18, EndedAttended DEF Ended
  <2>20. Patient(m, jobs')
    BY <1>1, <1>2, <1>5, <2>18, <2>19, EndedPatient
  <2>21. QED
    BY <2>17, <2>20
<1>6. QED
  BY <1>4, <1>5

LEMMA LeavesKeeps ==
  ASSUME NEW m \in Exact, NEW js, Patient(m, js), NEW next, Leaves(m, next)
  PROVE  net' \in Exact /\ Patient(net', js)
<1>1. m \in NetRecord /\ net' \in Exact /\ net' \in Chatting(m)
  BY LooseType, LeavesExact DEF Exact
<1>2. QED
  BY <1>1, ChatPatient

LEMMA JobBeginsKeeps ==
  ASSUME ServerInv, JobBegins
  PROVE  ServerInv'
<1>1. /\ plan \in Scenario /\ net \in Exact /\ cache \in GoodCache
      /\ snapshot \in Snapshots /\ jobs \in Seq(Job) /\ jobs # <<>>
  BY DEF ServerInv, JobBegins
<1>2. PICK job \in Job : job = Head(jobs) /\ job = jobs[1]
  BY <1>1, HeadTailProperties
<1>3. PICK image \in Snapshots :
        image = IF Head(jobs).kind = "save" THEN Dump(cache) ELSE snapshot
  BY <1>1, ImageSeq DEF GoodCache
<1>4. PICK j : j = [job EXCEPT !.begun = TRUE, !.image = image]
  OBVIOUS
<1>5. j \in Job
  BY <1>4 DEF Job
<1>6. jobs' = [jobs EXCEPT ![1] = j]
  BY <1>2, <1>3, <1>4 DEF JobBegins
<1>7. /\ jobs' \in Seq(Job) /\ DOMAIN jobs' = DOMAIN jobs
      /\ \A i \in DOMAIN jobs : /\ jobs'[i].owner = jobs[i].owner
                                /\ jobs'[i].re = jobs[i].re
  <2>1. j.owner = job.owner /\ j.re = job.re
    BY <1>4 DEF Job
  <2>2. QED
    BY <1>1, <1>2, <1>5, <1>6, <2>1
<1>8. Patient(net, jobs')
  BY <1>7 DEF ServerInv, Patient, Orderly
<1>9. QED
  BY <1>1, <1>7, <1>8, Kept DEF JobBegins, Still

LEMMA JobFailsKeeps ==
  ASSUME ServerInv, JobFails
  PROVE  ServerInv'
<1>1. /\ plan \in Scenario /\ net \in Exact /\ cache \in GoodCache
      /\ snapshot \in Snapshots
  BY DEF ServerInv
<1>2. PICK job : /\ JobDone(job)
                 /\ Leaves(Settled(net, job, FALSE), AfterFinal(job, FALSE))
  BY DEF JobFails
<1>3. job \in Job /\ jobs' \in Seq(Job)
  BY <1>2, HeadOfJobs
<1>4. PICK m : m = Settled(net, job, FALSE)
  OBVIOUS
<1>5. m \in Exact /\ Patient(m, jobs')
  BY <1>1, <1>2, <1>4, Itself, SettledKeeps
<1>6. net' \in Exact /\ Patient(net', jobs')
  BY <1>2, <1>4, <1>5, LeavesKeeps
<1>7. QED
  BY <1>1, <1>3, <1>6, Kept DEF JobFails, Still

LEMMA SavedKeeps ==
  ASSUME ServerInv, Saved
  PROVE  ServerInv'
<1>1. /\ plan \in Scenario /\ net \in Exact /\ cache \in GoodCache
      /\ snapshot \in Snapshots
  BY DEF ServerInv
<1>2. PICK ok \in BOOLEAN : ok = (log # "broken")
  OBVIOUS
<1>3. PICK job : /\ JobDone(job) /\ snapshot' = job.image
                 /\ Leaves(Settled(net, job, ok), AfterFinal(job, ok))
  BY <1>2, Zenon DEF Saved
<1>4. job \in Job /\ jobs' \in Seq(Job)
  BY <1>3, HeadOfJobs
<1>5. snapshot' \in Snapshots
  BY <1>3, <1>4 DEF Job
<1>6. PICK m : m = Settled(net, job, ok)
  OBVIOUS
<1>7. m \in Exact /\ Patient(m, jobs')
  BY <1>1, <1>3, <1>6, Itself, SettledKeeps
<1>8. net' \in Exact /\ Patient(net', jobs')
  BY <1>3, <1>6, <1>7, LeavesKeeps
<1>9. QED
  BY <1>1, <1>4, <1>5, <1>8, Kept DEF Saved, Still

LEMMA ReplacingType ==
  ASSUME NEW c \in GoodCache, NEW image \in Seq(ImageEntry)
  PROVE  Replacing(Replace(c, image)) \in Results(c)
<1>1. image \in Seq(SetRecordArgument)
  BY DEF ImageEntry, SetRecordArgument
<1>2. PICK r \in Outcomes(c) : r = Replace(c, image)
  BY <1>1, ReplaceAdvances
<1>3. PICK load \in Announcement : load = [event |-> "load"]
  BY DEF Announcement
<1>4. <<load>> \in Seq(Announcement)
  BY SingleEvent
<1>5. QED
  BY <1>2, <1>3, <1>4 DEF Replacing, Results, Outcomes

LEMMA LoadedKeeps ==
  ASSUME ServerInv, Loaded
  PROVE  ServerInv'
<1>1. /\ plan \in Scenario /\ net \in Exact /\ cache \in GoodCache
      /\ snapshot \in Snapshots
  BY DEF ServerInv
<1>2. PICK job : /\ JobDone(job) /\ job.image # None
                 /\ LoadedAs(job, Replacing(Replace(cache, job.image)))
  BY DEF Loaded
<1>3. job \in Job /\ jobs' \in Seq(Job)
  BY <1>2, HeadOfJobs
<1>4. job.image \in Seq(ImageEntry)
  BY <1>2, <1>3 DEF Job, Snapshots
<1>5. PICK r \in Results(cache) : r = Replacing(Replace(cache, job.image))
  BY <1>1, <1>4, ReplacingType
<1>6. PICK logged, a : a = Atomically(cache, r, logged) /\ LoadEnds(job, a)
  BY <1>2, <1>5 DEF LoadedAs
<1>7. a \in Results(cache)
  BY <1>1, <1>6, AtomicallyType
<1>8. /\ a.ok \in BOOLEAN /\ a.cache \in GoodCache
      /\ a.events \in Seq(Announcement)
  BY <1>1, <1>7, ResultType
<1>9. PICK n : n = PublishAll(net, a.events)
  OBVIOUS
<1>10. n \in Exact /\ n \in Chatting(net)
  BY <1>1, <1>8, <1>9, ToldExact
<1>11. net' = Settled(n, job, a.ok) /\ cache' \in GoodCache
  BY <1>6, <1>8, <1>9, BecameGood DEF LoadEnds
<1>12. net' \in Exact /\ Patient(net', jobs')
  BY <1>2, <1>8, <1>10, <1>11, SettledKeeps
<1>13. QED
  BY <1>1, <1>3, <1>11, <1>12, Kept DEF Loaded

LEMMA ToldKeeps ==
  ASSUME ServerInv, NEW m \in Results(cache), Told(m)
  PROVE  Exactly /\ net' \in Chatting(net)
<1>1. m.cache \in GoodCache /\ m.events \in Seq(Announcement)
  BY ResultType DEF ServerInv
<1>2. net' \in Exact /\ net' \in Chatting(net)
  BY <1>1, ToldExact DEF ServerInv, Told
<1>3. QED
  BY <1>1, <1>2, BecameGood DEF Told, Exactly

LEMMA HostWritesKeeps ==
  ASSUME ServerInv, HostWrites
  PROVE  ServerInv'
<1>1. /\ plan \in Scenario /\ cache \in GoodCache
      /\ snapshot \in Snapshots /\ jobs \in Seq(Job)
      /\ plan.host # <<>>
  BY DEF ServerInv, HostWrites
<1>2. PICK host \in Seq(Command) : host = plan.host
  BY <1>1 DEF Scenario
<1>3. Head(host) \in Command /\ Tail(host) \in Seq(Command)
  BY <1>1, <1>2, HeadTailProperties
<1>4. PICK r \in Results(cache) : r = Execute(cache, Head(plan.host))
  BY <1>1, <1>2, <1>3, ExecuteType
<1>5. PICK logged :
        /\ Told(Mutation(r, logged))
        /\ plan' = [plan EXCEPT !.host = Tail(@)]
        /\ UNCHANGED <<jobs, snapshot, phase, late>>
  BY <1>4 DEF HostWrites, WrittenBy
<1>6. Exactly /\ net' \in Chatting(net)
  BY <1>1, <1>5, MutationType, ToldKeeps
<1>7. plan' \in Scenario /\ plan'.script = plan.script
  <2>1. plan' = [plan EXCEPT !.host = Tail(host)]
    BY <1>2, <1>5
  <2>2. QED
    BY <1>1, <1>3, <2>1 DEF Scenario
<1>8. QED
  BY <1>1, <1>5, <1>6, <1>7, ChatKeeps, Kept DEF Exactly

LEMMA TimeKeeps ==
  ASSUME ServerInv, Tick \/ SweepExpired
  PROVE  ServerInv'
<1>1. /\ plan \in Scenario /\ cache \in GoodCache /\ net \in Exact
      /\ snapshot \in Snapshots /\ jobs \in Seq(Job)
  BY DEF ServerInv
<1>2. CASE Tick
  <2>1. Later(cache, 1) \in GoodCache
    BY <1>1, LaterAdvances DEF Advanced
  <2>2. cache' \in GoodCache
    BY <1>2, <2>1, BecameGood DEF Tick
  <2>3. QED
    BY <1>1, <1>2, <2>2, Itself, ChatKeeps, Kept DEF Tick
<1>3. CASE SweepExpired
  <2>1. PICK d : d = Sweep(cache).cache
    OBVIOUS
  <2>2. d \in Advanced(cache) /\ d \in GoodCache
    BY <1>1, <2>1, SweepAdvances DEF Outcomes, Advanced
  <2>3. PICK r \in Results(d) : r = Nothing(d)
    BY <2>2, NothingType
  <2>4. r \in Results(cache)
    BY <1>1, <2>2, ResultTransitive
  <2>5. Plainly(r) \in Results(cache)
    BY <1>1, <2>4, PlainlyType
  <2>6. Told(Plainly(r))
    BY <1>3, <2>1, <2>3 DEF SweepExpired
  <2>7. Exactly /\ net' \in Chatting(net)
    BY <2>5, <2>6, ToldKeeps
  <2>8. QED
    BY <1>1, <1>3, <2>7, ChatKeeps, Kept DEF SweepExpired, Exactly
<1>4. QED
  BY <1>2, <1>3

LEMMA AutosaveKeeps ==
  ASSUME ServerInv, Autosave
  PROVE  ServerInv'
<1>1. /\ plan \in Scenario /\ cache \in GoodCache /\ net \in Exact
      /\ snapshot \in Snapshots
  BY DEF ServerInv
<1>2. PICK job \in Job : job = NewJob("save", "host", 0) /\ job.owner \notin Conn
  BY NewJobType, ServerAssumption
<1>3. jobs = <<>> /\ jobs' = <<job>> /\ jobs' = Append(jobs, job)
  BY <1>2 DEF Autosave
<1>4. jobs' \in Seq(Job) /\ Patient(net, jobs')
  BY <1>2, <1>3, OrderlyAppend DEF ServerInv
<1>5. QED
  BY <1>1, <1>4, Kept DEF Autosave, Still

LEMMA ShutdownKeeps ==
  ASSUME ServerInv, Shutdown
  PROVE  ServerInv'
<1>1. /\ plan \in Scenario /\ cache \in GoodCache /\ net \in Exact
      /\ snapshot \in Snapshots /\ jobs \in Seq(Job)
  BY DEF ServerInv
<1>2. cache' = cache /\ plan' = plan /\ snapshot' = snapshot
  BY DEF Shutdown, Close, DeadlinePasses, SocketsDone, JobsDone, GiveUp, Still
<1>3. SUFFICES net' \in Exact /\ jobs' \in Seq(Job) /\ Patient(net', jobs')
  BY <1>1, <1>2, Kept
<1>4. Patient(net, jobs) /\ net \in NetRecord
  BY <1>1, LooseType DEF ServerInv, Exact
<1>5. CASE Close
  <2>1. net' = [net EXCEPT !.conn = [c \in Conn |->
                  IF net.conn[c].socket # "open" THEN net.conn[c]
                  ELSE [net.conn[c] EXCEPT !.socket = "ended"]]]
    BY <1>5 DEF Close, conn
  <2>2. net' \in Exact /\ net' \in Chatting(net)
    BY <1>1, <2>1, CloseExact
  <2>3. jobs' = jobs
    BY <1>5 DEF Close
  <2>4. QED
    BY <2>2, <2>3, ChatKeeps
<1>6. CASE DeadlinePasses
  BY <1>1, <1>4, <1>6 DEF DeadlinePasses
<1>7. CASE SocketsDone
  <2>1. PICK n : n = [net EXCEPT !.conn =
                        [c \in Conn |-> Destroyed(net.conn[c])]]
    OBVIOUS
  <2>2. n \in Exact /\ n \in Chatting(net)
    BY <1>1, <2>1, CloseExact
  <2>3. PICK job \in Job : /\ job = NewJob("save", "close", 0)
                           /\ job.owner \notin Conn
    BY NewJobType, ServerAssumption
  <2>4. PICK next : Leaves(n, next)
    BY <1>7, <2>1 DEF SocketsDone, conn
  <2>5. Patient(n, jobs)
    BY <1>4, <2>2, ChatPatient
  <2>6. jobs' = jobs \/ jobs' = Append(jobs, job)
    BY <1>7, <2>3 DEF SocketsDone
  <2>7. jobs' \in Seq(Job) /\ Patient(n, jobs')
    BY <1>1, <2>3, <2>5, <2>6, OrderlyAppend
  <2>8. QED
    BY <2>2, <2>4, <2>7, LeavesKeeps
<1>8. CASE JobsDone \/ GiveUp
  <2>1. PICK next : Leaves(net, next)
    BY <1>8 DEF JobsDone, GiveUp
  <2>2. jobs' = jobs
    BY <1>8 DEF JobsDone, GiveUp
  <2>3. QED
    BY <1>1, <1>4, <2>1, <2>2, LeavesKeeps
<1>9. QED
  BY <1>5, <1>6, <1>7, <1>8 DEF Shutdown

-----------------------------------------------------------------------------
(* The theorem.                                                            *)

LEMMA InitHolds == Init => ServerInv
<1> SUFFICES ASSUME Init PROVE ServerInv
  OBVIOUS
<1>1. plan \in Scenario
  BY ServerAssumption DEF Init
<1>2. cache \in GoodCache
  BY EmptyIsGood DEF Init
<1>3. snapshot \in Snapshots /\ jobs \in Seq(Job)
  BY DEF Init, Snapshots
<1>4. PICK l : l = NoConn
  OBVIOUS
<1>5. /\ l \in ConnRecord /\ l.accounted = 0 /\ l.arrived = 0
      /\ Decent(l) /\ UpToDate(l)
  BY <1>4, EmptyConn
<1>6. PICK none : none = <<>>
  OBVIOUS
<1>7. none \in Seq(Conn)
  BY <1>6
<1>8. net = [conn |-> [c \in Conn |-> l], inflight |-> 0,
             hub |-> [ch \in Channel |-> none]]
  BY <1>4, <1>6 DEF Init
<1>9. net \in NetRecord /\ \A c \in Conn : net.conn[c] = l
  BY <1>5, <1>7, <1>8 DEF NetRecord
<1>10. Total(net) = 0
  <2>1. \A c \in Conn : AccountedOp(net, c, c) = 0
    BY <1>5, <1>9 DEF AccountedOp
  <2>2. IsFiniteSet(Conn) /\ Accounts!IsFiniteSet(Conn)
    BY AccountsFinite
  <2>3. Accounts!Summed(net, Conn) = 0
    BY <2>1, <2>2, Accounts!SumOfZeros
  <2>4. QED
    BY <2>3, TotalIsSum
<1>11. \A c \in Conn : Asked(c) \in Nat
  BY <1>1, AskedType
<1>12. net.inflight = 0 /\ MaxInflight \in Nat
  BY <1>8, Limits
<1>13. net \in Exact
  BY <1>5, <1>9, <1>10, <1>11, <1>12 DEF Exact, Loose
<1>14. Patient(net, jobs)
  <2>1. Attending(net)
    BY <1>4, <1>9, NewAttended DEF Attending
  <2>2. DOMAIN jobs = {}
    BY DEF Init
  <2>3. QED
    BY <2>1, <2>2 DEF Patient, Orderly
<1>15. QED
  BY <1>1, <1>2, <1>3, <1>13, <1>14 DEF ServerInv

LEMMA NextKeeps == ServerInv /\ [Next]_vars => ServerInv'
<1> SUFFICES ASSUME ServerInv, [Next]_vars PROVE ServerInv'
  OBVIOUS
<1>1. ASSUME NEW c \in Conn, Turn(c) PROVE ServerInv'
  BY <1>1, TurnKeeps
<1>2. ASSUME NEW c \in Conn,
             \/ Connect(c) \/ Take(c) \/ ClientLeaves(c) \/ CloseEvent(c)
             \/ IdleTimeout(c) \/ \E n \in Batch : Arrive(c, n)
      PROVE  ServerInv'
  BY <1>2, SocketsKeep
<1>3. CASE Autosave \/ JobBegins
  BY <1>3, AutosaveKeeps, JobBeginsKeeps
<1>4. CASE JobEnds
  BY <1>4, JobFailsKeeps, SavedKeeps, LoadedKeeps DEF JobEnds
<1>5. CASE HostWrites \/ Tick \/ SweepExpired
  BY <1>5, HostWritesKeeps, TimeKeeps
<1>6. CASE Shutdown
  BY <1>6, ShutdownKeeps
<1>7. CASE UNCHANGED vars
  <2>1. /\ plan' = plan /\ net' = net /\ cache' = cache /\ jobs' = jobs
        /\ snapshot' = snapshot
    BY <1>7 DEF vars
  <2>2. /\ plan \in Scenario /\ net \in Exact /\ cache \in GoodCache
        /\ jobs \in Seq(Job) /\ snapshot \in Snapshots /\ Patient(net, jobs)
    BY DEF ServerInv
  <2>3. QED
    BY <2>1, <2>2, Kept
<1>8. QED
  BY <1>1, <1>2, <1>3, <1>4, <1>5, <1>6, <1>7, Zenon DEF Next

LEMMA BoundHolds == ServerInv => MemoryBounded
<1> SUFFICES ASSUME ServerInv PROVE MemoryBounded
  OBVIOUS
<1>1. net \in Loose({})
  BY DEF ServerInv, Exact
<1>2. /\ net.inflight = Total(net) /\ net.inflight <= MaxInflight
      /\ \A c \in Conn : /\ Decent(net.conn[c]) /\ UpToDate(net.conn[c])
  BY <1>1, LooseType
<1>3. Total(net) = MapThenSumSet(LAMBDA c : conn[c].accounted, Conn)
  BY Zenon DEF Total, conn
<1>4. \A c \in Conn :
        /\ Pending(conn[c]) <= MaxPending
        /\ ~ Unreachable(conn[c]) => conn[c].accounted = Held(conn[c])
  BY <1>2 DEF Decent, UpToDate, conn
<1>5. net.inflight = MapThenSumSet(LAMBDA c : conn[c].accounted, Conn)
  BY <1>2, <1>3
<1>6. QED
  BY <1>2, <1>4, <1>5, Zenon DEF MemoryBounded

(* Whatever the clients send, however slowly they read, whenever their     *)
(* connections break, and whatever jobs, the embedding program and close() *)
(* do meanwhile: between two callbacks the counter inflightBytes is the    *)
(* sum of what the connections are accounted for, no more than             *)
(* maxInflightBytes; a connection that is up is accounted for exactly what *)
(* it holds; and none has more output than maxPendingOutputBytes.          *)
THEOREM MemoryStaysBounded == Spec => []MemoryBounded
<1>1. Init => ServerInv
  BY InitHolds
<1>2. ServerInv /\ [Next]_vars => ServerInv'
  BY NextKeeps
<1>3. ServerInv => MemoryBounded
  BY BoundHolds
<1>4. QED
  BY <1>1, <1>2, <1>3, PTL DEF Spec

LEMMA OrderHolds == ServerInv => RepliesInOrder
<1> SUFFICES ASSUME ServerInv PROVE RepliesInOrder
  OBVIOUS
<1>1. ASSUME NEW c \in Conn
      PROVE  Heard(plan.script[c], conn[c], conn[c].taken - conn[c].active)
  BY DEF ServerInv, Patient, Attending, Attended, conn
<1>2. QED
  BY <1>1 DEF RepliesInOrder, Heard

(* However long a SAVE, a LOAD or a socket makes a connection wait, and    *)
(* whatever is published to it or happens to the others meanwhile, its     *)
(* client gets the replies in the order of its requests, no reply before   *)
(* those of all earlier requests, each once (SUBSCRIBE and UNSUBSCRIBE,    *)
(* that answer once for each channel, excepted); and while the connection  *)
(* is up, every request taken, but for one that waits for its job, has     *)
(* been answered.                                                          *)
THEOREM RepliesStayInOrder == Spec => []RepliesInOrder
<1>1. Init => ServerInv
  BY InitHolds
<1>2. ServerInv /\ [Next]_vars => ServerInv'
  BY NextKeeps
<1>3. ServerInv => RepliesInOrder
  BY OrderHolds
<1>4. QED
  BY <1>1, <1>2, <1>3, PTL DEF Spec

=============================================================================
