----------------------------- MODULE ClientProofs -----------------------------
(***************************************************************************)
(* Theorems about a Client, for any number of calls, operations, channels  *)
(* and connections and any limits.                                         *)
(*                                                                         *)
(* OwnReply is not inductive by itself.  What makes it true is Answerable: *)
(* a live connection waits for exactly the requests the server has still   *)
(* to answer, in that order, because whatever gives up one of them takes   *)
(* the connection down.  Each function of ClientPool is shown to take a    *)
(* GoodPool to one in which no call is sent that was not sent before;      *)
(* Send is the only step that sends.                                       *)
(***************************************************************************)
EXTENDS Client, SequenceFacts

CallState == [at : {"new", "waiting", "woken", "chosen", "sent", "over"},
              conn : Conn \cup {None},
              told : Call \cup {Failed, None}]

ConnState == [st : {"none", "live", "broken", "dead"},
              pending : Seq(Call), asked : Seq(Call)]

FillState == [at : {"idle", "dialing", "auth", "asleep"},
              attempt : Nat, needed : Int, conn : Conn \cup {None},
              created : Seq(Conn), late : BOOLEAN]

PoolRecord == [call : [Call -> CallState], conn : [Conn -> ConnState],
               order : Seq(Conn), robin : Nat, fill : FillState]

Answerable(p) ==
  \A k \in Conn : p.conn[k].st = "live" => p.conn[k].pending = p.conn[k].asked

OwnTold(p) == \A c \in Call : p.call[c].told \in {None, Failed, c}

GoodPool == {p \in PoolRecord : Answerable(p) /\ OwnTold(p)}

(* No call is sent in q that was not in p.                                 *)
NothingSent(p, q) ==
  \A c \in Call : q.call[c].at = "sent" => p.call[c].at = "sent"

(* What the functions may make of p.                                       *)
From(p) == {q \in GoodPool : NothingSent(p, q)}

LEMMA FromReflexive ==
  ASSUME NEW p \in GoodPool
  PROVE  p \in From(p)
BY DEF From, NothingSent

LEMMA FromTransitive ==
  ASSUME NEW p, NEW q \in From(p), NEW r \in From(q)
  PROVE  r \in From(p)
BY DEF From, NothingSent

LEMMA RecordFields ==
  ASSUME NEW p \in GoodPool
  PROVE  /\ p \in PoolRecord
         /\ p.call \in [Call -> CallState] /\ p.conn \in [Conn -> ConnState]
         /\ p.order \in Seq(Conn) /\ p.robin \in Nat /\ p.fill \in FillState
         /\ Answerable(p) /\ OwnTold(p)
BY DEF GoodPool, PoolRecord

(* Changes that leave calls and connections alone.                         *)
LEMMA OrderAndFillFree ==
  ASSUME NEW p \in GoodPool, NEW q \in PoolRecord,
         q.call = p.call, q.conn = p.conn
  PROVE  q \in From(p)
BY DEF GoodPool, From, NothingSent, Answerable, OwnTold

-----------------------------------------------------------------------------
(* The end of calls and of connections.                                    *)

LEMMA SettleFrom ==
  ASSUME NEW p \in GoodPool, NEW calls, NEW what \in Call \cup {Failed},
         \A c \in Call : c \in calls => what \in {Failed, c}
  PROVE  Settle(p, calls, what) \in From(p)
<1> DEFINE after(c) == IF c \in calls THEN Settled(p.call[c], what)
                       ELSE p.call[c]
           q == [p EXCEPT !.call = [c \in Call |-> after(c)]]
<1>1. Settle(p, calls, what) = q
  BY DEF Settle
<1>2. ASSUME NEW c \in Call
      PROVE  /\ after(c) \in CallState
             /\ after(c).told \in {None, Failed, c}
             /\ after(c).at = "sent" => p.call[c].at = "sent"
  <2>1. p.call[c] \in CallState /\ p.call[c].told \in {None, Failed, c}
    BY RecordFields DEF OwnTold
  <2>2. CASE c \notin calls
    BY <2>1, <2>2
  <2>3. CASE c \in calls
    BY <2>1, <2>3 DEF CallState, Settled
  <2>4. QED
    BY <2>2, <2>3
<1>3. /\ q.call = [c \in Call |-> after(c)]
      /\ q.conn = p.conn
      /\ q \in PoolRecord
  BY <1>2, RecordFields DEF PoolRecord
<1> HIDE DEF after, q
<1>4. QED
  <2>1. \A c \in Call : q.call[c] = after(c)
    BY <1>3
  <2>2. OwnTold(q) /\ Answerable(q) /\ NothingSent(p, q)
    BY <1>2, <1>3, <2>1, RecordFields DEF NothingSent, Answerable, OwnTold
  <2>3. QED
    BY <1>1, <1>3, <2>2 DEF From, GoodPool

LEMMA FailedFrom ==
  ASSUME NEW p \in GoodPool, NEW calls
  PROVE  Settle(p, calls, Failed) \in From(p)
BY SettleFrom

LEMMA ShortenedFrom ==
  ASSUME NEW p \in GoodPool, NEW order \in Seq(Conn)
  PROVE  Shortened(p, order) \in From(p)
<1>1. PICK n : n = IF p.robin < Len(order) \/ p.robin = 0 THEN p.robin
                   ELSE IF order = <<>> THEN 0 ELSE Len(order) - 1
  OBVIOUS
<1>2. n \in Nat
  <2>1. Len(order) \in Nat /\ (order # <<>> => Len(order) > 0)
    OBVIOUS
  <2>2. p.robin \in Nat
    BY RecordFields
  <2>3. QED
    BY <1>1, <2>1, <2>2
<1>3. PICK q : q = [p EXCEPT !.order = order, !.robin = n]
  OBVIOUS
<1>4. q \in PoolRecord /\ q.call = p.call /\ q.conn = p.conn
  BY <1>2, <1>3, RecordFields DEF PoolRecord
<1>5. Shortened(p, order) = q
  BY <1>1, <1>3, RecordFields DEF Shortened, PoolRecord
<1>6. QED
  BY <1>4, <1>5, OrderAndFillFree

LEMMA RemoveConnFrom ==
  ASSUME NEW p \in GoodPool, NEW k
  PROVE  RemoveConn(p, k) \in From(p)
<1>1. RemoveFirst(p.order, k) \in Seq(Conn)
  BY RecordFields, RemoveFirstKeeps
<1>2. QED
  BY <1>1, ShortenedFrom, FromReflexive DEF RemoveConn

(* A connection without requests, dead or just made.                       *)
LEMMA RenewedFrom ==
  ASSUME NEW p \in GoodPool, NEW k, NEW new \in {DeadConn, LiveConn}
  PROVE  [p EXCEPT !.conn[k] = new] \in From(p)
<1> DEFINE q == [p EXCEPT !.conn[k] = new]
<1>1. new \in ConnState /\ new.pending = new.asked
  <2>1. <<>> \in Seq(Call)
    OBVIOUS
  <2>2. PICK none : none = <<>>
    OBVIOUS
  <2>3. \E st \in {"live", "dead"} :
          new = [st |-> st, pending |-> none, asked |-> none]
    BY <2>2 DEF DeadConn, LiveConn, NoConn
  <2>4. QED
    BY <2>1, <2>2, <2>3 DEF ConnState
<1>2. q.conn \in [Conn -> ConnState]
  BY <1>1, RecordFields DEF PoolRecord
<1>3. /\ q \in PoolRecord /\ q.call = p.call
      /\ \A j \in Conn : q.conn[j] = IF j = k THEN new ELSE p.conn[j]
  BY <1>2, RecordFields DEF PoolRecord
<1> HIDE DEF q
<1>4. q \in From(p)
  BY <1>1, <1>3, RecordFields DEF From, GoodPool, NothingSent, Answerable, OwnTold
<1>5. QED
  BY <1>4 DEF q

LEMMA FailConnFrom ==
  ASSUME NEW p \in GoodPool, NEW k
  PROVE  FailConn(p, k) \in From(p)
<1>1. CASE p.conn[k].st = "dead"
  BY <1>1, RemoveConnFrom DEF FailConn
<1>2. CASE p.conn[k].st # "dead"
  <2>1. PICK q : q = [p EXCEPT !.conn[k] = DeadConn]
    OBVIOUS
  <2>2. q \in From(p)
    BY <2>1, RenewedFrom
  <2>3. PICK r : r = Settle(q, Range(p.conn[k].pending), Failed)
    OBVIOUS
  <2>4. r \in From(q)
    BY <2>2, <2>3, FailedFrom DEF From
  <2>5. RemoveConn(r, k) \in From(r)
    BY <2>4, RemoveConnFrom DEF From
  <2>6. FailConn(p, k) = RemoveConn(r, k)
    BY <1>2, <2>1, <2>3 DEF FailConn
  <2>7. QED
    BY <2>2, <2>4, <2>5, <2>6, FromTransitive
<1>3. QED
  BY <1>1, <1>2

-----------------------------------------------------------------------------
(* The loops over connections.                                             *)

PruneOp(p, q, k) == IF p.conn[k].st = "live" THEN q ELSE FailConn(q, k)
Pruning == INSTANCE FoldTheorems WITH Op <- PruneOp

PushOp(p, q, k) == PushIfLive(q, k)
Pushing == INSTANCE FoldTheorems WITH Op <- PushOp

CloseOp(p, q, k) == FailConn(q, k)
Closing == INSTANCE FoldTheorems WITH Op <- CloseOp

LEMMA PruneFrom ==
  ASSUME NEW p \in GoodPool
  PROVE  Prune(p) \in From(p)
<1>1. Prune(p) = Pruning!Folded(p, p, p.order)
  BY Zenon DEF Prune, PruneOp, Pruning!Folded, FoldLeft,
     Pruning!MapThenFoldSet, MapThenFoldSet, Pruning!Top, Max
<1>2. PICK A : A = From(p)
  OBVIOUS
<1>3. \A q \in A, k \in Conn : PruneOp(p, q, k) \in A
  BY <1>2, FailConnFrom, FromTransitive DEF PruneOp, From
<1>4. p \in A /\ p.order \in Seq(Conn)
  BY <1>2, FromReflexive, RecordFields
<1>5. Pruning!Folded(p, p, p.order) \in A
  BY <1>3, <1>4, Pruning!FoldLeftInvariant
<1>6. QED
  BY <1>1, <1>2, <1>5

LEMMA PushIfLiveFrom ==
  ASSUME NEW p \in GoodPool, NEW k \in Conn
  PROVE  PushIfLive(p, k) \in From(p)
<1>1. Append(p.order, k) \in Seq(Conn)
  BY RecordFields
<1>2. /\ [p EXCEPT !.order = Append(@, k)] \in PoolRecord
      /\ [p EXCEPT !.order = Append(@, k)].call = p.call
      /\ [p EXCEPT !.order = Append(@, k)].conn = p.conn
  BY <1>1, RecordFields DEF PoolRecord
<1>3. QED
  BY <1>2, OrderAndFillFree, FromReflexive DEF PushIfLive

LEMMA PushedFrom ==
  ASSUME NEW p \in GoodPool
  PROVE  FoldLeft(PushIfLive, p, p.fill.created) \in From(p)
<1>1. FoldLeft(PushIfLive, p, p.fill.created)
        = Pushing!Folded(0, p, p.fill.created)
  BY Zenon DEF PushOp, Pushing!Folded, FoldLeft,
     Pushing!MapThenFoldSet, MapThenFoldSet, Pushing!Top, Max
<1>2. PICK A : A = From(p)
  OBVIOUS
<1>3. \A q \in A, k \in Conn : PushOp(0, q, k) \in A
  BY <1>2, PushIfLiveFrom, FromTransitive DEF PushOp, From
<1>4. p \in A /\ p.fill.created \in Seq(Conn)
  BY <1>2, FromReflexive, RecordFields DEF FillState
<1>5. Pushing!Folded(0, p, p.fill.created) \in A
  BY <1>3, <1>4, Pushing!FoldLeftInvariant
<1>6. QED
  BY <1>1, <1>2, <1>5

LEMMA PoolClosedFrom ==
  ASSUME NEW p \in GoodPool
  PROVE  PoolClosed(p) \in From(p)
<1>1. PICK q : q = [p EXCEPT !.robin = 0]
  OBVIOUS
<1>2. q \in PoolRecord /\ q.call = p.call /\ q.conn = p.conn
  BY <1>1, RecordFields DEF PoolRecord
<1>3. q \in From(p) /\ q \in GoodPool
  BY <1>2, OrderAndFillFree DEF From
<1>4. PoolClosed(p) = Closing!Folded(0, q, p.order)
  BY <1>1, Zenon DEF PoolClosed, CloseOp, Closing!Folded, FoldLeft, Closing!MapThenFoldSet, MapThenFoldSet, Closing!Top, Max
<1>5. PICK A : A = From(p)
  OBVIOUS
<1>6. \A a \in A, k \in Conn : CloseOp(0, a, k) \in A
  BY <1>5, FailConnFrom, FromTransitive DEF CloseOp, From
<1>7. Closing!Folded(0, q, p.order) \in A
  BY <1>3, <1>5, <1>6, RecordFields, Closing!FoldLeftInvariant
<1>8. QED
  BY <1>4, <1>5, <1>7

-----------------------------------------------------------------------------
(* Replenishing.                                                           *)

LEMMA FillFrom ==
  ASSUME NEW p \in GoodPool, NEW f \in FillState
  PROVE  [p EXCEPT !.fill = f] \in From(p)
<1>1. PICK q : q = [p EXCEPT !.fill = f]
  OBVIOUS
<1>2. q \in PoolRecord /\ q.call = p.call /\ q.conn = p.conn
  BY <1>1, RecordFields DEF PoolRecord
<1>3. QED
  BY <1>1, <1>2, OrderAndFillFree

LEMMA NoFillType == NoFill \in FillState
<1>1. PICK none : none = <<>>
  OBVIOUS
<1>2. none \in Seq(Conn)
  BY <1>1
<1>3. NoFill = [at |-> "idle", attempt |-> 0, needed |-> 0, conn |-> None,
                created |-> none, late |-> FALSE]
  BY <1>1 DEF NoFill
<1>4. QED
  BY <1>2, <1>3 DEF FillState

(* A call that does not wait for its reply goes on to another place, which *)
(* is not that of one that was sent.                                       *)
LEMMA MovedFrom ==
  ASSUME NEW p \in GoodPool, NEW moved \in [Call -> CallState],
         \A c \in Call : /\ moved[c].told = p.call[c].told
                         /\ moved[c].at = "sent" => p.call[c].at = "sent"
  PROVE  [p EXCEPT !.call = moved] \in From(p)
<1>1. PICK q : q = [p EXCEPT !.call = moved]
  OBVIOUS
<1>2. q \in PoolRecord /\ q.call = moved /\ q.conn = p.conn
  BY <1>1, RecordFields DEF PoolRecord
<1>3. OwnTold(q) /\ Answerable(q) /\ NothingSent(p, q)
  BY <1>2, RecordFields DEF NothingSent, Answerable, OwnTold
<1>4. QED
  BY <1>1, <1>2, <1>3 DEF From, GoodPool

LEMMA FillEndsFrom ==
  ASSUME NEW p \in GoodPool, NEW ok \in BOOLEAN
  PROVE  FillEnds(p, ok) \in From(p)
<1>1. PICK q : q = [p EXCEPT !.fill = NoFill]
  OBVIOUS
<1>2. q \in From(p) /\ q \in GoodPool /\ q.call = p.call
  <2>1. q \in From(p)
    BY <1>1, NoFillType, FillFrom
  <2>2. q.call = p.call
    BY <1>1, RecordFields DEF PoolRecord
  <2>3. QED
    BY <2>1, <2>2 DEF From
<1>3. CASE ok
  <2> DEFINE after(c) == IF c \in Waiting(p)
                         THEN [p.call[c] EXCEPT !.at = "woken"] ELSE p.call[c]
             moved == [c \in Call |-> after(c)]
  <2>1. \A c \in Call : /\ after(c) \in CallState
                        /\ after(c).told = p.call[c].told
                        /\ after(c).at = "sent" => p.call[c].at = "sent"
    BY RecordFields DEF CallState
  <2>2. [q EXCEPT !.call = moved] \in From(q)
    <3>1. moved \in [Call -> CallState] /\ \A c \in Call : moved[c] = after(c)
      BY <2>1
    <3> HIDE DEF moved, after
    <3>2. QED
      BY <1>2, <2>1, <3>1, MovedFrom
  <2>3. FillEnds(p, ok) = [q EXCEPT !.call = moved]
    BY <1>1, <1>3, RecordFields DEF FillEnds, PoolRecord
  <2>4. QED
    BY <1>2, <2>2, <2>3, FromTransitive
<1>4. CASE ~ ok
  <2>1. Settle(q, Waiting(p), Failed) \in From(q)
    BY <1>2, FailedFrom
  <2>2. FillEnds(p, ok) = Settle(q, Waiting(p), Failed)
    BY <1>1, <1>4 DEF FillEnds
  <2>3. QED
    BY <1>2, <2>1, <2>2, FromTransitive
<1>5. QED
  BY <1>3, <1>4

LEMMA AddedFrom ==
  ASSUME NEW p \in GoodPool
  PROVE  Added(p) \in From(p)
<1>1. CASE Enough(p) \/ p.fill.late \/ p.fill.attempt + 1 = MaxAttempts
  BY <1>1, FillEndsFrom DEF Added
<1>2. CASE ~ (Enough(p) \/ p.fill.late \/ p.fill.attempt + 1 = MaxAttempts)
  <2>1. PICK none : none = <<>>
    OBVIOUS
  <2>2. none \in Seq(Conn)
    BY <2>1
  <2>3. PICK f : f = [p.fill EXCEPT !.at = "asleep",
                                    !.attempt = p.fill.attempt + 1,
                                    !.created = none]
    OBVIOUS
  <2>4. f \in FillState
    <3>1. p.fill \in FillState /\ p.fill.attempt + 1 \in Nat
      BY RecordFields DEF FillState
    <3>2. QED
      BY <2>2, <2>3, <3>1 DEF FillState
  <2>5. Added(p) = [p EXCEPT !.fill = f]
    BY <1>2, <2>1, <2>3, RecordFields DEF Added, PoolRecord
  <2>6. QED
    BY <2>4, <2>5, FillFrom
<1>3. QED
  BY <1>1, <1>2

(* The connections an attempt made are dead.                               *)
LEMMA DiscardedFrom ==
  ASSUME NEW p \in GoodPool, NEW made
  PROVE  [p EXCEPT !.conn = [k \in Conn |->
            IF k \in made THEN DeadConn ELSE p.conn[k]]] \in From(p)
<1>1. DeadConn \in ConnState /\ DeadConn.st # "live"
  <2>1. PICK none : none = <<>>
    OBVIOUS
  <2>2. none \in Seq(Call)
    BY <2>1
  <2>3. DeadConn = [st |-> "dead", pending |-> none, asked |-> none]
    BY <2>1 DEF DeadConn, NoConn
  <2>4. QED
    BY <2>2, <2>3 DEF ConnState
<1>2. PICK conn : conn = [k \in Conn |->
                            IF k \in made THEN DeadConn ELSE p.conn[k]]
  OBVIOUS
<1>3. /\ conn \in [Conn -> ConnState]
      /\ \A k \in Conn : conn[k].st = "live" => conn[k] = p.conn[k]
  BY <1>1, <1>2, RecordFields
<1>4. PICK q : q = [p EXCEPT !.conn = conn]
  OBVIOUS
<1>5. q \in PoolRecord /\ q.call = p.call /\ q.conn = conn
  BY <1>3, <1>4, RecordFields DEF PoolRecord
<1>6. OwnTold(q) /\ Answerable(q) /\ NothingSent(p, q)
  BY <1>3, <1>5, RecordFields DEF NothingSent, Answerable, OwnTold
<1>7. QED
  BY <1>2, <1>4, <1>5, <1>6 DEF From, GoodPool

LEMMA TriedFrom ==
  ASSUME NEW p \in GoodPool
  PROVE  Tried(p) \in From(p)
<1>1. CASE Closed
  <2>1. PICK q : q = [p EXCEPT !.conn = [k \in Conn |->
                        IF k \in Range(p.fill.created) THEN DeadConn
                        ELSE p.conn[k]]]
    OBVIOUS
  <2>2. q \in From(p) /\ q \in GoodPool
    BY <2>1, DiscardedFrom DEF From
  <2>3. Tried(p) = FillEnds(q, FALSE)
    BY <1>1, <2>1 DEF Tried
  <2>4. QED
    BY <2>2, <2>3, FillEndsFrom, FromTransitive
<1>2. CASE ~ Closed
  <2>1. PICK q : q = FoldLeft(PushIfLive, p, p.fill.created)
    OBVIOUS
  <2>2. q \in From(p) /\ q \in GoodPool
    BY <2>1, PushedFrom DEF From
  <2>3. Prune(q) \in From(q) /\ Prune(q) \in GoodPool
    BY <2>2, PruneFrom DEF From
  <2>4. Added(Prune(q)) \in From(Prune(q))
    BY <2>3, AddedFrom
  <2>5. Tried(p) = Added(Prune(q))
    BY <1>2, <2>1 DEF Tried
  <2>6. QED
    BY <2>2, <2>3, <2>4, <2>5, FromTransitive
<1>3. QED
  BY <1>1, <1>2

LEMMA DialFrom ==
  ASSUME NEW p \in GoodPool
  PROVE  Dial(p) \in From(p)
<1>1. PICK f : f = [p.fill EXCEPT !.at = "dialing"]
  OBVIOUS
<1>2. f \in FillState /\ [p EXCEPT !.fill.at = "dialing"] = [p EXCEPT !.fill = f]
  BY <1>1, RecordFields DEF FillState, PoolRecord
<1>3. QED
  BY <1>2, FillFrom, TriedFrom DEF Dial

LEMMA AttemptFrom ==
  ASSUME NEW p \in GoodPool
  PROVE  Attempt(p) \in From(p)
<1>1. CASE Closed \/ Enough(p)
  BY <1>1, FillEndsFrom DEF Attempt
<1>2. CASE ~ (Closed \/ Enough(p))
  <2>1. PICK f : f = [p.fill EXCEPT !.needed = PoolSize - Len(p.order)]
    OBVIOUS
  <2>2. PoolSize - Len(p.order) \in Int
    BY RecordFields, PoolAssumption
  <2>3. f \in FillState
    BY <2>1, <2>2, RecordFields DEF FillState
  <2>4. PICK q : q = [p EXCEPT !.fill = f]
    OBVIOUS
  <2>5. q \in From(p) /\ q \in GoodPool
    BY <2>3, <2>4, FillFrom DEF From
  <2>6. Attempt(p) = Dial(q)
    BY <1>2, <2>1, <2>4, RecordFields DEF Attempt, PoolRecord
  <2>7. QED
    BY <2>5, <2>6, DialFrom, FromTransitive
<1>3. QED
  BY <1>1, <1>2

LEMMA StartFillFrom ==
  ASSUME NEW p \in GoodPool
  PROVE  StartFill(p) \in From(p)
<1>1. Prune(p) \in From(p) /\ Prune(p) \in GoodPool
  BY PruneFrom DEF From
<1>2. Attempt(Prune(p)) \in From(p)
  BY <1>1, AttemptFrom, FromTransitive
<1>3. QED
  BY <1>2, FromReflexive DEF StartFill

(* A connection in hand, or none.                                          *)
LEMMA InHandFrom ==
  ASSUME NEW p \in GoodPool, NEW created \in Seq(Conn),
         NEW conn \in Conn \cup {None}
  PROVE  [p EXCEPT !.fill.created = created, !.fill.conn = conn] \in From(p)
<1>1. PICK f : f = [p.fill EXCEPT !.created = created, !.conn = conn]
  OBVIOUS
<1>2. /\ f \in FillState
      /\ [p EXCEPT !.fill.created = created, !.fill.conn = conn]
           = [p EXCEPT !.fill = f]
  BY <1>1, RecordFields DEF FillState, PoolRecord
<1>3. QED
  BY <1>2, FillFrom

LEMMA CreatedFrom ==
  ASSUME NEW p \in GoodPool, NEW k \in Conn
  PROVE  Created(p, k) \in From(p)
<1>1. CASE Closed
  <2>1. PICK q : q = [p EXCEPT !.conn[k] = DeadConn]
    OBVIOUS
  <2>2. q \in From(p) /\ q \in GoodPool
    BY <2>1, RenewedFrom DEF From
  <2>3. PICK r : r = [q EXCEPT !.fill.created = q.fill.created,
                               !.fill.conn = None]
    OBVIOUS
  <2>4. r \in From(q) /\ r \in GoodPool
    <3>1. q.fill.created \in Seq(Conn)
      BY <2>2, RecordFields DEF FillState
    <3>2. QED
      BY <2>2, <2>3, <3>1, InHandFrom DEF From
  <2>5. r = [p EXCEPT !.conn[k] = DeadConn, !.fill.conn = None]
    BY <2>1, <2>3, RecordFields DEF PoolRecord, FillState
  <2>6. Created(p, k) = Tried(r)
    BY <1>1, <2>5 DEF Created
  <2>7. QED
    BY <2>2, <2>4, <2>6, TriedFrom, FromTransitive
<1>2. CASE ~ Closed
  <2>1. Append(p.fill.created, k) \in Seq(Conn)
    BY RecordFields DEF FillState
  <2>2. PICK q : q = [p EXCEPT !.fill.created = Append(p.fill.created, k),
                               !.fill.conn = None]
    OBVIOUS
  <2>3. q \in From(p) /\ q \in GoodPool
    BY <2>1, <2>2, InHandFrom DEF From
  <2>4. Created(p, k) \in {Dial(q), Tried(q)}
    BY <1>2, <2>2 DEF Created
  <2>5. QED
    BY <2>3, <2>4, DialFrom, TriedFrom, FromTransitive
<1>3. QED
  BY <1>1, <1>2

LEMMA DialledFrom ==
  ASSUME NEW p \in GoodPool, NEW k \in Conn
  PROVE  Dialled(p, k) \in From(p)
<1>1. CASE Closed
  BY <1>1, TriedFrom DEF Dialled
<1>2. CASE ~ Closed
  <2>1. PICK q : q = [p EXCEPT !.conn[k] = LiveConn]
    OBVIOUS
  <2>2. q \in From(p) /\ q \in GoodPool
    BY <2>1, RenewedFrom DEF From
  <2>3. CASE plan.password
    <3>1. PICK f : f = [q.fill EXCEPT !.at = "auth", !.conn = k]
      OBVIOUS
    <3>2. f \in FillState
      BY <2>2, <3>1, RecordFields DEF FillState
    <3>3. [q EXCEPT !.fill = f] \in From(q)
      BY <2>2, <3>2, FillFrom
    <3>4. Dialled(p, k) = [q EXCEPT !.fill = f]
      BY <1>2, <2>1, <2>3, <3>1, RecordFields DEF Dialled, PoolRecord, FillState
    <3>5. QED
      BY <2>2, <3>3, <3>4, FromTransitive
  <2>4. CASE ~ plan.password
    BY <1>2, <2>1, <2>2, <2>4, CreatedFrom, FromTransitive DEF Dialled
  <2>5. QED
    BY <2>3, <2>4
<1>3. QED
  BY <1>1, <1>2

-----------------------------------------------------------------------------
(* Choosing a connection.                                                  *)

LEMMA RemainderBelow ==
  ASSUME NEW a \in Nat, NEW b \in Nat \ {0}
  PROVE  a % b \in 0 .. b - 1
OBVIOUS

(* Of finitely many connections one has the least to do and comes first.   *)
LEMMA BestIsConn ==
  ASSUME NEW p \in GoodPool, p.order # <<>>
  PROVE  /\ TurnAfter(p) \in Nat /\ Best(p) \in Conn
         /\ Best(p) \in Range(p.order)
<1>1. PICK n : n = Len(p.order)
  OBVIOUS
<1>2. n \in Nat \ {0} /\ \A i \in 1 .. n : p.order[i] \in Conn
  BY <1>1, RecordFields
<1>3. TurnAfter(p) \in Nat
  <2>1. PICK next : next = p.robin + 1
    OBVIOUS
  <2>2. next \in Nat
    BY <2>1, RecordFields
  <2>3. next % n \in 0 .. n - 1
    BY <1>2, <2>2, RemainderBelow
  <2>4. TurnAfter(p) = next % n
    BY <1>1, <2>1 DEF TurnAfter
  <2>5. QED
    BY <1>2, <2>3, <2>4
<1>4. \A i \in 0 .. n - 1 : /\ InTurn(p, i) \in Conn /\ Load(p, i) \in Nat
                            /\ InTurn(p, i) \in Range(p.order)
  <2> TAKE i \in 0 .. n - 1
  <2>1. PICK t : t = (TurnAfter(p) + i) % n
    OBVIOUS
  <2>2. t \in 0 .. n - 1
    <3>1. TurnAfter(p) + i \in Nat
      BY <1>2, <1>3
    <3>2. QED
      BY <1>2, <2>1, <3>1, RemainderBelow
  <2>3. 1 + t \in 1 .. n
    BY <1>2, <2>2
  <2>4. InTurn(p, i) = p.order[1 + t]
    BY <1>1, <2>1 DEF InTurn
  <2>5. InTurn(p, i) \in Conn
    BY <1>2, <2>3, <2>4
  <2>6. p.conn[InTurn(p, i)].pending \in Seq(Call)
    BY <2>5, RecordFields DEF ConnState
  <2>7. InTurn(p, i) \in Range(p.order)
    BY <1>1, <2>3, <2>4, RecordFields, RangeFacts
  <2>8. QED
    BY <2>5, <2>6, <2>7 DEF Load
<1> DEFINE Place == 0 .. n - 1
           Least(i) == \A j \in Place : \/ Load(p, i) < Load(p, j)
                                        \/ Load(p, i) = Load(p, j) /\ i <= j
<1>5. \E i \in Place : Least(i)
  <2> DEFINE Loads == {Load(p, i) : i \in Place}
  <2>1. Loads \in SUBSET Nat /\ Loads # {}
    <3>1. 0 \in Place
      BY <1>2
    <3>2. QED
      BY <1>4, <3>1
  <2>2. PICK m \in Loads : \A l \in Loads : ~ (l < m)
    <3> HIDE DEF Loads
    <3>1. QED
      BY <2>1, LeastNumber
  <2> DEFINE Free_ == {i \in Place : Load(p, i) = m}
  <2>3. Free_ \in SUBSET Nat /\ Free_ # {}
    BY <1>2, <2>2
  <2>4. PICK i \in Free_ : \A j \in Free_ : ~ (j < i)
    <3> HIDE DEF Free_
    <3>1. QED
      BY <2>3, LeastNumber
  <2>5. i \in Place /\ i \in Nat /\ Load(p, i) = m /\ m \in Nat
    BY <1>4, <2>3, <2>4
  <2>6. ASSUME NEW j \in Place
        PROVE  \/ Load(p, i) < Load(p, j)
               \/ Load(p, i) = Load(p, j) /\ i <= j
    <3>1. Load(p, j) \in Nat /\ ~ (Load(p, j) < m) /\ j \in Nat
      BY <1>2, <1>4, <2>2
    <3>2. Load(p, j) = m => ~ (j < i)
      BY <2>4
    <3>3. QED
      BY <2>5, <3>1, <3>2
  <2>7. QED
    BY <2>5, <2>6
<1>6. Best(p) = InTurn(p, CHOOSE i \in Place : Least(i))
  BY <1>1 DEF Best
<1> HIDE DEF Least
<1>7. (CHOOSE i \in Place : Least(i)) \in Place
  BY <1>5
<1>8. QED
  BY <1>3, <1>4, <1>6, <1>7

LEMMA ChosenFrom ==
  ASSUME NEW p \in GoodPool, p.order # <<>>, NEW c \in Call
  PROVE  Chosen(p, c) \in From(p)
<1>1. PICK q : q = [p EXCEPT !.robin = TurnAfter(p)]
  OBVIOUS
<1>2. q \in PoolRecord /\ q.call = p.call /\ q.conn = p.conn
  BY <1>1, BestIsConn, RecordFields DEF PoolRecord
<1>3. q \in From(p) /\ q \in GoodPool
  BY <1>2, OrderAndFillFree DEF From
<1>4. PICK moved : moved = [p.call EXCEPT ![c].at = "chosen", ![c].conn = Best(p)]
  OBVIOUS
<1>5. /\ moved \in [Call -> CallState]
      /\ \A d \in Call : /\ moved[d].told = p.call[d].told
                         /\ moved[d].at = "sent" => p.call[d].at = "sent"
  BY <1>4, BestIsConn, RecordFields DEF CallState
<1>6. [q EXCEPT !.call = moved] \in From(q)
  BY <1>2, <1>3, <1>5, MovedFrom
<1>7. Chosen(p, c) = [q EXCEPT !.call = moved]
  BY <1>1, <1>4, RecordFields DEF Chosen, PoolRecord
<1>8. QED
  BY <1>3, <1>6, <1>7, FromTransitive

LEMMA DispatchedFrom ==
  ASSUME NEW p \in GoodPool, NEW c \in Call
  PROVE  Dispatched(p, c) \in From(p)
<1>1. CASE p.order = <<>>
  <2>1. PICK moved : moved = [p.call EXCEPT ![c].at = "waiting"]
    OBVIOUS
  <2>2. /\ moved \in [Call -> CallState]
        /\ \A d \in Call : /\ moved[d].told = p.call[d].told
                           /\ moved[d].at = "sent" => p.call[d].at = "sent"
    BY <2>1, RecordFields DEF CallState
  <2>3. PICK q : q = [p EXCEPT !.call = moved]
    OBVIOUS
  <2>4. q \in From(p) /\ q \in GoodPool
    BY <2>2, <2>3, MovedFrom DEF From
  <2>5. Dispatched(p, c) = StartFill(q)
    BY <1>1, <2>1, <2>3, RecordFields DEF Dispatched, PoolRecord
  <2>6. QED
    BY <2>4, <2>5, StartFillFrom, FromTransitive
<1>2. CASE p.order # <<>>
  <2>1. Chosen(p, c) \in From(p) /\ Chosen(p, c) \in GoodPool
    BY <1>2, ChosenFrom DEF From
  <2>2. StartFill(Chosen(p, c)) \in From(p)
    BY <2>1, StartFillFrom, FromTransitive
  <2>3. QED
    BY <1>2, <2>1, <2>2 DEF Dispatched
<1>3. QED
  BY <1>1, <1>2

LEMMA LostFrom ==
  ASSUME NEW p \in GoodPool, NEW k
  PROVE  Lost(p, k) \in From(p)
<1>1. PICK f : f = [p.fill EXCEPT !.conn = None]
  OBVIOUS
<1>2. f \in FillState
  BY <1>1, RecordFields DEF FillState
<1>3. PICK q : q = [p EXCEPT !.fill = f]
  OBVIOUS
<1>4. q \in From(p) /\ q \in GoodPool
  BY <1>2, <1>3, FillFrom DEF From
<1>5. [p EXCEPT !.fill.conn = None] = q
  BY <1>1, <1>3, RecordFields DEF PoolRecord, FillState
<1>6. Tried(q) \in From(p)
  BY <1>4, TriedFrom, FromTransitive
<1>7. QED
  BY <1>5, <1>6, FromReflexive DEF Lost

-----------------------------------------------------------------------------
(* The steps, all but Send.                                                *)

LEMMA ExecStep ==
  ASSUME pool \in GoodPool, NEW c \in Call, Exec(c)
  PROVE  pool' \in From(pool)
<1>1. Settle(pool, {c}, Failed) \in From(pool)
  BY FailedFrom
<1>2. Dispatched(Prune(pool), c) \in From(pool)
  <2>1. Prune(pool) \in From(pool) /\ Prune(pool) \in GoodPool
    BY PruneFrom DEF From
  <2>2. QED
    BY <2>1, DispatchedFrom, FromTransitive
<1>3. QED
  BY <1>1, <1>2 DEF Exec

LEMMA ResumeStep ==
  ASSUME pool \in GoodPool, NEW c \in Call, Resume(c)
  PROVE  pool' \in From(pool)
<1>1. Prune(pool) \in From(pool) /\ Prune(pool) \in GoodPool
  BY PruneFrom DEF From
<1>2. Resumed(Prune(pool), c) \in From(Prune(pool))
  BY <1>1, FailedFrom, ChosenFrom DEF Resumed
<1>3. QED
  BY <1>1, <1>2, FromTransitive DEF Resume

LEMMA DeadlineStep ==
  ASSUME pool \in GoodPool, NEW c \in Call, Deadline(c)
  PROVE  pool' \in From(pool)
<1>1. PICK call : call = [pool.call EXCEPT ![c].told = Failed]
  OBVIOUS
<1>2. /\ call \in [Call -> CallState]
      /\ \A d \in Call : /\ call[d].told \in {pool.call[d].told, Failed}
                         /\ call[d].at = pool.call[d].at
  BY <1>1, RecordFields DEF CallState
<1>3. pool' = [pool EXCEPT !.call = call]
  BY <1>1, RecordFields DEF Deadline, PoolRecord
<1>4. pool' \in PoolRecord /\ pool'.call = call /\ pool'.conn = pool.conn
  BY <1>2, <1>3, RecordFields DEF PoolRecord
<1>5. OwnTold(pool') /\ Answerable(pool') /\ NothingSent(pool, pool')
  BY <1>2, <1>4, RecordFields DEF NothingSent, Answerable, OwnTold
<1>6. QED
  BY <1>4, <1>5 DEF From, GoodPool

LEMMA BreaksStep ==
  ASSUME pool \in GoodPool, NEW k \in Conn, Breaks(k)
  PROVE  pool' \in From(pool)
<1>1. PICK conn : conn = [pool.conn EXCEPT ![k].st = "broken"]
  OBVIOUS
<1>2. /\ conn \in [Conn -> ConnState]
      /\ \A j \in Conn : conn[j].st = "live" => conn[j] = pool.conn[j]
  <2>1. PICK broken : broken = [pool.conn[k] EXCEPT !.st = "broken"]
    OBVIOUS
  <2>2. broken \in ConnState /\ broken.st # "live"
    BY <2>1, RecordFields DEF ConnState
  <2>3. conn = [pool.conn EXCEPT ![k] = broken]
    BY <1>1, <2>1
  <2>4. QED
    BY <2>2, <2>3, RecordFields
<1>3. pool' = [pool EXCEPT !.conn = conn]
  BY <1>1, RecordFields DEF Breaks, PoolRecord
<1>4. pool' \in PoolRecord /\ pool'.call = pool.call /\ pool'.conn = conn
  BY <1>2, <1>3, RecordFields DEF PoolRecord
<1>5. OwnTold(pool') /\ Answerable(pool') /\ NothingSent(pool, pool')
  BY <1>2, <1>4, RecordFields DEF NothingSent, Answerable, OwnTold
<1>6. QED
  BY <1>4, <1>5 DEF From, GoodPool

(* The reply at hand is the one the oldest waiter waits for.               *)
LEMMA ReceiveAnswers ==
  ASSUME pool \in GoodPool, NEW k \in Conn, Receive(k)
  PROVE  \E asked \in Seq(Call) : \E conn :
           /\ asked # <<>> /\ pool.conn[k].pending = asked
           /\ conn = [pool.conn EXCEPT ![k].asked = Tail(asked),
                                       ![k].pending = Tail(asked)]
           /\ pool' = Settle([pool EXCEPT !.conn = conn],
                             {Head(asked)}, Head(asked))
<1>1. PICK asked : asked = pool.conn[k].asked
  OBVIOUS
<1>2. /\ asked \in Seq(Call) /\ asked # <<>>
      /\ pool.conn[k].pending = asked
  BY <1>1, RecordFields DEF Receive, Answerable, ConnState
<1>3. PICK rest : rest = Tail(asked)
  OBVIOUS
<1>4. PICK conn : conn = [pool.conn EXCEPT ![k].asked = rest, ![k].pending = rest]
  OBVIOUS
<1>5. PICK p : p = [pool EXCEPT !.conn[k].asked = rest]
  OBVIOUS
<1>6. p.conn[k].pending = asked
  BY <1>2, <1>5, RecordFields DEF PoolRecord, ConnState
<1>7. [p EXCEPT !.conn[k].pending = rest] = [pool EXCEPT !.conn = conn]
  BY <1>4, <1>5, RecordFields DEF PoolRecord, ConnState
<1>8. pool' = IF p.conn[k].pending = <<>> THEN p
              ELSE Settle([p EXCEPT !.conn[k].pending = Tail(p.conn[k].pending)],
                          {Head(p.conn[k].pending)}, Head(asked))
  BY <1>1, <1>3, <1>5 DEF Receive
<1>9. pool' = Settle([pool EXCEPT !.conn = conn], {Head(asked)}, Head(asked))
  BY <1>2, <1>3, <1>6, <1>7, <1>8
<1>10. QED
  BY <1>2, <1>3, <1>4, <1>9

LEMMA ReceiveStep ==
  ASSUME pool \in GoodPool, NEW k \in Conn, Receive(k)
  PROVE  pool' \in From(pool)
<1>0. PICK asked \in Seq(Call) : \E conn :
        /\ asked # <<>> /\ pool.conn[k].pending = asked
        /\ conn = [pool.conn EXCEPT ![k].asked = Tail(asked),
                                    ![k].pending = Tail(asked)]
        /\ pool' = Settle([pool EXCEPT !.conn = conn], {Head(asked)}, Head(asked))
  BY ReceiveAnswers
<1>1. PICK conn :
        /\ asked # <<>> /\ pool.conn[k].pending = asked
        /\ conn = [pool.conn EXCEPT ![k].asked = Tail(asked),
                                    ![k].pending = Tail(asked)]
        /\ pool' = Settle([pool EXCEPT !.conn = conn], {Head(asked)}, Head(asked))
  BY <1>0
<1>2. Head(asked) \in Call /\ Tail(asked) \in Seq(Call)
  BY <1>1
<1>3. /\ conn \in [Conn -> ConnState]
      /\ conn[k].pending = conn[k].asked
      /\ \A j \in Conn \ {k} : conn[j] = pool.conn[j]
  <2>1. PICK shorter : shorter = [pool.conn[k] EXCEPT !.asked = Tail(asked),
                                                      !.pending = Tail(asked)]
    OBVIOUS
  <2>2. shorter \in ConnState /\ shorter.pending = shorter.asked
    BY <1>2, <2>1, RecordFields DEF ConnState
  <2>3. conn = [pool.conn EXCEPT ![k] = shorter]
    BY <1>1, <2>1
  <2>4. QED
    BY <2>2, <2>3, RecordFields
<1>4. PICK q : q = [pool EXCEPT !.conn = conn]
  OBVIOUS
<1>5. q \in PoolRecord /\ q.call = pool.call /\ q.conn = conn
  BY <1>3, <1>4, RecordFields DEF PoolRecord
<1>6. OwnTold(q) /\ Answerable(q) /\ NothingSent(pool, q)
  BY <1>3, <1>5, RecordFields DEF NothingSent, Answerable, OwnTold
<1>7. q \in From(pool) /\ q \in GoodPool
  BY <1>5, <1>6 DEF From, GoodPool
<1>8. Settle(q, {Head(asked)}, Head(asked)) \in From(q)
  BY <1>2, <1>7, SettleFrom
<1>9. QED
  BY <1>1, <1>4, <1>7, <1>8, FromTransitive

LEMMA FillLateStep ==
  ASSUME pool \in GoodPool, FillLate
  PROVE  pool' \in From(pool)
<1>1. PICK f : f = [pool.fill EXCEPT !.late = TRUE]
  OBVIOUS
<1>2. f \in FillState /\ pool' = [pool EXCEPT !.fill = f]
  BY <1>1, RecordFields DEF FillState, FillLate, PoolRecord
<1>3. QED
  BY <1>2, FillFrom

LEMMA ConnEventStep ==
  ASSUME pool \in GoodPool, NEW k \in Conn, CloseEvent(k) \/ AuthEnds(k)
  PROVE  pool' \in From(pool)
<1>1. FailConn(pool, k) \in From(pool) /\ FailConn(pool, k) \in GoodPool
  BY FailConnFrom DEF From
<1>2. Lost(FailConn(pool, k), k) \in From(pool)
  BY <1>1, LostFrom, FromTransitive
<1>3. Created(pool, k) \in From(pool)
  BY CreatedFrom
<1>4. QED
  BY <1>2, <1>3 DEF CloseEvent, AuthEnds

LEMMA WakeStep ==
  ASSUME pool \in GoodPool, Wake
  PROVE  pool' \in From(pool)
<1>1. Prune(pool) \in From(pool) /\ Prune(pool) \in GoodPool
  BY PruneFrom DEF From
<1>2. QED
  BY <1>1, AttemptFrom, FromTransitive DEF Wake

Sends == \E c \in Call : Send(c)

LEMMA OtherSteps ==
  ASSUME pool \in GoodPool, PoolNext, ~ Sends
  PROVE  pool' \in From(pool)
<1>1. CASE Warm
  BY <1>1, StartFillFrom DEF Warm
<1>2. CASE DialFails
  BY <1>2, TriedFrom DEF DialFails
<1>3. CASE Wake \/ FillLate
  BY <1>3, WakeStep, FillLateStep
<1>4. ASSUME NEW c \in Call, Exec(c) \/ Resume(c) \/ Deadline(c)
      PROVE  pool' \in From(pool)
  BY <1>4, ExecStep, ResumeStep, DeadlineStep
<1>5. ASSUME NEW c \in Call, RequestTimer(c)
      PROVE  pool' \in From(pool)
  BY <1>5, FailConnFrom DEF RequestTimer, TimedOut
<1>6. ASSUME NEW k \in Conn, DialDone(k)
      PROVE  pool' \in From(pool)
  BY <1>6, DialledFrom DEF DialDone
<1>7. ASSUME NEW k \in Conn,
             AuthEnds(k) \/ Receive(k) \/ Breaks(k) \/ CloseEvent(k)
      PROVE  pool' \in From(pool)
  BY <1>7, ConnEventStep, ReceiveStep, BreaksStep
<1>8. QED
  BY <1>1, <1>2, <1>3, <1>4, <1>5, <1>6, <1>7 DEF PoolNext, Sends

LEMMA SendAsks ==
  ASSUME pool \in GoodPool, NEW c \in Call, Send(c), ~ Unsendable(pool.call[c]),
         NEW k, k = pool.call[c].conn
  PROVE  pool' = [pool EXCEPT
                    !.call = [pool.call EXCEPT ![c].at = "sent"],
                    !.conn = [pool.conn EXCEPT ![k].pending = Append(@, c),
                                               ![k].asked = Append(@, c)]]
<1>1. PICK call : call = [pool.call EXCEPT ![c].at = "sent"]
  OBVIOUS
<1>2. PICK conn : conn = [pool.conn EXCEPT ![k].pending = Append(@, c),
                                           ![k].asked = Append(@, c)]
  OBVIOUS
<1>3. PICK more : more = [pending |-> Append(pool.conn[k].pending, c),
                          asked   |-> Append(pool.conn[k].asked, c)]
  BY ZenonT(60)
<1>4. pool' = [pool EXCEPT !.call[c].at = "sent",
                           !.conn[k].pending = more.pending,
                           !.conn[k].asked = more.asked]
  BY <1>3, ZenonT(60) DEF Send
<1>5. conn = [pool.conn EXCEPT ![k].pending = more.pending,
                               ![k].asked = more.asked]
  BY <1>2, <1>3
<1>6. PICK first : first = [pool.conn EXCEPT ![k].pending = more.pending]
  OBVIOUS
<1>7. conn = [first EXCEPT ![k].asked = more.asked]
  BY <1>5, <1>6
<1>8. PICK p : p = [pool EXCEPT !.call[c].at = "sent",
                                !.conn[k].pending = more.pending]
  OBVIOUS
<1>9. p = [pool EXCEPT !.call = call, !.conn = first]
  BY <1>1, <1>6, <1>8, RecordFields DEF PoolRecord
<1>10. pool' = [p EXCEPT !.conn[k].asked = more.asked]
  BY <1>4, <1>8
<1>11. pool' = [pool EXCEPT !.call = call, !.conn = conn]
  BY <1>7, <1>9, <1>10, RecordFields DEF PoolRecord
<1>12. QED
  BY <1>1, <1>2, <1>11, ZenonT(60)

(* A request is added to both ends of a live connection at once, and only  *)
(* for a call whose caller has been told nothing.                          *)
LEMMA SendStep ==
  ASSUME pool \in GoodPool, NEW c \in Call, Send(c)
  PROVE  /\ pool' \in GoodPool
         /\ \A d \in Call : /\ pool'.call[d].at = "sent"
                            /\ pool.call[d].at # "sent"
                            => pool.call[d].told = None
<1>1. CASE Unsendable(pool.call[c])
  <2>1. pool' \in From(pool)
    BY <1>1, FailedFrom DEF Send
  <2>2. QED
    BY <2>1 DEF From, NothingSent
<1>2. CASE ~ Unsendable(pool.call[c])
  <2>1. PICK k : k = pool.call[c].conn
    OBVIOUS
  <2>2. pool.conn[k].st = "live" /\ pool.call[c].told = None
    BY <1>2, <2>1 DEF Unsendable
  <2>3. PICK call : call = [pool.call EXCEPT ![c].at = "sent"]
    OBVIOUS
  <2>4. /\ call \in [Call -> CallState]
        /\ \A d \in Call : /\ call[d].told = pool.call[d].told
                           /\ d # c => call[d] = pool.call[d]
    BY <2>3, RecordFields DEF CallState
  <2>5. PICK conn : conn = [pool.conn EXCEPT ![k].pending = Append(@, c),
                                             ![k].asked = Append(@, c)]
    OBVIOUS
  <2>6. /\ conn \in [Conn -> ConnState]
        /\ \A j \in Conn : conn[j].st = "live" => conn[j].pending = conn[j].asked
    <3>1. CASE k \in Conn
      <4>1. PICK queue : queue = pool.conn[k].pending
        OBVIOUS
      <4>2. queue \in Seq(Call) /\ pool.conn[k].asked = queue
        BY <2>2, <3>1, <4>1, RecordFields DEF ConnState, Answerable
      <4>3. PICK longer : longer = Append(queue, c)
        OBVIOUS
      <4>4. longer \in Seq(Call)
        BY <4>2, <4>3
      <4>5. conn = [pool.conn EXCEPT ![k].pending = longer, ![k].asked = longer]
        BY <2>5, <3>1, <4>1, <4>2, <4>3, RecordFields DEF ConnState
      <4>6. /\ conn[k] \in ConnState /\ conn[k].pending = conn[k].asked
            /\ \A j \in Conn \ {k} : conn[j] = pool.conn[j]
        BY <3>1, <4>4, <4>5, RecordFields, ZenonT(60) DEF ConnState
      <4>7. conn \in [Conn -> ConnState]
        BY <4>5, <4>6, RecordFields
      <4>8. QED
        BY <4>6, <4>7, RecordFields DEF Answerable
    <3>2. CASE k \notin Conn
      <4>1. conn = pool.conn
        BY <2>5, <3>2, RecordFields
      <4>2. QED
        BY <4>1, RecordFields DEF Answerable
    <3>3. QED
      BY <3>1, <3>2
  <2>7. pool' = [pool EXCEPT !.call = call, !.conn = conn]
    BY <1>2, <2>1, <2>3, <2>5, SendAsks
  <2>8. pool' \in PoolRecord /\ pool'.call = call /\ pool'.conn = conn
    BY <2>4, <2>6, <2>7, RecordFields DEF PoolRecord
  <2>9. OwnTold(pool') /\ Answerable(pool')
    BY <2>4, <2>6, <2>8, RecordFields DEF OwnTold, Answerable
  <2>10. QED
    BY <2>2, <2>4, <2>8, <2>9 DEF GoodPool
<1>3. QED
  BY <1>1, <1>2

-----------------------------------------------------------------------------
(* The specification.                                                      *)

GivenUpStays ==
  \A c \in Call :
    pool.call[c].told # None /\ pool.call[c].at # "sent"
      => pool'.call[c].at # "sent"

LEMMA PoolStep ==
  ASSUME pool \in GoodPool, [Next]_vars
  PROVE  pool' \in GoodPool /\ GivenUpStays
<1>1. CASE PoolNext
  <2>1. CASE Sends
    BY <2>1, SendStep DEF Sends, GivenUpStays
  <2>2. CASE ~ Sends
    BY <1>1, <2>2, OtherSteps DEF From, NothingSent, GivenUpStays
  <2>3. QED
    BY <2>1, <2>2
<1>2. CASE CloseEnds
  BY <1>2, PoolClosedFrom DEF CloseEnds, From, NothingSent, GivenUpStays
<1>3. CASE pool' = pool
  BY <1>3 DEF GivenUpStays
<1>4. QED
  BY <1>1, <1>2, <1>3 DEF Next, vars, Close

LEMMA PoolInitGood ==
  ASSUME PoolInit
  PROVE  pool \in GoodPool
<1>1. PICK none : none = <<>>
  OBVIOUS
<1>2. none \in Seq(Call) /\ none \in Seq(Conn)
  BY <1>1
<1>3. NewCall \in CallState /\ NewCall.told = None
  BY DEF NewCall, CallState
<1>4. NoConn \in ConnState /\ NoConn.st # "live"
  BY <1>1, <1>2 DEF NoConn, ConnState
<1>5. pool = [call |-> [c \in Call |-> NewCall], conn |-> [k \in Conn |-> NoConn],
              order |-> none, robin |-> 0, fill |-> NoFill]
  BY <1>1 DEF PoolInit
<1>6. pool \in PoolRecord
  BY <1>2, <1>3, <1>4, <1>5, NoFillType DEF PoolRecord
<1>7. QED
  BY <1>3, <1>4, <1>5, <1>6 DEF GoodPool, Answerable, OwnTold

(* Replies reach the calls they answer, in a client of any size: whatever  *)
(* times out, breaks or is closed, no call is told what another asked for. *)
THEOREM RepliesReachTheirCalls == Spec => []OwnReply
<1>1. Init => pool \in GoodPool
  BY PoolInitGood DEF Init
<1>2. pool \in GoodPool /\ [Next]_vars => (pool \in GoodPool)'
  BY PoolStep
<1>3. pool \in GoodPool => OwnReply
  BY DEF GoodPool, OwnTold, OwnReply
<1>4. QED
  BY <1>1, <1>2, <1>3, PTL DEF Spec

(* A command whose caller was told that it expired before it was sent is   *)
(* never sent, whatever its work does after that.                          *)
THEOREM ExpiredCallsStayUnsent == Spec => GivenUpStaysUnsent
<1>1. Init => pool \in GoodPool
  BY PoolInitGood DEF Init
<1>2. pool \in GoodPool /\ [Next]_vars => (pool \in GoodPool)'
  BY PoolStep
<1>3. pool \in GoodPool /\ [Next]_vars => [GivenUpStays]_pool
  BY PoolStep
<1>4. QED
  BY <1>1, <1>2, <1>3, PTL DEF Spec, GivenUpStaysUnsent, GivenUpStays

-----------------------------------------------------------------------------
(* The pool is whole.                                                      *)
(*                                                                         *)
(* Within a step some connections are neither in the pool nor in the hands *)
(* of replenishPool(), or in both.  Kept(p, S) says that every connection  *)
(* that lives is in the pool, once, or in S, and that no call counts on a  *)
(* connection in S.  Between steps S is what is in hand.                   *)

Pooled(p) == Range(p.order)

HandOf(p) == Range(p.fill.created) \cup ({p.fill.conn} \ {None})

OrderKept(p, S) ==
  /\ IsInjective(p.order)
  /\ \A k \in Pooled(p) : p.conn[k].st \in {"live", "broken"} /\ k \notin S
  /\ \A k \in Conn : p.conn[k].st = "live" => k \in Pooled(p) \cup S

CallsKept(p, S) ==
  \A c \in Call :
    /\ p.call[c].at \in {"chosen", "sent"} => p.call[c].conn \in Conn \ S
    /\ p.call[c].at = "sent" => c \in Range(p.conn[p.call[c].conn].pending)

Kept(S) == {p \in GoodPool : OrderKept(p, S) /\ CallsKept(p, S)}

HandSound(p) ==
  /\ IsInjective(p.fill.created)
  /\ p.fill.conn \notin Range(p.fill.created)
  /\ p.fill.at \in {"idle", "asleep"} => HandOf(p) = {}
  /\ p.fill.at = "dialing" => p.fill.conn = None

WholePool == {p \in GoodPool : p \in Kept(HandOf(p)) /\ HandSound(p)}

(* An empty pool stays empty.                                              *)
Emptied(p, q) == p.order = <<>> => q.order = <<>>

(* What Prune and the like may make of p, and what a step of a client that *)
(* is closed or not.                                                       *)
Reduced(p, S) == {q \in Kept(S) : q.fill = p.fill /\ Emptied(p, q)}

Onward(p) == {q \in WholePool : Closed => Emptied(p, q)}

LEMMA PooledConns ==
  ASSUME NEW p \in GoodPool
  PROVE  /\ Pooled(p) = ToSet(p.order) /\ Pooled(p) \subseteq Conn
         /\ Pooled(p) = {} <=> p.order = <<>>
<1>1. p.order \in Seq(Conn)
  BY RecordFields
<1>2. ToSet(p.order) = {} <=> Len(p.order) = 0
  BY <1>1, EnumeratedIsFinite
<1>3. Len(p.order) = 0 <=> p.order = <<>>
  BY <1>1
<1>4. QED
  BY <1>1, <1>2, <1>3, RangeFacts DEF Pooled

LEMMA KeptIsGood ==
  ASSUME NEW S, NEW p \in Kept(S)
  PROVE  p \in GoodPool /\ OrderKept(p, S) /\ CallsKept(p, S)
BY DEF Kept

(* Kept looks at the order, the connections and the calls only.            *)
LEMMA KeptOfSame ==
  ASSUME NEW S, NEW p \in Kept(S), NEW q \in GoodPool,
         q.order = p.order, q.conn = p.conn, q.call = p.call
  PROVE  q \in Kept(S)
BY DEF Kept, OrderKept, CallsKept, Pooled

(* Calls that stand where they stood, or no longer count on a connection.  *)
LEMMA KeptOfCalls ==
  ASSUME NEW S, NEW p \in Kept(S), NEW q \in GoodPool,
         q.order = p.order, q.conn = p.conn,
         \A c \in Call : /\ q.call[c].conn = p.call[c].conn
                         /\ \/ q.call[c].at = p.call[c].at
                            \/ q.call[c].at \notin {"chosen", "sent"}
  PROVE  q \in Kept(S)
<1>1. OrderKept(q, S)
  BY DEF Kept, OrderKept, Pooled
<1>2. CallsKept(q, S)
  BY KeptIsGood DEF CallsKept
<1>3. QED
  BY <1>1, <1>2 DEF Kept

LEMMA SettleFields ==
  ASSUME NEW p \in GoodPool, NEW calls, NEW what
  PROVE  /\ Settle(p, calls, what).order = p.order
         /\ Settle(p, calls, what).conn = p.conn
         /\ Settle(p, calls, what).fill = p.fill
         /\ \A c \in Call :
              /\ Settle(p, calls, what).call[c].conn = p.call[c].conn
              /\ Settle(p, calls, what).call[c].at
                   = IF c \in calls THEN "over" ELSE p.call[c].at
<1> DEFINE after(c) == IF c \in calls THEN Settled(p.call[c], what)
                       ELSE p.call[c]
<1>1. PICK moved : moved = [c \in Call |-> after(c)]
  OBVIOUS
<1>2. Settle(p, calls, what) = [p EXCEPT !.call = moved]
  BY <1>1 DEF Settle
<1>3. \A c \in Call :
        /\ after(c).conn = p.call[c].conn
        /\ after(c).at = IF c \in calls THEN "over" ELSE p.call[c].at
  BY RecordFields DEF CallState, Settled
<1>4. \A c \in Call : moved[c] = after(c)
  BY <1>1
<1> HIDE DEF after
<1>5. QED
  BY <1>2, <1>3, <1>4, RecordFields DEF PoolRecord

LEMMA SettleKept ==
  ASSUME NEW S, NEW p \in Kept(S), NEW calls
  PROVE  Settle(p, calls, Failed) \in Reduced(p, S)
<1>1. PICK q : q = Settle(p, calls, Failed)
  OBVIOUS
<1>2. q \in GoodPool
  BY <1>1, KeptIsGood, FailedFrom DEF From
<1>3. /\ q.order = p.order /\ q.conn = p.conn /\ q.fill = p.fill
      /\ \A c \in Call : /\ q.call[c].conn = p.call[c].conn
                         /\ \/ q.call[c].at = p.call[c].at
                            \/ q.call[c].at \notin {"chosen", "sent"}
  BY <1>1, KeptIsGood, SettleFields
<1>4. q \in Kept(S)
  BY <1>2, <1>3, KeptOfCalls
<1>5. QED
  BY <1>1, <1>3, <1>4 DEF Reduced, Emptied

(* A dead connection leaves the pool.                                      *)
LEMMA RemoveConnKept ==
  ASSUME NEW S, NEW p \in GoodPool, NEW k \in Conn, p.conn[k].st = "dead",
         IsInjective(p.order), CallsKept(p, S),
         \A j \in Pooled(p) \ {k} : p.conn[j].st \in {"live", "broken"},
         \A j \in Pooled(p) : j \notin S,
         \A j \in Conn : p.conn[j].st = "live" => j \in Pooled(p) \cup S
  PROVE  /\ RemoveConn(p, k) \in Reduced(p, S)
         /\ Pooled(RemoveConn(p, k)) = Pooled(p) \ {k}
<1>1. PICK q : q = RemoveConn(p, k)
  OBVIOUS
<1>2. q \in GoodPool
  BY <1>1, RemoveConnFrom DEF From
<1>3. /\ q.conn = p.conn /\ q.call = p.call /\ q.fill = p.fill
      /\ q.order = IF k \in Pooled(p) THEN RemoveFirst(p.order, k) ELSE p.order
  <2>1. CASE k \in Pooled(p)
    <3>1. PICK order : order = RemoveFirst(p.order, k)
      OBVIOUS
    <3>2. PICK n : n = IF p.robin < Len(order) \/ p.robin = 0 THEN p.robin
                       ELSE IF order = <<>> THEN 0 ELSE Len(order) - 1
      OBVIOUS
    <3>3. q = [p EXCEPT !.order = order, !.robin = n]
      BY <1>1, <2>1, <3>1, <3>2, RecordFields
      DEF RemoveConn, Shortened, Pooled, PoolRecord
    <3>4. QED
      BY <2>1, <3>1, <3>3, RecordFields DEF PoolRecord
  <2>2. CASE k \notin Pooled(p)
    BY <1>1, <2>2 DEF RemoveConn, Pooled
  <2>3. QED
    BY <2>1, <2>2
<1>4. p.order \in Seq(Conn) /\ Pooled(p) = ToSet(p.order)
  BY RecordFields, PooledConns
<1>5. IsInjective(q.order) /\ ToSet(q.order) = Pooled(p) \ {k}
  <2>1. CASE k \in Pooled(p)
    <3>1. Enumerates(p.order, Pooled(p))
      BY <1>4 DEF Enumerates
    <3>2. Enumerates(RemoveFirst(p.order, k), Pooled(p) \ {k})
      BY <1>4, <2>1, <3>1, RemoveFirstEnumerates
    <3>3. QED
      BY <1>3, <2>1, <3>2 DEF Enumerates
  <2>2. CASE k \notin Pooled(p)
    BY <1>3, <1>4, <2>2
  <2>3. QED
    BY <2>1, <2>2
<1>6. Pooled(q) = Pooled(p) \ {k}
  BY <1>2, <1>5, PooledConns
<1>7. OrderKept(q, S)
  BY <1>3, <1>5, <1>6 DEF OrderKept
<1>8. CallsKept(q, S)
  BY <1>3 DEF CallsKept
<1>9. Emptied(p, q)
  BY <1>2, <1>6, PooledConns DEF Emptied
<1>10. QED
  BY <1>1, <1>2, <1>3, <1>6, <1>7, <1>8, <1>9 DEF Reduced, Kept

LEMMA DeadConnFields ==
  DeadConn.st = "dead" /\ LiveConn.st = "live"
BY DEF DeadConn, LiveConn, NoConn

(* failConn() leaves the connection dead and out of the pool, and nobody   *)
(* waiting for it.                                                         *)
LEMMA FailConnKept ==
  ASSUME NEW S, NEW p \in Kept(S), NEW k \in Conn
  PROVE  /\ FailConn(p, k) \in Reduced(p, S)
         /\ Pooled(FailConn(p, k)) = Pooled(p) \ {k}
         /\ FailConn(p, k).conn[k].st = "dead"
<1>1. p \in GoodPool /\ OrderKept(p, S) /\ CallsKept(p, S)
  BY KeptIsGood
<1>2. PICK r : r = IF p.conn[k].st = "dead" THEN p
                   ELSE Settle([p EXCEPT !.conn[k] = DeadConn],
                               Range(p.conn[k].pending), Failed)
  OBVIOUS
<1>3. FailConn(p, k) = RemoveConn(r, k)
  BY <1>2 DEF FailConn
<1>4. /\ r \in GoodPool /\ r.order = p.order /\ r.fill = p.fill
      /\ r.conn[k].st = "dead"
      /\ \A j \in Conn \ {k} : r.conn[j] = p.conn[j]
      /\ CallsKept(r, S)
  <2>1. CASE p.conn[k].st = "dead"
    BY <1>1, <1>2, <2>1
  <2>2. CASE p.conn[k].st # "dead"
    <3>1. PICK q : q = [p EXCEPT !.conn[k] = DeadConn]
      OBVIOUS
    <3>2. q \in GoodPool
      BY <1>1, <3>1, RenewedFrom DEF From
    <3>3. /\ q.order = p.order /\ q.fill = p.fill /\ q.call = p.call
          /\ q.conn[k] = DeadConn
          /\ \A j \in Conn \ {k} : q.conn[j] = p.conn[j]
      BY <1>1, <3>1, RecordFields DEF PoolRecord
    <3>4. PICK calls : calls = Range(p.conn[k].pending)
      OBVIOUS
    <3>5. r = Settle(q, calls, Failed)
      BY <1>2, <2>2, <3>1, <3>4
    <3>6. r \in GoodPool
      BY <3>2, <3>5, FailedFrom DEF From
    <3>7. /\ r.order = q.order /\ r.fill = q.fill /\ r.conn = q.conn
          /\ \A c \in Call : /\ r.call[c].conn = p.call[c].conn
                             /\ r.call[c].at = IF c \in calls THEN "over"
                                               ELSE p.call[c].at
      BY <3>2, <3>3, <3>5, SettleFields
    <3>8. ASSUME NEW c \in Call
          PROVE  /\ r.call[c].at \in {"chosen", "sent"}
                      => r.call[c].conn \in Conn \ S
                 /\ r.call[c].at = "sent"
                      => c \in Range(r.conn[r.call[c].conn].pending)
      <4>1. CASE c \in calls
        BY <3>7, <4>1
      <4>2. CASE c \notin calls
        <5>1. /\ r.call[c].at \in {"chosen", "sent"}
                   => p.call[c].conn \in Conn \ S
              /\ r.call[c].at = "sent"
                   => /\ p.call[c].conn \in Conn
                      /\ c \in Range(p.conn[p.call[c].conn].pending)
          BY <1>1, <3>7, <4>2 DEF CallsKept
        <5>2. r.call[c].at = "sent" => p.call[c].conn # k
          BY <3>4, <4>2, <5>1
        <5>3. r.call[c].at = "sent"
                => r.conn[r.call[c].conn] = p.conn[p.call[c].conn]
          BY <3>3, <3>7, <5>1, <5>2
        <5>4. QED
          BY <3>7, <5>1, <5>3
      <4>3. QED
        BY <4>1, <4>2
    <3>9. QED
      BY <3>3, <3>6, <3>7, <3>8, DeadConnFields DEF CallsKept
  <2>3. QED
    BY <2>1, <2>2
<1>5. Pooled(r) = Pooled(p) /\ Pooled(p) \subseteq Conn
  BY <1>1, <1>4, PooledConns DEF Pooled
<1>6. /\ IsInjective(r.order)
      /\ \A j \in Pooled(r) \ {k} : r.conn[j].st \in {"live", "broken"}
      /\ \A j \in Pooled(r) : j \notin S
      /\ \A j \in Conn : r.conn[j].st = "live" => j \in Pooled(r) \cup S
  BY <1>1, <1>4, <1>5 DEF OrderKept
<1>7. /\ RemoveConn(r, k) \in Reduced(r, S)
      /\ Pooled(RemoveConn(r, k)) = Pooled(r) \ {k}
  BY <1>4, <1>6, RemoveConnKept
<1>8. RemoveConn(r, k) \in Reduced(p, S)
  BY <1>4, <1>7 DEF Reduced, Emptied
<1>9. RemoveConn(r, k).conn = r.conn
  <2>1. r \in PoolRecord
    BY <1>4, RecordFields
  <2>2. PICK order : order = RemoveFirst(r.order, k)
    OBVIOUS
  <2>3. PICK n : n = IF r.robin < Len(order) \/ r.robin = 0 THEN r.robin
                     ELSE IF order = <<>> THEN 0 ELSE Len(order) - 1
    OBVIOUS
  <2>4. RemoveConn(r, k) \in {[r EXCEPT !.order = order, !.robin = n], r}
    BY <2>1, <2>2, <2>3 DEF RemoveConn, Shortened, PoolRecord
  <2>5. QED
    BY <2>1, <2>4 DEF PoolRecord
<1>10. QED
  BY <1>3, <1>4, <1>5, <1>7, <1>8, <1>9

-----------------------------------------------------------------------------
(* The loops.                                                              *)

LEMMA ReducedTransitive ==
  ASSUME NEW S, NEW p, NEW q \in Reduced(p, S), NEW r \in Reduced(q, S)
  PROVE  r \in Reduced(p, S)
BY DEF Reduced, Emptied

LEMMA ReducedReflexive ==
  ASSUME NEW S, NEW p \in Kept(S)
  PROVE  p \in Reduced(p, S)
BY DEF Reduced, Emptied

LEMMA PruneKept ==
  ASSUME NEW S, NEW p \in Kept(S)
  PROVE  Prune(p) \in Reduced(p, S)
<1>1. Prune(p) = Pruning!Folded(p, p, p.order)
  BY Zenon DEF Prune, PruneOp, Pruning!Folded, FoldLeft,
     Pruning!MapThenFoldSet, MapThenFoldSet, Pruning!Top, Max
<1>2. PICK A : A = Reduced(p, S)
  OBVIOUS
<1>3. ASSUME NEW q \in A, NEW k \in Conn
      PROVE  PruneOp(p, q, k) \in A
  <2>1. q \in Kept(S) /\ q \in Reduced(p, S)
    BY <1>2, <1>3 DEF Reduced
  <2>2. FailConn(q, k) \in Reduced(q, S)
    BY <2>1, FailConnKept
  <2>3. QED
    BY <1>2, <2>1, <2>2, ReducedTransitive DEF PruneOp
<1>4. p \in A /\ p.order \in Seq(Conn)
  BY <1>2, ReducedReflexive, KeptIsGood, RecordFields
<1>5. Pruning!Folded(p, p, p.order) \in A
  BY <1>3, <1>4, Pruning!FoldLeftInvariant
<1>6. QED
  BY <1>1, <1>2, <1>5

(* close() takes down one connection after the other, which leaves none.   *)
LEMMA PoolClosedKept ==
  ASSUME NEW S, NEW p \in Kept(S)
  PROVE  /\ PoolClosed(p) \in Kept(S)
         /\ PoolClosed(p).fill = p.fill /\ PoolClosed(p).order = <<>>
<1>1. PICK q : q = [p EXCEPT !.robin = 0]
  OBVIOUS
<1>2. p \in GoodPool /\ p \in PoolRecord
  BY KeptIsGood, RecordFields
<1>3. /\ q \in PoolRecord /\ q.call = p.call /\ q.conn = p.conn
      /\ q.order = p.order /\ q.fill = p.fill
  BY <1>1, <1>2 DEF PoolRecord
<1>4. q \in GoodPool
  BY <1>2, <1>3, OrderAndFillFree DEF From
<1>5. q \in Kept(S)
  BY <1>3, <1>4, KeptOfSame
<1>6. PoolClosed(p) = Closing!Folded(0, q, p.order)
  BY <1>1, Zenon DEF PoolClosed, CloseOp, Closing!Folded, FoldLeft,
     Closing!MapThenFoldSet, MapThenFoldSet, Closing!Top, Max
<1>7. PICK n \in Nat : n = Len(p.order)
  BY <1>2, RecordFields
<1>8. DOMAIN p.order = 1 .. n /\ \A i \in 1 .. n : p.order[i] \in Conn
  BY <1>2, <1>7, RecordFields
<1> DEFINE Left_(i) == {p.order[j] : j \in i + 1 .. n}
           At(i) == {r \in Kept(S) : /\ r.fill = p.fill
                                     /\ Pooled(r) \subseteq Left_(i)}
<1>9. PICK A : A = [i \in 0 .. n |-> At(i)]
  OBVIOUS
<1>10. q \in A[0]
  <2>1. Pooled(q) \subseteq Left_(0)
    <3>1. ASSUME NEW e \in Pooled(q) PROVE e \in Left_(0)
      <4>1. PICK i \in 1 .. n : p.order[i] = e
        BY <1>2, <1>3, <1>7, RecordFields, RangeFacts DEF Pooled
      <4>2. 0 + 1 = 1
        OBVIOUS
      <4>3. QED
        BY <4>1, <4>2
    <3>2. QED
      BY <3>1
  <2>2. q \in At(0) /\ 0 \in 0 .. n
    BY <1>3, <1>5, <2>1
  <2>3. QED
    BY <1>9, <2>2
<1>11. Closing!Stages(0, A, p.order, n)
  <2>1. ASSUME NEW i \in 1 .. n, NEW r \in A[i - 1]
        PROVE  CloseOp(0, r, p.order[i]) \in A[i]
    <3>1. i - 1 \in 0 .. n /\ i \in 0 .. n /\ (i - 1) + 1 = i
      OBVIOUS
    <3>2. r \in At(i - 1)
      BY <1>9, <2>1, <3>1
    <3>3. PICK k \in Conn : k = p.order[i]
      BY <1>8
    <3>4. PICK t : t = FailConn(r, k)
      OBVIOUS
    <3>5. t \in Reduced(r, S) /\ Pooled(t) = Pooled(r) \ {k}
      BY <3>2, <3>4, FailConnKept
    <3>6. Pooled(t) \subseteq Left_(i)
      <4>1. ASSUME NEW e \in Pooled(t) PROVE e \in Left_(i)
        <5>1. e \in Left_(i - 1) /\ e # k
          BY <3>2, <3>5
        <5>2. PICK j \in (i - 1) + 1 .. n : e = p.order[j]
          BY <5>1
        <5>3. j # i
          BY <3>3, <5>1, <5>2
        <5>4. j \in i + 1 .. n
          BY <5>2, <5>3
        <5>5. QED
          BY <5>2, <5>4
      <4>2. QED
        BY <4>1
    <3>7. t \in At(i)
      BY <3>2, <3>5, <3>6 DEF Reduced
    <3>8. QED
      BY <1>9, <3>1, <3>3, <3>4, <3>7 DEF CloseOp
  <2>2. QED
    BY <2>1 DEF Closing!Stages
<1>12. Closing!Folded(0, q, p.order) \in A[n]
  BY <1>8, <1>10, <1>11, Closing!FoldLeftStages
<1>13. PoolClosed(p) \in At(n)
  BY <1>6, <1>7, <1>9, <1>12
<1>14. Left_(n) = {}
  BY <1>7
<1>15. QED
  BY <1>13, <1>14, KeptIsGood, PooledConns

(* The live ones of the connections just made join the pool.               *)
LEMMA PushedKept ==
  ASSUME NEW p, p \in Kept(Range(p.fill.created)), IsInjective(p.fill.created)
  PROVE  /\ FoldLeft(PushIfLive, p, p.fill.created) \in Kept({})
         /\ FoldLeft(PushIfLive, p, p.fill.created).fill = p.fill
<1>1. FoldLeft(PushIfLive, p, p.fill.created)
        = Pushing!Folded(0, p, p.fill.created)
  BY Zenon DEF PushOp, Pushing!Folded, FoldLeft,
     Pushing!MapThenFoldSet, MapThenFoldSet, Pushing!Top, Max
<1>2. PICK made : made = p.fill.created
  OBVIOUS
<1>3. p \in GoodPool /\ made \in Seq(Conn)
  BY <1>2, KeptIsGood, RecordFields DEF FillState
<1>4. PICK n \in Nat : n = Len(made)
  BY <1>3
<1>5. /\ DOMAIN made = 1 .. n
      /\ \A i \in 1 .. n : made[i] \in Conn
      /\ \A i, j \in 1 .. n : made[i] = made[j] => i = j
  BY <1>2, <1>3, <1>4, InjectiveElements
<1> DEFINE New(i) ==
             {made[j] : j \in {l \in 1 .. i : p.conn[made[l]].st = "live"}}
           At(i) == {q \in GoodPool :
                       /\ q.conn = p.conn /\ q.call = p.call /\ q.fill = p.fill
                       /\ IsInjective(q.order)
                       /\ Pooled(q) = Pooled(p) \cup New(i)}
<1>6. PICK A : A = [i \in 0 .. n |-> At(i)]
  OBVIOUS
<1>7. p \in A[0]
  <2>1. New(0) = {} /\ 0 \in 0 .. n
    OBVIOUS
  <2>2. IsInjective(p.order)
    BY KeptIsGood DEF OrderKept
  <2>3. p \in At(0)
    BY <1>3, <2>1, <2>2
  <2>4. QED
    BY <1>6, <2>1, <2>3
<1>8. Pushing!Stages(0, A, made, n)
  <2>1. ASSUME NEW i \in 1 .. n, NEW q \in A[i - 1]
        PROVE  PushOp(0, q, made[i]) \in A[i]
    <3>1. i - 1 \in 0 .. n /\ i \in 0 .. n
      OBVIOUS
    <3>2. q \in At(i - 1)
      BY <1>6, <2>1, <3>1
    <3>3. PICK k \in Conn : k = made[i]
      BY <1>5
    <3>4. PICK t : t = PushIfLive(q, k)
      OBVIOUS
    <3>5. t \in GoodPool
      BY <3>2, <3>4, PushIfLiveFrom DEF From
    <3>6. New(i) = IF p.conn[k].st = "live" THEN New(i - 1) \cup {k}
                   ELSE New(i - 1)
      BY <3>3
    <3>7. CASE p.conn[k].st # "live"
      <4>1. t = q
        BY <3>2, <3>4, <3>7 DEF PushIfLive
      <4>2. t \in At(i)
        BY <3>2, <3>6, <3>7, <4>1
      <4>3. QED
        BY <1>6, <3>1, <3>3, <3>4, <4>2 DEF PushOp
    <3>8. CASE p.conn[k].st = "live"
      <4>1. k \notin Pooled(q)
        <5>1. k \in Range(p.fill.created)
          BY <1>2, <1>3, <1>4, <3>3, RangeFacts
        <5>2. k \notin Pooled(p)
          BY <5>1, KeptIsGood DEF OrderKept
        <5>3. k \notin New(i - 1)
          BY <1>5, <3>3
        <5>4. QED
          BY <3>2, <5>2, <5>3
      <4>2. t = [q EXCEPT !.order = Append(q.order, k)] /\ q \in PoolRecord
        BY <3>2, <3>4, <3>8, RecordFields DEF PushIfLive
      <4>3. /\ t.order = Append(q.order, k) /\ t.conn = q.conn
            /\ t.call = q.call /\ t.fill = q.fill
        BY <4>2 DEF PoolRecord
      <4>4. q.order \in Seq(Conn) /\ Enumerates(q.order, Pooled(q))
        BY <3>2, RecordFields, PooledConns DEF Enumerates
      <4>5. Enumerates(t.order, Pooled(q) \cup {k})
        BY <4>1, <4>3, <4>4, AppendEnumerates
      <4>6. IsInjective(t.order) /\ Pooled(t) = Pooled(p) \cup New(i)
        BY <3>2, <3>5, <3>6, <3>8, <4>5, PooledConns DEF Enumerates
      <4>7. t \in At(i)
        BY <3>2, <3>5, <4>3, <4>6
      <4>8. QED
        BY <1>6, <3>1, <3>3, <3>4, <4>7 DEF PushOp
    <3>9. QED
      BY <3>7, <3>8
  <2>2. QED
    BY <2>1 DEF Pushing!Stages
<1>9. Pushing!Folded(0, p, made) \in A[n]
  BY <1>5, <1>7, <1>8, Pushing!FoldLeftStages
<1>10. PICK q : q = FoldLeft(PushIfLive, p, p.fill.created)
  OBVIOUS
<1>11. q \in At(n)
  <2>1. n \in 0 .. n
    OBVIOUS
  <2>2. QED
    BY <1>1, <1>2, <1>6, <1>9, <1>10, <2>1
<1>12. /\ OrderKept(p, Range(p.fill.created))
       /\ CallsKept(p, Range(p.fill.created))
  BY KeptIsGood
<1>13. OrderKept(q, {})
  <2>1. \A k \in Pooled(q) : q.conn[k].st \in {"live", "broken"}
    BY <1>11, <1>12 DEF OrderKept
  <2>2. ASSUME NEW k \in Conn, q.conn[k].st = "live" PROVE k \in Pooled(q)
    <3>1. k \in Pooled(p) \cup Range(made) /\ p.conn[k].st = "live"
      BY <1>2, <1>11, <1>12, <2>2 DEF OrderKept
    <3>2. k \in Range(made) => k \in New(n)
      BY <1>3, <1>4, <3>1, RangeFacts
    <3>3. QED
      BY <1>11, <3>1, <3>2
  <2>3. QED
    BY <1>11, <2>1, <2>2 DEF OrderKept
<1>14. CallsKept(q, {})
  BY <1>11, <1>12 DEF CallsKept
<1>15. QED
  BY <1>10, <1>11, <1>13, <1>14 DEF Kept

-----------------------------------------------------------------------------
(* Replenishing.                                                           *)

(* Nothing is in hand.                                                     *)
LEMMA EmptyHanded ==
  ASSUME NEW p \in Kept({}), HandOf(p) = {}, p.fill.at \in {"idle", "asleep"}
  PROVE  p \in WholePool
<1>1. p \in GoodPool /\ p.fill.created \in Seq(Conn)
  BY KeptIsGood, RecordFields DEF FillState
<1>2. Range(p.fill.created) = {} /\ p.fill.conn = None
  BY DEF HandOf
<1>3. IsInjective(p.fill.created)
  <2>1. PICK made \in Seq(Conn) : made = p.fill.created
    BY <1>1
  <2>2. \A i \in 1 .. Len(made) : made[i] \in Range(made)
    BY RangeFacts, Zenon
  <2>3. \A i, j \in 1 .. Len(made) : made[i] = made[j] => i = j
    BY <1>2, <2>1, <2>2
  <2>4. QED
    BY <2>1, <2>3, InjectiveElements
<1>4. QED
  BY <1>1, <1>2, <1>3 DEF WholePool, HandSound

LEMMA RangeOfNone == Range(<<>>) = {}
BY DEF Range

LEMMA FillEndsWhole ==
  ASSUME NEW p \in Kept({}), NEW ok \in BOOLEAN
  PROVE  FillEnds(p, ok) \in WholePool /\ FillEnds(p, ok).order = p.order
<1>1. PICK q : q = [p EXCEPT !.fill = NoFill]
  OBVIOUS
<1>2. p \in GoodPool /\ p \in PoolRecord
  BY KeptIsGood, RecordFields
<1>3. PICK r : r = FillEnds(p, ok)
  OBVIOUS
<1>4. r \in GoodPool
  BY <1>2, <1>3, FillEndsFrom DEF From
<1>5. q.order = p.order /\ q.conn = p.conn /\ q.call = p.call /\ q.fill = NoFill
  BY <1>1, <1>2 DEF PoolRecord
<1>6. /\ r.order = p.order /\ r.conn = p.conn /\ r.fill = NoFill
      /\ \A c \in Call : /\ r.call[c].conn = p.call[c].conn
                         /\ \/ r.call[c].at = p.call[c].at
                            \/ r.call[c].at \notin {"chosen", "sent"}
  <2>1. CASE ok
    <3> DEFINE after(c) == IF c \in Waiting(p)
                           THEN [p.call[c] EXCEPT !.at = "woken"] ELSE p.call[c]
    <3>1. PICK moved : moved = [c \in Call |-> after(c)]
      OBVIOUS
    <3>2. \A c \in Call : /\ after(c).conn = p.call[c].conn
                          /\ \/ after(c).at = p.call[c].at
                             \/ after(c).at \notin {"chosen", "sent"}
      BY <1>2 DEF PoolRecord, CallState
    <3>3. r = [q EXCEPT !.call = moved]
      BY <1>1, <1>2, <1>3, <2>1, <3>1 DEF FillEnds, PoolRecord
    <3>4. \A c \in Call : moved[c] = after(c)
      BY <3>1
    <3> HIDE DEF after
    <3>5. QED
      BY <1>1, <1>2, <1>5, <3>2, <3>3, <3>4 DEF PoolRecord
  <2>2. CASE ~ ok
    <3>1. q \in GoodPool
      BY <1>1, <1>2, NoFillType, FillFrom DEF From
    <3>2. r = Settle(q, Waiting(p), Failed)
      BY <1>1, <1>3, <2>2 DEF FillEnds
    <3>3. QED
      BY <1>5, <3>1, <3>2, SettleFields
  <2>3. QED
    BY <2>1, <2>2
<1>7. r \in Kept({})
  BY <1>4, <1>6, KeptOfCalls
<1>8. HandOf(r) = {} /\ r.fill.at = "idle"
  BY <1>6, RangeOfNone DEF HandOf, NoFill
<1>9. QED
  BY <1>3, <1>6, <1>7, <1>8, EmptyHanded

LEMMA AddedWhole ==
  ASSUME NEW p \in Kept({}), p.fill.conn = None
  PROVE  Added(p) \in WholePool
<1>1. CASE Enough(p) \/ p.fill.late \/ p.fill.attempt + 1 = MaxAttempts
  BY <1>1, FillEndsWhole DEF Added
<1>2. CASE ~ (Enough(p) \/ p.fill.late \/ p.fill.attempt + 1 = MaxAttempts)
  <2>1. p \in GoodPool /\ p \in PoolRecord /\ p.fill \in FillState
    BY KeptIsGood, RecordFields
  <2>2. PICK none : none = <<>>
    OBVIOUS
  <2>3. PICK f : f = [p.fill EXCEPT !.at = "asleep",
                                    !.attempt = p.fill.attempt + 1,
                                    !.created = none]
    OBVIOUS
  <2>4. PICK q : q = Added(p)
    OBVIOUS
  <2>5. q = [p EXCEPT !.fill = f]
    BY <1>2, <2>1, <2>2, <2>3, <2>4 DEF Added, PoolRecord
  <2>6. q \in GoodPool
    BY <2>1, <2>4, AddedFrom DEF From
  <2>7. /\ q.order = p.order /\ q.conn = p.conn /\ q.call = p.call
        /\ q.fill.at = "asleep" /\ q.fill.conn = None /\ q.fill.created = none
    BY <2>1, <2>3, <2>5 DEF PoolRecord, FillState
  <2>8. q \in Kept({})
    BY <2>6, <2>7, KeptOfSame
  <2>9. HandOf(q) = {}
    BY <2>2, <2>7, RangeOfNone DEF HandOf
  <2>10. QED
    BY <2>4, <2>7, <2>8, <2>9, EmptyHanded
<1>3. QED
  BY <1>1, <1>2

(* The connections in hand are taken down: nobody counts on them.          *)
LEMMA DiscardedKept ==
  ASSUME NEW made, NEW p \in Kept(made), NEW q,
         q = [p EXCEPT !.conn = [k \in Conn |->
                 IF k \in made THEN DeadConn ELSE p.conn[k]]]
  PROVE  q \in Kept({}) /\ q.order = p.order /\ q.fill = p.fill
<1>1. p \in GoodPool /\ OrderKept(p, made) /\ CallsKept(p, made)
  BY KeptIsGood
<1>2. q \in GoodPool
  BY <1>1, DiscardedFrom DEF From
<1>3. /\ q.order = p.order /\ q.fill = p.fill /\ q.call = p.call
      /\ \A k \in Conn : q.conn[k] = IF k \in made THEN DeadConn ELSE p.conn[k]
  <2>1. PICK conn : conn = [k \in Conn |->
                              IF k \in made THEN DeadConn ELSE p.conn[k]]
    OBVIOUS
  <2>2. q = [p EXCEPT !.conn = conn]
    BY <2>1
  <2>3. \A k \in Conn : conn[k] = IF k \in made THEN DeadConn ELSE p.conn[k]
    BY <2>1
  <2>4. QED
    BY <1>1, <2>2, <2>3, RecordFields DEF PoolRecord
<1>4. Pooled(q) = Pooled(p) /\ Pooled(p) \subseteq Conn
  BY <1>1, <1>3, PooledConns DEF Pooled
<1>5. OrderKept(q, {})
  BY <1>1, <1>3, <1>4, DeadConnFields DEF OrderKept
<1>6. CallsKept(q, {})
  <2>1. ASSUME NEW c \in Call
        PROVE  /\ q.call[c].at \in {"chosen", "sent"}
                    => q.call[c].conn \in Conn \ {}
               /\ q.call[c].at = "sent"
                    => c \in Range(q.conn[q.call[c].conn].pending)
    BY <1>1, <1>3 DEF CallsKept
  <2>2. QED
    BY <2>1 DEF CallsKept
<1>7. QED
  BY <1>2, <1>3, <1>5, <1>6 DEF Kept

(* An attempt is over, with the connections it made in hand.               *)
LEMMA TriedWhole ==
  ASSUME NEW p, p \in Kept(Range(p.fill.created)),
         IsInjective(p.fill.created), p.fill.conn = None
  PROVE  Tried(p) \in Onward(p)
<1>1. CASE Closed
  <2>1. PICK q : q = [p EXCEPT !.conn = [k \in Conn |->
                        IF k \in Range(p.fill.created) THEN DeadConn
                        ELSE p.conn[k]]]
    OBVIOUS
  <2>2. q \in Kept({}) /\ q.order = p.order
    BY <2>1, DiscardedKept
  <2>3. Tried(p) = FillEnds(q, FALSE)
    BY <1>1, <2>1 DEF Tried
  <2>4. QED
    BY <2>2, <2>3, FillEndsWhole DEF Onward, Emptied
<1>2. CASE ~ Closed
  <2>1. PICK q : q = FoldLeft(PushIfLive, p, p.fill.created)
    OBVIOUS
  <2>2. q \in Kept({}) /\ q.fill = p.fill
    BY <2>1, PushedKept
  <2>3. Prune(q) \in Reduced(q, {})
    BY <2>2, PruneKept
  <2>4. Added(Prune(q)) \in WholePool
    BY <2>2, <2>3, AddedWhole DEF Reduced
  <2>5. Tried(p) = Added(Prune(q))
    BY <1>2, <2>1 DEF Tried
  <2>6. QED
    BY <1>2, <2>4, <2>5 DEF Onward
<1>3. QED
  BY <1>1, <1>2

LEMMA DialWhole ==
  ASSUME NEW p, p \in Kept(Range(p.fill.created)),
         IsInjective(p.fill.created), p.fill.conn = None
  PROVE  Dial(p) \in Onward(p)
<1>1. CASE p.fill.late
  BY <1>1, TriedWhole DEF Dial
<1>2. CASE ~ p.fill.late
  <2>1. p \in GoodPool /\ p \in PoolRecord /\ p.fill \in FillState
    BY KeptIsGood, RecordFields
  <2>2. PICK q : q = Dial(p)
    OBVIOUS
  <2>3. q = [p EXCEPT !.fill.at = "dialing"]
    BY <1>2, <2>2 DEF Dial
  <2>4. q \in GoodPool
    BY <2>1, <2>2, DialFrom DEF From
  <2>5. /\ q.order = p.order /\ q.conn = p.conn /\ q.call = p.call
        /\ q.fill.at = "dialing" /\ q.fill.conn = None
        /\ q.fill.created = p.fill.created
    BY <2>1, <2>3 DEF PoolRecord, FillState
  <2>6. q \in Kept(Range(p.fill.created))
    BY <2>4, <2>5, KeptOfSame
  <2>7. None \notin Range(p.fill.created)
    BY <2>1, RangeFacts, PoolAssumption DEF FillState
  <2>8. HandOf(q) = Range(p.fill.created) /\ HandSound(q)
    BY <2>5, <2>7 DEF HandOf, HandSound
  <2>9. QED
    BY <2>2, <2>4, <2>5, <2>6, <2>8 DEF WholePool, Onward, Emptied
<1>3. QED
  BY <1>1, <1>2

LEMMA WholeFields ==
  ASSUME NEW p \in WholePool
  PROVE  /\ p \in GoodPool /\ p \in PoolRecord /\ p.fill \in FillState
         /\ p \in Kept(HandOf(p)) /\ HandSound(p)
         /\ p.fill.conn = None => HandOf(p) = Range(p.fill.created)
BY RecordFields DEF WholePool, HandOf

LEMMA OnwardReflexive ==
  ASSUME NEW p \in WholePool
  PROVE  p \in Onward(p)
BY DEF Onward, Emptied

LEMMA OnwardTransitive ==
  ASSUME NEW p, NEW q, Closed => Emptied(p, q), NEW r \in Onward(q)
  PROVE  r \in Onward(p)
BY DEF Onward, Emptied

LEMMA ReducedWhole ==
  ASSUME NEW p \in WholePool, NEW q \in Reduced(p, HandOf(p))
  PROVE  q \in Onward(p) /\ q \in WholePool /\ q.fill = p.fill
<1>1. HandOf(q) = HandOf(p) /\ HandSound(q)
  BY WholeFields DEF Reduced, HandOf, HandSound
<1>2. q \in GoodPool
  BY KeptIsGood DEF Reduced
<1>3. QED
  BY <1>1, <1>2 DEF Reduced, Onward, WholePool

LEMMA PruneWhole ==
  ASSUME NEW p \in WholePool
  PROVE  /\ Prune(p) \in Onward(p) /\ Prune(p) \in WholePool
         /\ Prune(p).fill = p.fill
BY WholeFields, PruneKept, ReducedWhole

LEMMA FailConnWhole ==
  ASSUME NEW p \in WholePool, NEW k \in Conn
  PROVE  FailConn(p, k) \in Onward(p) /\ FailConn(p, k) \in WholePool
BY WholeFields, FailConnKept, ReducedWhole

LEMMA FailedWhole ==
  ASSUME NEW p \in WholePool, NEW calls
  PROVE  Settle(p, calls, Failed) \in Onward(p)
BY WholeFields, SettleKept, ReducedWhole

LEMMA AttemptWhole ==
  ASSUME NEW p \in WholePool, HandOf(p) = {}
  PROVE  Attempt(p) \in Onward(p)
<1>1. CASE Closed \/ Enough(p)
  <2>1. p \in Kept({})
    BY WholeFields
  <2>2. QED
    BY <1>1, <2>1, FillEndsWhole DEF Attempt, Onward, Emptied
<1>2. CASE ~ (Closed \/ Enough(p))
  <2>1. PICK f : f = [p.fill EXCEPT !.needed = PoolSize - Len(p.order)]
    OBVIOUS
  <2>2. p \in GoodPool /\ p \in PoolRecord /\ p.fill \in FillState
    BY WholeFields
  <2>3. f \in FillState
    <3>1. PoolSize - Len(p.order) \in Int
      BY <2>2, RecordFields, PoolAssumption
    <3>2. QED
      BY <2>1, <2>2, <3>1 DEF FillState
  <2>4. PICK q : q = [p EXCEPT !.fill = f]
    OBVIOUS
  <2>5. q \in GoodPool
    BY <2>2, <2>3, <2>4, FillFrom DEF From
  <2>6. /\ q.order = p.order /\ q.conn = p.conn /\ q.call = p.call
        /\ q.fill.created = p.fill.created /\ q.fill.conn = p.fill.conn
    BY <2>1, <2>2, <2>4 DEF PoolRecord, FillState
  <2>7. Range(p.fill.created) = {} /\ p.fill.conn = None
    BY DEF HandOf
  <2>8. q \in Kept(Range(q.fill.created))
    BY <2>5, <2>6, <2>7, WholeFields, KeptOfSame
  <2>9. Dial(q) \in Onward(q)
    BY <2>6, <2>7, <2>8, WholeFields, DialWhole DEF HandSound
  <2>10. Attempt(p) = Dial(q)
    BY <1>2, <2>1, <2>2, <2>4 DEF Attempt, PoolRecord
  <2>11. QED
    BY <2>6, <2>9, <2>10, OnwardTransitive DEF Emptied
<1>3. QED
  BY <1>1, <1>2

LEMMA StartFillWhole ==
  ASSUME NEW p \in WholePool
  PROVE  StartFill(p) \in Onward(p)
<1>1. CASE p.fill.at = "idle"
  <2>1. /\ Prune(p) \in Onward(p) /\ Prune(p) \in WholePool
        /\ Prune(p).fill = p.fill
    BY PruneWhole
  <2>2. HandOf(Prune(p)) = {}
    BY <1>1, <2>1, WholeFields DEF HandOf, HandSound
  <2>3. Attempt(Prune(p)) \in Onward(Prune(p))
    BY <2>1, <2>2, AttemptWhole
  <2>4. QED
    BY <1>1, <2>1, <2>3, OnwardTransitive DEF StartFill, Onward
<1>2. CASE p.fill.at # "idle"
  BY <1>2, OnwardReflexive DEF StartFill
<1>3. QED
  BY <1>1, <1>2

(* A connection just made comes to those in hand.                          *)
LEMMA CreatedWhole ==
  ASSUME NEW p, NEW k \in Conn,
         p \in Kept(Range(p.fill.created) \cup {k}),
         IsInjective(p.fill.created), k \notin Range(p.fill.created)
  PROVE  Created(p, k) \in Onward(p)
<1>1. p \in GoodPool /\ p \in PoolRecord /\ p.fill \in FillState
  BY KeptIsGood, RecordFields
<1>2. PICK made : made = Range(p.fill.created)
  OBVIOUS
<1>3. OrderKept(p, made \cup {k}) /\ CallsKept(p, made \cup {k})
  BY <1>2, KeptIsGood
<1>4. CASE Closed
  <2>1. PICK q : q = [p EXCEPT !.conn[k] = DeadConn]
    OBVIOUS
  <2>2. q \in GoodPool
    BY <1>1, <2>1, RenewedFrom DEF From
  <2>3. PICK r : r = [q EXCEPT !.fill.created = q.fill.created,
                               !.fill.conn = None]
    OBVIOUS
  <2>4. q.fill.created \in Seq(Conn)
    BY <2>2, RecordFields DEF FillState
  <2>5. r \in GoodPool
    BY <2>2, <2>3, <2>4, InHandFrom DEF From
  <2>6. r = [p EXCEPT !.conn[k] = DeadConn, !.fill.conn = None]
    BY <1>1, <2>1, <2>3 DEF PoolRecord, FillState
  <2>7. /\ r.order = p.order /\ r.call = p.call /\ r.conn[k] = DeadConn
        /\ \A j \in Conn \ {k} : r.conn[j] = p.conn[j]
        /\ r.fill.created = p.fill.created /\ r.fill.conn = None
    BY <1>1, <2>6 DEF PoolRecord, FillState
  <2>8. Pooled(r) = Pooled(p) /\ Pooled(p) \subseteq Conn
    BY <1>1, <2>7, PooledConns DEF Pooled
  <2>9. OrderKept(r, made)
    BY <1>3, <2>7, <2>8, DeadConnFields DEF OrderKept
  <2>10. CallsKept(r, made)
    BY <1>3, <2>7 DEF CallsKept
  <2>11. Tried(r) \in Onward(r)
    BY <1>2, <2>5, <2>7, <2>9, <2>10, TriedWhole DEF Kept
  <2>12. Created(p, k) = Tried(r)
    BY <1>4, <2>6 DEF Created
  <2>13. QED
    BY <2>7, <2>11, <2>12, OnwardTransitive DEF Emptied
<1>5. CASE ~ Closed
  <2>1. PICK created : created = Append(p.fill.created, k)
    OBVIOUS
  <2>2. /\ created \in Seq(Conn) /\ IsInjective(created)
        /\ Range(created) = made \cup {k}
    <3>1. p.fill.created \in Seq(Conn)
      BY <1>1 DEF FillState
    <3>2. Enumerates(p.fill.created, made)
      BY <1>2, <3>1, RangeFacts DEF Enumerates
    <3>3. created \in Seq(Conn) /\ Enumerates(created, made \cup {k})
      BY <1>2, <2>1, <3>1, <3>2, AppendEnumerates
    <3>4. QED
      BY <3>3, RangeFacts DEF Enumerates
  <2>3. PICK q : q = [p EXCEPT !.fill.created = created, !.fill.conn = None]
    OBVIOUS
  <2>4. q \in GoodPool
    BY <1>1, <2>2, <2>3, InHandFrom DEF From
  <2>5. /\ q.order = p.order /\ q.conn = p.conn /\ q.call = p.call
        /\ q.fill.created = created /\ q.fill.conn = None
    BY <1>1, <2>3 DEF PoolRecord, FillState
  <2>6. q \in Kept(Range(q.fill.created))
    BY <1>2, <2>2, <2>4, <2>5, KeptOfSame
  <2>7. Dial(q) \in Onward(q) /\ Tried(q) \in Onward(q)
    BY <2>2, <2>5, <2>6, DialWhole, TriedWhole
  <2>8. Created(p, k) \in {Dial(q), Tried(q)}
    BY <1>5, <2>1, <2>3 DEF Created
  <2>9. QED
    BY <1>5, <2>7, <2>8, OnwardTransitive
<1>6. QED
  BY <1>4, <1>5

(* A dead connection is no longer in hand.                                 *)
LEMMA LostWhole ==
  ASSUME NEW p \in WholePool, NEW k \in Conn, p.conn[k].st = "dead"
  PROVE  Lost(p, k) \in Onward(p)
<1>1. CASE p.fill.conn # k
  BY <1>1, OnwardReflexive DEF Lost
<1>2. CASE p.fill.conn = k
  <2>1. PICK made : made = Range(p.fill.created)
    OBVIOUS
  <2>2. HandOf(p) = made \cup {k}
    BY <1>2, <2>1, PoolAssumption DEF HandOf
  <2>3. /\ p \in GoodPool /\ p \in PoolRecord /\ p.fill \in FillState
        /\ OrderKept(p, made \cup {k}) /\ CallsKept(p, made \cup {k})
        /\ IsInjective(p.fill.created)
    BY <2>2, WholeFields, KeptIsGood DEF HandSound
  <2>4. PICK q : q = [p EXCEPT !.fill.conn = None]
    OBVIOUS
  <2>5. /\ q.order = p.order /\ q.conn = p.conn /\ q.call = p.call
        /\ q.fill.created = p.fill.created /\ q.fill.conn = None
        /\ q \in PoolRecord
    BY <2>3, <2>4 DEF PoolRecord, FillState
  <2>6. q \in GoodPool
    BY <2>3, <2>5, OrderAndFillFree DEF From
  <2>7. OrderKept(q, made) /\ CallsKept(q, made)
    BY <2>3, <2>5 DEF OrderKept, CallsKept, Pooled
  <2>8. Tried(q) \in Onward(q)
    BY <2>1, <2>3, <2>5, <2>6, <2>7, TriedWhole DEF Kept
  <2>9. Lost(p, k) = Tried(q)
    BY <1>2, <2>4 DEF Lost
  <2>10. QED
    BY <2>5, <2>8, <2>9, OnwardTransitive DEF Emptied
<1>3. QED
  BY <1>1, <1>2

-----------------------------------------------------------------------------
(* Choosing.                                                               *)

LEMMA WholeOfCalls ==
  ASSUME NEW p \in WholePool, NEW q \in GoodPool,
         q.order = p.order, q.conn = p.conn, q.fill = p.fill,
         \A c \in Call : /\ q.call[c].conn = p.call[c].conn
                         /\ \/ q.call[c].at = p.call[c].at
                            \/ q.call[c].at \notin {"chosen", "sent"}
  PROVE  q \in Onward(p) /\ q \in WholePool
<1>1. q \in Reduced(p, HandOf(p))
  BY WholeFields, KeptOfCalls DEF Reduced, Emptied
<1>2. QED
  BY <1>1, ReducedWhole

(* The connection that is chosen is one of the pool, thus not in hand.     *)
LEMMA ChosenWhole ==
  ASSUME NEW p \in WholePool, p.order # <<>>, NEW c \in Call
  PROVE  Chosen(p, c) \in Onward(p) /\ Chosen(p, c) \in WholePool
<1>1. /\ p \in GoodPool /\ p \in PoolRecord
      /\ OrderKept(p, HandOf(p)) /\ CallsKept(p, HandOf(p))
  BY WholeFields, KeptIsGood
<1>2. PICK q : q = Chosen(p, c)
  OBVIOUS
<1>3. q \in GoodPool
  BY <1>1, <1>2, ChosenFrom DEF From
<1>4. PICK moved : moved = [p.call EXCEPT ![c].at = "chosen",
                                          ![c].conn = Best(p)]
  OBVIOUS
<1>5. q = [p EXCEPT !.robin = TurnAfter(p), !.call = moved]
  BY <1>1, <1>2, <1>4 DEF Chosen, PoolRecord
<1>6. /\ q.order = p.order /\ q.conn = p.conn /\ q.fill = p.fill
      /\ q.call = moved
  BY <1>1, <1>5 DEF PoolRecord
<1>7. /\ moved[c].at = "chosen" /\ moved[c].conn = Best(p)
      /\ \A d \in Call \ {c} : moved[d] = p.call[d]
  BY <1>1, <1>4 DEF PoolRecord, CallState
<1>8. Best(p) \in Conn \ HandOf(p)
  BY <1>1, BestIsConn DEF OrderKept, Pooled
<1>9. OrderKept(q, HandOf(p)) /\ CallsKept(q, HandOf(p))
  BY <1>1, <1>6, <1>7, <1>8 DEF OrderKept, CallsKept, Pooled
<1>10. q \in Reduced(p, HandOf(p))
  BY <1>3, <1>6, <1>9 DEF Reduced, Kept, Emptied
<1>11. QED
  BY <1>2, <1>10, ReducedWhole

LEMMA DispatchedWhole ==
  ASSUME NEW p \in WholePool, NEW c \in Call
  PROVE  Dispatched(p, c) \in Onward(p)
<1>1. CASE p.order = <<>>
  <2>1. p \in GoodPool /\ p \in PoolRecord
    BY WholeFields
  <2>2. PICK moved : moved = [p.call EXCEPT ![c].at = "waiting"]
    OBVIOUS
  <2>3. /\ moved \in [Call -> CallState]
        /\ \A d \in Call : /\ moved[d].told = p.call[d].told
                           /\ moved[d].conn = p.call[d].conn
                           /\ moved[d].at \in {p.call[d].at, "waiting"}
    BY <2>1, <2>2 DEF PoolRecord, CallState
  <2>4. PICK q : q = [p EXCEPT !.call = moved]
    OBVIOUS
  <2>5. q \in GoodPool
    BY <2>1, <2>3, <2>4, MovedFrom DEF From
  <2>6. /\ q.order = p.order /\ q.conn = p.conn /\ q.fill = p.fill
        /\ q.call = moved
    BY <2>1, <2>4 DEF PoolRecord
  <2>7. q \in Onward(p) /\ q \in WholePool
    BY <2>3, <2>5, <2>6, WholeOfCalls
  <2>8. Dispatched(p, c) = StartFill(q)
    BY <1>1, <2>1, <2>2, <2>4 DEF Dispatched, PoolRecord
  <2>9. QED
    BY <2>7, <2>8, StartFillWhole, OnwardTransitive DEF Onward
<1>2. CASE p.order # <<>>
  <2>1. Chosen(p, c) \in Onward(p) /\ Chosen(p, c) \in WholePool
    BY <1>2, ChosenWhole
  <2>2. StartFill(Chosen(p, c)) \in Onward(p)
    BY <2>1, StartFillWhole, OnwardTransitive DEF Onward
  <2>3. QED
    BY <1>2, <2>1, <2>2 DEF Dispatched
<1>3. QED
  BY <1>1, <1>2

-----------------------------------------------------------------------------
(* The steps keep the pool whole.                                          *)

LEMMA InHandOf ==
  InHand = HandOf(pool)
BY DEF InHand, HandOf

LEMMA CallsWhole ==
  ASSUME pool \in WholePool, NEW c \in Call,
         Exec(c) \/ Resume(c) \/ RequestTimer(c)
  PROVE  pool' \in Onward(pool)
<1>1. Prune(pool) \in Onward(pool) /\ Prune(pool) \in WholePool
  BY PruneWhole
<1>2. CASE Exec(c)
  <2>1. Dispatched(Prune(pool), c) \in Onward(pool)
    BY <1>1, DispatchedWhole, OnwardTransitive DEF Onward
  <2>2. QED
    BY <1>2, <2>1, FailedWhole DEF Exec
<1>3. CASE Resume(c)
  <2>1. Resumed(Prune(pool), c) \in Onward(Prune(pool))
    BY <1>1, FailedWhole, ChosenWhole DEF Resumed
  <2>2. QED
    BY <1>1, <1>3, <2>1, OnwardTransitive DEF Resume, Onward
<1>4. CASE RequestTimer(c)
  <2>1. pool.call[c].conn \in Conn
    BY <1>4, WholeFields, KeptIsGood DEF RequestTimer, CallsKept
  <2>2. QED
    BY <1>4, <2>1, FailConnWhole DEF RequestTimer, TimedOut
<1>5. QED
  BY <1>2, <1>3, <1>4

LEMMA DeadlineWhole ==
  ASSUME pool \in WholePool, NEW c \in Call, Deadline(c)
  PROVE  pool' \in Onward(pool)
<1>1. pool \in GoodPool /\ pool \in PoolRecord
  BY WholeFields
<1>2. pool' \in GoodPool
  BY <1>1, DeadlineStep DEF From
<1>3. PICK call : call = [pool.call EXCEPT ![c].told = Failed]
  OBVIOUS
<1>4. \A d \in Call : call[d].conn = pool.call[d].conn /\ call[d].at = pool.call[d].at
  BY <1>1, <1>3 DEF PoolRecord, CallState
<1>5. pool' = [pool EXCEPT !.call = call]
  BY <1>1, <1>3 DEF Deadline, PoolRecord
<1>6. /\ pool'.order = pool.order /\ pool'.conn = pool.conn
      /\ pool'.fill = pool.fill /\ pool'.call = call
  BY <1>1, <1>5 DEF PoolRecord
<1>7. QED
  BY <1>2, <1>4, <1>6, WholeOfCalls

LEMMA BreaksWhole ==
  ASSUME pool \in WholePool, NEW k \in Conn, Breaks(k)
  PROVE  pool' \in Onward(pool)
<1>1. /\ pool \in GoodPool /\ pool \in PoolRecord
      /\ OrderKept(pool, HandOf(pool)) /\ CallsKept(pool, HandOf(pool))
  BY WholeFields, KeptIsGood
<1>2. PICK q : q = pool'
  OBVIOUS
<1>3. q \in GoodPool
  BY <1>1, <1>2, BreaksStep DEF From
<1>4. q = [pool EXCEPT !.conn[k].st = "broken"]
  BY <1>2 DEF Breaks
<1>5. /\ q.order = pool.order /\ q.call = pool.call /\ q.fill = pool.fill
      /\ q.conn[k].st = "broken" /\ q.conn[k].pending = pool.conn[k].pending
      /\ \A j \in Conn \ {k} : q.conn[j] = pool.conn[j]
  BY <1>1, <1>4 DEF PoolRecord, ConnState
<1>6. Pooled(q) = Pooled(pool) /\ Pooled(pool) \subseteq Conn
  BY <1>1, <1>5, PooledConns DEF Pooled
<1>7. OrderKept(q, HandOf(pool))
  BY <1>1, <1>5, <1>6 DEF OrderKept
<1>8. CallsKept(q, HandOf(pool))
  <2>1. \A j \in Conn : q.conn[j].pending = pool.conn[j].pending
    BY <1>5
  <2>2. QED
    BY <1>1, <1>5, <2>1 DEF CallsKept
<1>9. q \in Reduced(pool, HandOf(pool))
  BY <1>3, <1>5, <1>7, <1>8 DEF Reduced, Kept, Emptied
<1>10. QED
  BY <1>2, <1>9, ReducedWhole

(* The call that gets the reply is over, and the others wait as before.    *)
LEMMA ReceiveWhole ==
  ASSUME pool \in WholePool, NEW k \in Conn, Receive(k)
  PROVE  pool' \in Onward(pool)
<1>1. /\ pool \in GoodPool /\ pool \in PoolRecord
      /\ OrderKept(pool, HandOf(pool)) /\ CallsKept(pool, HandOf(pool))
  BY WholeFields, KeptIsGood
<1>0. PICK asked \in Seq(Call) : \E conn :
        /\ asked # <<>> /\ pool.conn[k].pending = asked
        /\ conn = [pool.conn EXCEPT ![k].asked = Tail(asked),
                                    ![k].pending = Tail(asked)]
        /\ pool' = Settle([pool EXCEPT !.conn = conn], {Head(asked)}, Head(asked))
  BY <1>1, ReceiveAnswers
<1>2. PICK conn :
        /\ asked # <<>> /\ pool.conn[k].pending = asked
        /\ conn = [pool.conn EXCEPT ![k].asked = Tail(asked),
                                    ![k].pending = Tail(asked)]
        /\ pool' = Settle([pool EXCEPT !.conn = conn], {Head(asked)}, Head(asked))
  BY <1>0
<1>3. PICK rest : rest = Tail(asked)
  OBVIOUS
<1>4. PICK first : first = Head(asked)
  OBVIOUS
<1>5. PICK q : q = pool'
  OBVIOUS
<1>6. q \in GoodPool
  BY <1>1, <1>5, ReceiveStep DEF From
<1>7. /\ q.order = pool.order /\ q.fill = pool.fill /\ q.conn = conn
      /\ \A c \in Call : /\ q.call[c].conn = pool.call[c].conn
                         /\ q.call[c].at = IF c = first THEN "over"
                                           ELSE pool.call[c].at
  <2>1. PICK p : p = [pool EXCEPT !.conn = conn]
    OBVIOUS
  <2>2. /\ p.order = pool.order /\ p.fill = pool.fill /\ p.conn = conn
        /\ p.call = pool.call
    BY <1>1, <2>1 DEF PoolRecord
  <2>3. q = [p EXCEPT !.call = [c \in Call |->
                IF c \in {first} THEN Settled(p.call[c], first) ELSE p.call[c]]]
    BY <1>2, <1>4, <1>5, <2>1 DEF Settle
  <2>4. PICK moved : moved = [c \in Call |->
                IF c \in {first} THEN Settled(p.call[c], first) ELSE p.call[c]]
    OBVIOUS
  <2>5. \A c \in Call : /\ moved[c].conn = pool.call[c].conn
                        /\ moved[c].at = IF c = first THEN "over"
                                         ELSE pool.call[c].at
    BY <1>1, <2>2, <2>4 DEF PoolRecord, CallState, Settled
  <2>6. p \in PoolRecord \/ DOMAIN p = DOMAIN pool
    BY <2>1
  <2>7. q = [pool EXCEPT !.conn = conn, !.call = moved]
    BY <2>1, <2>3, <2>4
  <2>8. QED
    BY <1>1, <2>5, <2>7 DEF PoolRecord
<1>8. /\ conn[k].pending = rest /\ conn[k].st = pool.conn[k].st
      /\ \A j \in Conn \ {k} : conn[j] = pool.conn[j]
  BY <1>1, <1>2, <1>3 DEF PoolRecord, ConnState
<1>9. Pooled(q) = Pooled(pool) /\ Pooled(pool) \subseteq Conn
  BY <1>1, <1>7, PooledConns DEF Pooled
<1>10. OrderKept(q, HandOf(pool))
  BY <1>1, <1>7, <1>8, <1>9 DEF OrderKept
<1>11. \A c \in Range(asked) : c # first => c \in Range(rest)
  <2>1. TAKE c \in Range(asked)
  <2>2. HAVE c # first
  <2>3. PICK i \in 1 .. Len(asked) : asked[i] = c
    BY RangeFacts
  <2>4. i # 1
    BY <1>2, <1>4, <2>2, <2>3
  <2>5. /\ rest \in Seq(Call) /\ i - 1 \in 1 .. Len(rest)
        /\ rest[i - 1] = asked[i]
    BY <1>2, <1>3, <2>3, <2>4
  <2>6. QED
    BY <2>3, <2>5, RangeFacts
<1>12. CallsKept(q, HandOf(pool))
  <2>1. ASSUME NEW c \in Call
        PROVE  /\ q.call[c].at \in {"chosen", "sent"}
                    => q.call[c].conn \in Conn \ HandOf(pool)
               /\ q.call[c].at = "sent"
                    => c \in Range(q.conn[q.call[c].conn].pending)
    <3>1. CASE c = first
      BY <1>7, <3>1
    <3>2. CASE c # first
      <4>1. q.call[c].conn = pool.call[c].conn /\ q.call[c].at = pool.call[c].at
        BY <1>7, <3>2
      <4>2. ASSUME q.call[c].at = "sent"
            PROVE  /\ pool.call[c].conn \in Conn
                   /\ c \in Range(pool.conn[pool.call[c].conn].pending)
        BY <1>1, <4>1, <4>2 DEF CallsKept
      <4>3. ASSUME q.call[c].at = "sent"
            PROVE  c \in Range(conn[pool.call[c].conn].pending)
        BY <1>2, <1>8, <1>11, <3>2, <4>2, <4>3
      <4>4. QED
        BY <1>1, <1>7, <4>1, <4>3 DEF CallsKept
    <3>3. QED
      BY <3>1, <3>2
  <2>2. QED
    BY <2>1 DEF CallsKept
<1>13. q \in Reduced(pool, HandOf(pool))
  BY <1>6, <1>7, <1>10, <1>12 DEF Reduced, Kept, Emptied
<1>14. QED
  BY <1>5, <1>13, ReducedWhole

(* The call waits on the connection it was given, which is in the pool or  *)
(* broken.                                                                 *)
LEMMA SendWhole ==
  ASSUME pool \in WholePool, NEW c \in Call, Send(c)
  PROVE  pool' \in Onward(pool)
<1>1. CASE Unsendable(pool.call[c])
  BY <1>1, FailedWhole DEF Send
<1>2. CASE ~ Unsendable(pool.call[c])
  <2>1. /\ pool \in GoodPool /\ pool \in PoolRecord
        /\ OrderKept(pool, HandOf(pool)) /\ CallsKept(pool, HandOf(pool))
    BY WholeFields, KeptIsGood
  <2>2. PICK k \in Conn \ HandOf(pool) : k = pool.call[c].conn
    BY <2>1 DEF Send, CallsKept
  <2>3. PICK q : q = pool'
    OBVIOUS
  <2>4. q \in GoodPool
    BY <2>1, <2>3, SendStep
  <2>5. q = [pool EXCEPT
               !.call = [pool.call EXCEPT ![c].at = "sent"],
               !.conn = [pool.conn EXCEPT ![k].pending = Append(@, c),
                                          ![k].asked = Append(@, c)]]
    BY <1>2, <2>1, <2>2, <2>3, SendAsks
  <2>6. PICK longer : longer = Append(pool.conn[k].pending, c)
    OBVIOUS
  <2>7. PICK conn : conn = [pool.conn EXCEPT ![k].pending = Append(@, c),
                                             ![k].asked = Append(@, c)]
    OBVIOUS
  <2>8. /\ conn[k].st = pool.conn[k].st /\ conn[k].pending = longer
        /\ \A j \in Conn \ {k} : conn[j] = pool.conn[j]
    BY <2>1, <2>2, <2>6, <2>7 DEF PoolRecord, ConnState
  <2>9. PICK call : call = [pool.call EXCEPT ![c].at = "sent"]
    OBVIOUS
  <2>10. /\ call[c].conn = k
         /\ \A d \in Call \ {c} : call[d] = pool.call[d]
    BY <2>1, <2>2, <2>9 DEF PoolRecord, CallState
  <2>11. /\ q.order = pool.order /\ q.fill = pool.fill
         /\ q.conn = conn /\ q.call = call
    BY <2>1, <2>5, <2>7, <2>9 DEF PoolRecord
  <2>12. /\ c \in Range(longer)
         /\ Range(pool.conn[k].pending) \subseteq Range(longer)
    <3>1. PICK queue \in Seq(Call) : queue = pool.conn[k].pending
      BY <2>1, <2>2 DEF PoolRecord, ConnState
    <3>2. /\ longer \in Seq(Call) /\ Len(longer) = Len(queue) + 1
          /\ longer[Len(queue) + 1] = c
          /\ \A i \in 1 .. Len(queue) : longer[i] = queue[i]
      BY <2>6, <3>1
    <3>3. PICK n \in Nat : n = Len(queue)
      OBVIOUS
    <3>4. n + 1 \in 1 .. Len(longer) /\ 1 .. n \subseteq 1 .. Len(longer)
      BY <3>2, <3>3
    <3>5. c \in Range(longer)
      BY <3>2, <3>3, <3>4, RangeFacts
    <3>6. ASSUME NEW d \in Range(queue) PROVE d \in Range(longer)
      <4>1. PICK i \in 1 .. n : queue[i] = d
        BY <3>3, RangeFacts
      <4>2. longer[i] = d /\ i \in 1 .. Len(longer)
        BY <3>2, <3>3, <3>4, <4>1
      <4>3. QED
        BY <3>2, <4>2, RangeFacts
    <3>7. QED
      BY <3>1, <3>5, <3>6
  <2>13. Pooled(q) = Pooled(pool) /\ Pooled(pool) \subseteq Conn
    BY <2>1, <2>11, PooledConns DEF Pooled
  <2>14. OrderKept(q, HandOf(pool))
    BY <2>1, <2>8, <2>11, <2>13 DEF OrderKept
  <2>15. CallsKept(q, HandOf(pool))
    <3>1. ASSUME NEW d \in Call
          PROVE  /\ q.call[d].at \in {"chosen", "sent"}
                      => q.call[d].conn \in Conn \ HandOf(pool)
                 /\ q.call[d].at = "sent"
                      => d \in Range(q.conn[q.call[d].conn].pending)
      <4>1. CASE d = c
        BY <2>2, <2>8, <2>10, <2>11, <2>12, <4>1
      <4>2. CASE d # c
        BY <2>1, <2>8, <2>10, <2>11, <2>12, <4>2 DEF CallsKept
      <4>3. QED
        BY <4>1, <4>2
    <3>2. QED
      BY <3>1 DEF CallsKept
  <2>16. q \in Reduced(pool, HandOf(pool))
    BY <2>4, <2>11, <2>14, <2>15 DEF Reduced, Kept, Emptied
  <2>17. QED
    BY <2>3, <2>16, ReducedWhole
<1>3. QED
  BY <1>1, <1>2

(* A new connection takes a place that nobody remembers.                   *)
LEMMA DialDoneWhole ==
  ASSUME pool \in WholePool, NEW k \in Conn, DialDone(k)
  PROVE  pool' \in Onward(pool)
<1>1. PICK made : made = Range(pool.fill.created)
  OBVIOUS
<1>2. /\ pool.fill.conn = None /\ HandOf(pool) = made
      /\ IsInjective(pool.fill.created)
  BY <1>1, WholeFields DEF DialDone, HandSound
<1>3. /\ pool \in GoodPool /\ pool \in PoolRecord /\ pool.fill \in FillState
      /\ OrderKept(pool, made) /\ CallsKept(pool, made)
      /\ pool \in Kept(made)
  BY <1>2, WholeFields, KeptIsGood
<1>4. /\ pool.conn[k].st \in {"none", "dead"} /\ k \notin made
      /\ \A c \in Call : pool.call[c].at \in {"chosen", "sent"}
                           => pool.call[c].conn # k
  BY <1>2, InHandOf DEF DialDone, Free, Busy
<1>5. CASE Closed
  BY <1>1, <1>2, <1>3, <1>5, TriedWhole DEF DialDone, Dialled
<1>6. CASE ~ Closed
  <2>1. PICK q : q = [pool EXCEPT !.conn[k] = LiveConn]
    OBVIOUS
  <2>2. q \in GoodPool
    BY <1>3, <2>1, RenewedFrom DEF From
  <2>3. /\ q.order = pool.order /\ q.call = pool.call /\ q.fill = pool.fill
        /\ q.conn[k] = LiveConn
        /\ \A j \in Conn \ {k} : q.conn[j] = pool.conn[j]
    BY <1>3, <2>1 DEF PoolRecord
  <2>4. /\ Pooled(q) = Pooled(pool) /\ Pooled(pool) \subseteq Conn
        /\ k \notin Pooled(pool)
    BY <1>3, <1>4, <2>3, PooledConns DEF Pooled, OrderKept
  <2>5. OrderKept(q, made \cup {k})
    BY <1>3, <2>3, <2>4 DEF OrderKept
  <2>6. CallsKept(q, made \cup {k})
    BY <1>3, <1>4, <2>3 DEF CallsKept
  <2>7. q \in Kept(made \cup {k})
    BY <2>2, <2>5, <2>6 DEF Kept
  <2>8. CASE plan.password
    <3>1. PICK r : r = pool'
      OBVIOUS
    <3>2. r = [q EXCEPT !.fill.at = "auth", !.fill.conn = k]
      BY <1>6, <2>1, <2>8, <3>1 DEF DialDone, Dialled
    <3>3. r \in GoodPool
      BY <1>3, <3>1, DialledFrom DEF DialDone, From
    <3>4. q \in PoolRecord /\ q.fill \in FillState
      BY <2>2, RecordFields
    <3>5. /\ r.order = q.order /\ r.call = q.call /\ r.conn = q.conn
          /\ r.fill.at = "auth" /\ r.fill.conn = k
          /\ r.fill.created = q.fill.created
      BY <3>2, <3>4 DEF PoolRecord, FillState
    <3>6. HandOf(r) = made \cup {k}
      BY <1>1, <2>3, <3>5, PoolAssumption DEF HandOf
    <3>7. r \in Kept(made \cup {k})
      BY <2>7, <3>3, <3>5, KeptOfSame
    <3>8. HandSound(r)
      BY <1>1, <1>2, <1>4, <2>3, <3>5 DEF HandSound
    <3>9. QED
      BY <1>6, <3>1, <3>3, <3>6, <3>7, <3>8 DEF WholePool, Onward
  <2>9. CASE ~ plan.password
    <3>1. Created(q, k) \in Onward(q)
      BY <1>1, <1>2, <1>4, <2>3, <2>7, CreatedWhole
    <3>2. pool' = Created(q, k)
      BY <1>6, <2>1, <2>9 DEF DialDone, Dialled
    <3>3. QED
      BY <1>6, <3>1, <3>2, OnwardTransitive
  <2>10. QED
    BY <2>8, <2>9
<1>7. QED
  BY <1>5, <1>6

LEMMA ConnEventWhole ==
  ASSUME pool \in WholePool, NEW k \in Conn, CloseEvent(k) \/ AuthEnds(k)
  PROVE  pool' \in Onward(pool)
<1>1. PICK p : p = FailConn(pool, k)
  OBVIOUS
<1>2. p \in Onward(pool) /\ p \in WholePool /\ p.conn[k].st = "dead"
  BY <1>1, WholeFields, FailConnWhole, FailConnKept
<1>3. Lost(p, k) \in Onward(pool)
  BY <1>2, LostWhole, OnwardTransitive DEF Onward
<1>4. ASSUME AuthEnds(k) PROVE Created(pool, k) \in Onward(pool)
  <2>1. /\ HandOf(pool) = Range(pool.fill.created) \cup {k}
        /\ k \notin Range(pool.fill.created) /\ IsInjective(pool.fill.created)
    BY <1>4, WholeFields, PoolAssumption DEF AuthEnds, HandOf, HandSound
  <2>2. pool \in Kept(Range(pool.fill.created) \cup {k})
    BY <2>1, WholeFields
  <2>3. QED
    BY <2>1, <2>2, CreatedWhole
<1>5. QED
  BY <1>1, <1>3, <1>4 DEF CloseEvent, AuthEnds

LEMMA FillStepsWhole ==
  ASSUME pool \in WholePool, Warm \/ DialFails \/ Wake \/ FillLate
  PROVE  pool' \in Onward(pool)
<1>1. CASE Warm
  BY <1>1, StartFillWhole DEF Warm
<1>2. CASE DialFails
  <2>1. /\ pool.fill.conn = None /\ IsInjective(pool.fill.created)
        /\ pool \in Kept(Range(pool.fill.created))
    BY <1>2, WholeFields DEF DialFails, HandSound
  <2>2. QED
    BY <1>2, <2>1, TriedWhole DEF DialFails
<1>3. CASE Wake
  <2>1. /\ Prune(pool) \in Onward(pool) /\ Prune(pool) \in WholePool
        /\ Prune(pool).fill = pool.fill
    BY PruneWhole
  <2>2. HandOf(Prune(pool)) = {}
    BY <1>3, <2>1, WholeFields DEF Wake, HandOf, HandSound
  <2>3. Attempt(Prune(pool)) \in Onward(Prune(pool))
    BY <2>1, <2>2, AttemptWhole
  <2>4. QED
    BY <1>3, <2>1, <2>3, OnwardTransitive DEF Wake, Onward
<1>4. CASE FillLate
  <2>1. PICK q : q = pool'
    OBVIOUS
  <2>2. q = [pool EXCEPT !.fill.late = TRUE]
    BY <1>4, <2>1 DEF FillLate
  <2>3. /\ q.order = pool.order /\ q.conn = pool.conn /\ q.call = pool.call
        /\ q.fill.at = pool.fill.at /\ q.fill.conn = pool.fill.conn
        /\ q.fill.created = pool.fill.created
    BY <2>2, WholeFields DEF PoolRecord, FillState
  <2>4. q \in GoodPool
    BY <1>4, <2>1, WholeFields, FillLateStep DEF From
  <2>5. HandOf(q) = HandOf(pool) /\ HandSound(q)
    BY <2>3, WholeFields DEF HandOf, HandSound
  <2>6. q \in Kept(HandOf(pool))
    BY <2>3, <2>4, WholeFields, KeptOfSame
  <2>7. QED
    BY <2>1, <2>3, <2>4, <2>5, <2>6 DEF WholePool, Onward, Emptied
<1>5. QED
  BY <1>1, <1>2, <1>3, <1>4

LEMMA PoolNextWhole ==
  ASSUME pool \in WholePool, PoolNext
  PROVE  pool' \in Onward(pool)
<1>1. ASSUME NEW c \in Call, \/ Exec(c) \/ Resume(c) \/ Send(c)
                             \/ Deadline(c) \/ RequestTimer(c)
      PROVE  pool' \in Onward(pool)
  BY <1>1, CallsWhole, DeadlineWhole, SendWhole
<1>2. ASSUME NEW k \in Conn, \/ DialDone(k) \/ AuthEnds(k)
                             \/ Receive(k) \/ Breaks(k) \/ CloseEvent(k)
      PROVE  pool' \in Onward(pool)
  BY <1>2, DialDoneWhole, ConnEventWhole, ReceiveWhole, BreaksWhole
<1>3. QED
  BY <1>1, <1>2, FillStepsWhole DEF PoolNext

-----------------------------------------------------------------------------
(* A client that is closed has an empty pool.                              *)

PoolInv == pool \in WholePool /\ (life = "closed" => pool.order = <<>>)

LEMMA PoolInvStep ==
  ASSUME PoolInv, [Next]_vars
  PROVE  PoolInv'
<1>1. CASE PoolNext /\ life' = life
  <2>1. pool' \in Onward(pool)
    BY <1>1, PoolNextWhole DEF PoolInv
  <2>2. QED
    BY <1>1, <2>1 DEF Onward, Emptied, Closed, PoolInv
<1>2. CASE CloseEnds
  <2>1. PICK q : q = PoolClosed(pool)
    OBVIOUS
  <2>2. q \in Kept(HandOf(pool)) /\ q.fill = pool.fill /\ q.order = <<>>
    BY <2>1, WholeFields, PoolClosedKept DEF PoolInv
  <2>3. HandOf(q) = HandOf(pool) /\ HandSound(q)
    BY <2>2, WholeFields DEF PoolInv, HandOf, HandSound
  <2>4. q \in WholePool
    BY <2>2, <2>3, KeptIsGood DEF WholePool
  <2>5. QED
    BY <1>2, <2>1, <2>2, <2>4 DEF CloseEnds, PoolInv
<1>3. CASE pool' = pool /\ (life' = life \/ Close)
  BY <1>3 DEF PoolInv, Close
<1>4. QED
  BY <1>1, <1>2, <1>3 DEF Next, vars, Close

LEMMA PoolInvInit ==
  ASSUME PoolInit
  PROVE  PoolInv
<1>1. pool \in GoodPool
  BY PoolInitGood
<1>2. PICK none : none = <<>>
  OBVIOUS
<1>3. /\ pool.order = none
      /\ \A c \in Call : pool.call[c] = NewCall
      /\ \A k \in Conn : pool.conn[k] = NoConn
      /\ pool.fill = NoFill
  BY <1>2 DEF PoolInit
<1>4. NewCall.at = "new" /\ NoConn.st = "none"
  BY DEF NewCall, NoConn
<1>5. Pooled(pool) = {}
  BY <1>1, <1>2, <1>3, PooledConns
<1>6. IsInjective(pool.order)
  BY <1>2, <1>3 DEF IsInjective
<1>7. OrderKept(pool, {}) /\ CallsKept(pool, {})
  BY <1>3, <1>4, <1>5, <1>6 DEF OrderKept, CallsKept
<1>8. HandOf(pool) = {} /\ pool.fill.at = "idle"
  BY <1>3, RangeOfNone DEF HandOf, NoFill
<1>9. QED
  BY <1>1, <1>2, <1>3, <1>7, <1>8, EmptyHanded DEF Kept, PoolInv

LEMMA WholeIsWhole ==
  ASSUME PoolInv
  PROVE  PoolWhole
<1>1. OrderKept(pool, HandOf(pool)) /\ CallsKept(pool, HandOf(pool))
  BY WholeFields, KeptIsGood DEF PoolInv
<1>2. QED
  BY <1>1, InHandOf DEF PoolWhole, PoolInv, OrderKept, CallsKept, Pooled

(* Whatever breaks, times out or is closed while connections are made, no  *)
(* connection is lost or kept twice, no call waits where nothing will      *)
(* answer it, and a client that is closed keeps none.                      *)
THEOREM PoolStaysWhole == Spec => []PoolWhole
<1>1. Init => PoolInv
  BY PoolInvInit DEF Init
<1>2. PoolInv /\ [Next]_vars => PoolInv'
  BY PoolInvStep
<1>3. PoolInv => PoolWhole
  BY WholeIsWhole
<1>4. QED
  BY <1>1, <1>2, <1>3, PTL DEF Spec

-----------------------------------------------------------------------------
(* The subscriber connection.                                              *)

OpState == [at : {"new"}, told : {None}] \cup
           [at : {"queued", "running", "over"}, told : {"ok", "failed", None}]

SockState == [at : {"none", "dialing", "auth", "up"}, broken : BOOLEAN,
              gen : Nat, left : SUBSET Topic, asked : Command \cup {None},
              told : Seq(Command \cup Message \cup Refusal),
              subs : SUBSET Topic]

SubRecord == [op : [Op -> OpState], queue : Seq(Op),
              step : {"idle", "running", "opening", "asking"},
              opens : Sock \cup {None}, cur : Sock \cup {None},
              dial : Sock \cup {None}, gen : Nat,
              waiter : RoundTripOf \cup {None},
              handlers : [Topic -> SUBSET Op], sock : [Sock -> SockState],
              news : Nat, owed : [Op -> SUBSET Nat]]

(* The running operation is the first of the queue, and its caller was    *)
(* not told that it succeeded.                                             *)
Lined(P, s) ==
  /\ s.queue \in Seq(DOMAIN P)
  /\ s.step # "idle" => /\ s.queue # <<>>
                        /\ s.op[Head(s.queue)].at = "running"
                        /\ s.op[Head(s.queue)].told # "ok"
  /\ \A o \in Op : s.op[o].at = "running" => s.step # "idle" /\ o = Head(s.queue)

(* The only socket that is up is the current one, and nothing was said on  *)
(* another.                                                                *)
Wired(s) ==
  \A k \in Sock :
    /\ s.sock[k].at = "up" <=> s.cur = k
    /\ s.sock[k].gen <= s.gen
    /\ s.sock[k].at = "dialing" => ~ s.sock[k].broken
    /\ s.sock[k].at # "up" => /\ s.sock[k].asked = None
                              /\ s.sock[k].told = <<>> /\ s.sock[k].subs = {}

(* A dial whose connection will be taken.                                  *)
Wanted(s, k) ==
  \/ s.sock[k].at = "dialing" /\ s.sock[k].gen = s.gen
  \/ s.sock[k].at = "auth" /\ ~ s.sock[k].broken

(* There is one only for the running operation that waits for it, not told *)
(* yet that it failed; every other dial leads nowhere.                     *)
Dialed(s) ==
  /\ \A k \in Sock : Wanted(s, k) => /\ s.opens = k /\ s.cur = None
                                     /\ s.sock[k].at = "auth" => s.dial = k
  /\ s.opens # None =>
       \/ s.cur = None /\ s.sock[s.opens].at \in {"dialing", "auth"}
       \/ s.cur = s.opens /\ s.waiter # None /\ s.waiter.open = s.opens
  /\ s.step = "opening" <=> s.opens # None

Asked(w) == [cmd |-> w.cmd, topic |-> w.topic]

OnlyNews(seq) == \A i \in DOMAIN seq : seq[i].cmd = "message"

(* The answer at place i is the only one under way.                        *)
AnswerAt(z, w, i) ==
  /\ \A j \in DOMAIN z.told : j # i => z.told[j].cmd = "message"
  /\ \/ z.told[i].cmd = "error"
     \/ /\ z.told[i] = Asked(w)
        /\ w.cmd = "subscribe" => w.topic \in z.subs

Answering(z, w) ==
  \/ z.asked = Asked(w) /\ OnlyNews(z.told)
  \/ z.asked = None /\ \E i \in DOMAIN z.told : AnswerAt(z, w, i)

Subscribes(P, o, t) ==
  o \in DOMAIN P /\ P[o].do = "subscribe" /\ P[o].topic = t

Expects(P, s, w) ==
  /\ s.cur # None /\ Answering(s.sock[s.cur], w)
  /\ IF w.open # None
     THEN /\ s.opens = w.open /\ s.cur = w.open
          /\ w.cmd = "subscribe" /\ w.topic \in s.sock[s.cur].left
     ELSE /\ s.step = "asking"
          /\ IF w.cmd = "subscribe"
             THEN /\ s.handlers[w.topic] = {Head(s.queue)}
                  /\ Subscribes(P, Head(s.queue), w.topic)
             ELSE /\ s.handlers[w.topic] = {}
                  /\ P[Head(s.queue)].do = "unsubscribe"

Waited(P, s) ==
  /\ s.waiter # None => Expects(P, s, s.waiter)
  /\ s.waiter = None => /\ s.step # "asking"
                        /\ s.cur # None => /\ s.sock[s.cur].asked = None
                                           /\ OnlyNews(s.sock[s.cur].told)

Covered(s) ==
  /\ s.cur # None => \A t \in Registered(s) :
       \/ t \in s.sock[s.cur].subs
       \/ s.opens = s.cur /\ t \in s.sock[s.cur].left
       \/ /\ s.waiter # None /\ s.waiter.open = None
          /\ s.waiter.cmd = "subscribe" /\ s.waiter.topic = t
  /\ s.opens # None /\ s.cur = None => Registered(s) \subseteq s.sock[s.opens].left

Registering(s, o, t) ==
  /\ s.step = "asking" /\ o = Head(s.queue)
  /\ s.waiter.cmd = "subscribe" /\ s.waiter.topic = t

Handled(P, s) ==
  \A t \in Topic : \A o \in s.handlers[t] :
    Subscribes(P, o, t) /\ (s.op[o].told = "ok" \/ Registering(s, o, t))

GivenUp(P, s, o) ==
  \E u \in DOMAIN P : /\ P[u].do = "unsubscribe" /\ P[u].of = o
                      /\ s.op[u].at \in {"running", "over"}

Registers(P, shut, s) ==
  \A o \in DOMAIN P : P[o].do = "subscribe" /\ s.op[o].told = "ok" =>
    o \in s.handlers[P[o].topic] \/ shut \/ GivenUp(P, s, o)

Owing(s) ==
  /\ \A o \in Op : s.owed[o] # {} => s.cur # None /\ s.op[o].told = "ok"
  /\ \A t \in Topic : \A o \in s.handlers[t] : \A n \in s.owed[o] :
       \E i \in DOMAIN s.sock[s.cur].told :
         s.sock[s.cur].told[i] = [cmd |-> "message", topic |-> t, n |-> n]

Sound(P, shut, s) ==
  /\ s \in SubRecord /\ s.step # "running"
  /\ Lined(P, s) /\ Wired(s) /\ Dialed(s) /\ Waited(P, s) /\ Covered(s)
  /\ Handled(P, s) /\ Registers(P, shut, s) /\ Owing(s)

Untold(s) ==
  /\ s.step = "asking" \/ (s.cur # None /\ s.opens = s.cur)
       => s.op[Head(s.queue)].told = None
  /\ \A k \in Sock : Wanted(s, k) => s.op[Head(s.queue)].told = None

GoodSub(P, shut, s) == Sound(P, shut, s) /\ Untold(s)

SubInv == plan \in Plan /\ GoodSub(plan.ops, Closed, sub)

-----------------------------------------------------------------------------
(* The program.                                                            *)
IsProgram(P) ==
  \A o \in DOMAIN P :
    /\ o \in Op
    /\ P[o].do \in {"subscribe", "unsubscribe", "reconnect"}
    /\ P[o].do = "subscribe" => P[o].topic \in Topic
    /\ P[o].do = "unsubscribe" => /\ P[o].of \in DOMAIN P
                                  /\ P[P[o].of].do = "subscribe"

(* Between two steps of the running operation no answer is awaited and no  *)
(* dial is wanted.                                                         *)
Ready(P, shut, s) ==
  /\ s \in SubRecord /\ s.queue \in Seq(DOMAIN P) /\ s.queue # <<>>
  /\ \A o \in Op : s.op[o].at = "running" => o = Head(s.queue)
  /\ Wired(s) /\ (\A k \in Sock : ~ Wanted(s, k))
  /\ s.waiter = None
  /\ s.cur # None => s.sock[s.cur].asked = None /\ OnlyNews(s.sock[s.cur].told)
  /\ \A t \in Topic : \A o \in s.handlers[t] :
       Subscribes(P, o, t) /\ (s.op[o].told = "ok" \/ o = Head(s.queue))
  /\ Registers(P, shut, s) /\ Owing(s)

(* Every channel with a handler is subscribed.                             *)
Restored(s) ==
  s.cur # None => Registered(s) \subseteq s.sock[s.cur].subs

AllTold(s) == \A t \in Topic : \A o \in s.handlers[t] : s.op[o].told = "ok"

(* The running operation may end so.                                       *)
Ends(P, s, what) ==
  LET h == Head(s.queue)
  IN  IF what = "ok"
      THEN /\ \A t \in Topic : h \in s.handlers[t] => s.op[h].told \in {"ok", None}
           /\ s.op[h].told = None /\ P[h].do = "subscribe" =>
                h \in s.handlers[P[h].topic]
      ELSE \A t \in Topic : h \in s.handlers[t] => s.op[h].told = "ok"

(* The same connections.                                                   *)
SameWires(s, q) ==
  /\ q.cur = s.cur /\ q.dial = s.dial /\ q.gen = s.gen /\ q.sock = s.sock
  /\ q.waiter = s.waiter

LEMMA SubFields ==
  ASSUME NEW s \in SubRecord
  PROVE  /\ s.op \in [Op -> OpState] /\ s.queue \in Seq(Op)
         /\ s.step \in {"idle", "running", "opening", "asking"}
         /\ s.opens \in Sock \cup {None} /\ s.cur \in Sock \cup {None}
         /\ s.dial \in Sock \cup {None} /\ s.gen \in Nat
         /\ s.waiter \in RoundTripOf \cup {None}
         /\ s.handlers \in [Topic -> SUBSET Op] /\ s.sock \in [Sock -> SockState]
         /\ s.news \in Nat /\ s.owed \in [Op -> SUBSET Nat]
BY DEF SubRecord

LEMMA OverFields ==
  ASSUME NEW s \in SubRecord, s.queue # <<>>, NEW what \in {"ok", "failed"},
         NEW q, q = OpOver(s, what)
  PROVE  /\ q \in SubRecord /\ q.queue = Tail(s.queue)
         /\ q.step = "idle" /\ q.opens = None
         /\ SameWires(s, q)
         /\ q.handlers = s.handlers /\ q.news = s.news /\ q.owed = s.owed
         /\ \A o \in Op :
              IF o = Head(s.queue)
              THEN /\ q.op[o].at = "over"
                   /\ q.op[o].told = IF s.op[o].told = None THEN what
                                     ELSE s.op[o].told
              ELSE q.op[o] = s.op[o]
<1>1. PICK h : h = Head(s.queue)
  OBVIOUS
<1>2. h \in Op /\ Tail(s.queue) \in Seq(Op)
  BY <1>1, SubFields
<1>3. PICK new : new = [at |-> "over", told |-> IF s.op[h].told = None THEN what
                                                ELSE s.op[h].told]
  OBVIOUS
<1>4. new \in OpState
  BY <1>2, <1>3, SubFields DEF OpState
<1>5. PICK op : op = [s.op EXCEPT ![h] = new]
  OBVIOUS
<1>6. op \in [Op -> OpState]
  BY <1>2, <1>4, <1>5, SubFields
<1>7. q = [s EXCEPT !.op = op, !.queue = Tail(s.queue), !.step = "idle",
                    !.opens = None]
  BY <1>1, <1>3, <1>5 DEF OpOver, SubRecord
<1>8. q \in SubRecord /\ q.op = op /\ q.queue = Tail(s.queue)
  BY <1>2, <1>6, <1>7 DEF SubRecord
<1>9. /\ q.step = "idle" /\ q.opens = None /\ SameWires(s, q)
      /\ q.handlers = s.handlers /\ q.news = s.news /\ q.owed = s.owed
  BY <1>7 DEF SubRecord, SameWires
<1>10. QED
  BY <1>1, <1>2, <1>3, <1>5, <1>8, <1>9, SubFields

LEMMA OverGood ==
  ASSUME NEW P, IsProgram(P), NEW shut, NEW s, Ready(P, shut, s), Restored(s),
         NEW what \in {"ok", "failed"}, Ends(P, s, what)
  PROVE  GoodSub(P, shut, OpOver(s, what))
<1>1. s \in SubRecord /\ s.queue # <<>> /\ s.queue \in Seq(DOMAIN P)
  BY DEF Ready
<1>2. PICK h : h = Head(s.queue)
  OBVIOUS
<1>3. h \in DOMAIN P /\ h \in Op /\ Tail(s.queue) \in Seq(DOMAIN P)
  <2>1. h \in DOMAIN P /\ Tail(s.queue) \in Seq(DOMAIN P)
    BY <1>1, <1>2, HeadTailProperties
  <2>2. QED
    BY <2>1 DEF IsProgram
<1>4. PICK q : q = OpOver(s, what)
  OBVIOUS
<1>5. /\ q \in SubRecord /\ q.queue = Tail(s.queue)
      /\ q.step = "idle" /\ q.opens = None
      /\ q.cur = s.cur /\ q.dial = s.dial /\ q.gen = s.gen /\ q.sock = s.sock
      /\ q.waiter = None
      /\ q.handlers = s.handlers /\ q.news = s.news /\ q.owed = s.owed
      /\ q.op[h].at = "over"
      /\ q.op[h].told = IF s.op[h].told = None THEN what ELSE s.op[h].told
      /\ \A o \in Op : o # h => q.op[o] = s.op[o]
  BY <1>1, <1>2, <1>3, <1>4, OverFields DEF SameWires, Ready
<1>6. Lined(P, q)
  BY <1>2, <1>3, <1>5 DEF Lined, Ready
<1>7. Wired(q) /\ Dialed(q) /\ Untold(q)
  <2>1. Wired(q) /\ \A k \in Sock : ~ Wanted(q, k)
    BY <1>5 DEF Ready, Wired, Wanted
  <2>2. QED
    BY <1>5, <2>1 DEF Dialed, Untold
<1>8. Waited(P, q)
  BY <1>5 DEF Waited, Ready
<1>9. Covered(q)
  BY <1>5 DEF Covered, Restored, Registered
<1>10. Handled(P, q)
  <2>1. ASSUME NEW t \in Topic, NEW o \in q.handlers[t]
        PROVE  Subscribes(P, o, t) /\ q.op[o].told = "ok"
    <3>1. o \in s.handlers[t] /\ o \in Op
      BY <1>1, <1>5, <2>1, SubFields
    <3>2. Subscribes(P, o, t) /\ (s.op[o].told = "ok" \/ o = h)
      BY <1>2, <3>1 DEF Ready
    <3>3. CASE o # h
      BY <1>5, <3>1, <3>2, <3>3
    <3>4. CASE o = h
      BY <1>2, <1>5, <3>1, <3>2, <3>4, SubscriberAssumption DEF Ends
    <3>5. QED
      BY <3>3, <3>4
  <2>2. QED
    BY <2>1 DEF Handled
<1>11. Registers(P, shut, q)
  <2>1. \A o \in DOMAIN P : GivenUp(P, s, o) => GivenUp(P, q, o)
    BY <1>5 DEF GivenUp, IsProgram
  <2>2. ASSUME NEW o \in DOMAIN P, P[o].do = "subscribe", q.op[o].told = "ok"
        PROVE  o \in q.handlers[P[o].topic] \/ shut \/ GivenUp(P, q, o)
    <3>1. CASE s.op[o].told = "ok"
      BY <1>5, <2>1, <2>2, <3>1 DEF Ready, Registers
    <3>2. CASE s.op[o].told # "ok"
      BY <1>2, <1>3, <1>5, <2>2, <3>2 DEF Ends, IsProgram
    <3>3. QED
      BY <3>1, <3>2
  <2>3. QED
    BY <2>2 DEF Registers
<1>12. Owing(q)
  BY <1>3, <1>5, SubscriberAssumption DEF Owing, Ready
<1>13. QED
  BY <1>4, <1>5, <1>6, <1>7, <1>8, <1>9, <1>10, <1>11, <1>12
  DEF GoodSub, Sound

-----------------------------------------------------------------------------
(* The connection is taken down.                                           *)

(* What suffices for that.                                                 *)
Loose(P, shut, s) ==
  /\ s \in SubRecord /\ s.queue \in Seq(DOMAIN P) /\ s.queue # <<>>
  /\ \A o \in Op : s.op[o].at = "running" => o = Head(s.queue)
  /\ Wired(s)
  /\ \A k \in Sock : s.sock[k].at = "auth" /\ ~ s.sock[k].broken => s.dial = k
  /\ \A t \in Topic : \A o \in s.handlers[t] :
       Subscribes(P, o, t) /\ (s.op[o].told = "ok" \/ o = Head(s.queue))
  /\ Registers(P, shut, s)

LEMMA NoSockType ==
  /\ NoSock \in SockState /\ NoSock.at = "none" /\ ~ NoSock.broken
  /\ NoSock.gen = 0 /\ NoSock.asked = None /\ NoSock.told = <<>>
  /\ NoSock.subs = {}
<1>1. PICK none : none = <<>>
  OBVIOUS
<1>2. none \in Seq(Command \cup Message \cup Refusal)
  BY <1>1
<1>3. NoSock = [at |-> "none", broken |-> FALSE, gen |-> 0, left |-> {},
                asked |-> None, told |-> none, subs |-> {}]
  BY <1>1 DEF NoSock
<1>4. QED
  BY <1>1, <1>2, <1>3 DEF SockState

LEMMA TornFields ==
  ASSUME NEW s \in SubRecord, NEW q, q = Torn(s)
  PROVE  /\ q \in SubRecord /\ q.cur = None /\ q.dial = None
         /\ q.waiter = None /\ q.gen = s.gen + 1
         /\ q.op = s.op /\ q.queue = s.queue /\ q.step = s.step
         /\ q.opens = s.opens /\ q.handlers = s.handlers /\ q.news = s.news
         /\ \A o \in Op : q.owed[o] = {}
         /\ \A k \in Sock :
              \/ /\ k = s.dial /\ s.sock[k].at = "auth"
                 /\ q.sock[k] = [s.sock[k] EXCEPT !.broken = TRUE]
              \/ /\ ~ (k = s.dial /\ s.sock[k].at = "auth")
                 /\ k = s.cur /\ q.sock[k] = NoSock
              \/ /\ ~ (k = s.dial /\ s.sock[k].at = "auth")
                 /\ k # s.cur /\ q.sock[k] = s.sock[k]
<1>1. PICK sock : sock = [k \in Sock |->
        IF k = s.dial /\ s.sock[k].at = "auth"
        THEN [s.sock[k] EXCEPT !.broken = TRUE]
        ELSE IF k = s.cur THEN NoSock ELSE s.sock[k]]
  OBVIOUS
<1>2. PICK owed : owed = [o \in Op |-> {}]
  OBVIOUS
<1>3. sock \in [Sock -> SockState]
  <2>1. ASSUME NEW k \in Sock
        PROVE  [s.sock[k] EXCEPT !.broken = TRUE] \in SockState
    <3>1. s.sock[k] \in SockState
      BY SubFields
    <3>2. QED
      BY <3>1 DEF SockState
  <2>2. QED
    BY <1>1, <2>1, NoSockType, SubFields
<1>4. owed \in [Op -> SUBSET Nat]
  BY <1>2
<1>5. q = [s EXCEPT !.gen = s.gen + 1, !.cur = None, !.dial = None,
                    !.waiter = None, !.owed = owed, !.sock = sock]
  BY <1>1, <1>2 DEF Torn, SubRecord
<1>6. q \in SubRecord /\ q.sock = sock /\ q.owed = owed
  <2>1. s.gen + 1 \in Nat
    BY SubFields
  <2>2. QED
    BY <1>3, <1>4, <1>5, <2>1 DEF SubRecord
<1>7. /\ q.cur = None /\ q.dial = None
      /\ q.waiter = None /\ q.gen = s.gen + 1
      /\ q.op = s.op /\ q.queue = s.queue /\ q.step = s.step
      /\ q.opens = s.opens /\ q.handlers = s.handlers /\ q.news = s.news
  BY <1>5 DEF SubRecord
<1>8. QED
  BY <1>1, <1>2, <1>6, <1>7

(* Afterwards no socket is up and no dial is wanted.                       *)
LEMMA TornWires ==
  ASSUME NEW s \in SubRecord, Wired(s), NEW q, q = Torn(s),
         \A k \in Sock : s.sock[k].at = "auth" /\ ~ s.sock[k].broken => s.dial = k
  PROVE  /\ Wired(q) /\ Owing(q)
         /\ \A k \in Sock : /\ ~ Wanted(q, k)
                            /\ q.sock[k].at \in {s.sock[k].at, "none"}
                            /\ s.cur # k => /\ q.sock[k].at = s.sock[k].at
                                            /\ q.sock[k].left = s.sock[k].left
<1>1. /\ q.cur = None /\ q.gen = s.gen + 1 /\ s.gen \in Nat
      /\ \A o \in Op : q.owed[o] = {}
      /\ q.handlers \in [Topic -> SUBSET Op]
  BY TornFields, SubFields
<1>2. ASSUME NEW k \in Sock
      PROVE  /\ q.sock[k].at # "up"
             /\ q.sock[k].gen <= s.gen /\ q.sock[k].gen \in Nat
             /\ q.sock[k].at = "dialing" => ~ q.sock[k].broken
             /\ /\ q.sock[k].asked = None
                /\ q.sock[k].told = <<>> /\ q.sock[k].subs = {}
             /\ q.sock[k].at = "auth" => q.sock[k].broken
             /\ q.sock[k].at \in {s.sock[k].at, "none"}
             /\ s.cur # k => /\ q.sock[k].at = s.sock[k].at
                             /\ q.sock[k].left = s.sock[k].left
  <2>1. /\ s.sock[k] \in SockState
        /\ s.sock[k].at = "up" <=> s.cur = k
        /\ s.sock[k].gen <= s.gen
        /\ s.sock[k].at = "dialing" => ~ s.sock[k].broken
        /\ s.sock[k].at # "up" => /\ s.sock[k].asked = None
                                  /\ s.sock[k].told = <<>> /\ s.sock[k].subs = {}
    BY SubFields DEF Wired
  <2>2. CASE /\ k = s.dial /\ s.sock[k].at = "auth"
             /\ q.sock[k] = [s.sock[k] EXCEPT !.broken = TRUE]
    BY <2>1, <2>2 DEF SockState
  <2>3. CASE k = s.cur /\ q.sock[k] = NoSock
    BY <1>1, <2>3, NoSockType
  <2>4. CASE /\ ~ (k = s.dial /\ s.sock[k].at = "auth")
             /\ k # s.cur /\ q.sock[k] = s.sock[k]
    BY <2>1, <2>4 DEF SockState
  <2>5. QED
    BY <2>2, <2>3, <2>4, TornFields
<1>3. \A k \in Sock : ~ Wanted(q, k)
  BY <1>1, <1>2 DEF Wanted
<1>4. Wired(q)
  <2>1. \A k \in Sock : q.cur # k
    BY <1>1, SubscriberAssumption
  <2>2. \A k \in Sock : q.sock[k].gen <= q.gen
    BY <1>1, <1>2
  <2>3. QED
    BY <1>2, <2>1, <2>2 DEF Wired
<1>5. Owing(q)
  BY <1>1 DEF Owing
<1>6. QED
  BY <1>2, <1>3, <1>4, <1>5

LEMMA TornReady ==
  ASSUME NEW P, NEW shut, NEW s, Loose(P, shut, s)
  PROVE  Ready(P, shut, Torn(s)) /\ Restored(Torn(s))
<1>1. PICK q : q = Torn(s)
  OBVIOUS
<1>2. /\ q \in SubRecord /\ q.cur = None /\ q.waiter = None
      /\ q.op = s.op /\ q.queue = s.queue /\ q.handlers = s.handlers
  BY <1>1, TornFields DEF Loose
<1>3. Wired(q) /\ Owing(q) /\ \A k \in Sock : ~ Wanted(q, k)
  BY <1>1, TornWires DEF Loose
<1>4. Registers(P, shut, q)
  BY <1>2 DEF Loose, Registers, GivenUp
<1>5. QED
  BY <1>1, <1>2, <1>3, <1>4 DEF Loose, Ready, Restored

(* The running operation may be told off then.                             *)
LEMMA SoundLoose ==
  ASSUME NEW P, NEW shut, NEW s, Sound(P, shut, s), s.step # "idle"
  PROVE  Loose(P, shut, s)
<1>1. \A k \in Sock : s.sock[k].at = "auth" /\ ~ s.sock[k].broken => s.dial = k
  BY DEF Sound, Dialed, Wanted
<1>2. \A t \in Topic : \A o \in s.handlers[t] :
        Subscribes(P, o, t) /\ (s.op[o].told = "ok" \/ o = Head(s.queue))
  BY DEF Sound, Handled, Registering
<1>3. QED
  BY <1>1, <1>2 DEF Sound, Loose, Lined

LEMMA ForgetFields ==
  ASSUME NEW s \in SubRecord, NEW o, NEW q, q = Forget(s, o)
  PROVE  /\ q \in SubRecord /\ SameWires(s, q)
         /\ q.op = s.op /\ q.queue = s.queue /\ q.step = s.step
         /\ q.opens = s.opens /\ q.news = s.news /\ q.owed = s.owed
         /\ \A t \in Topic : q.handlers[t] = s.handlers[t] \ {o}
<1>1. PICK handlers : handlers = [t \in Topic |-> s.handlers[t] \ {o}]
  OBVIOUS
<1>2. handlers \in [Topic -> SUBSET Op]
  BY <1>1, SubFields
<1>3. q = [s EXCEPT !.handlers = handlers]
  BY <1>1 DEF Forget, SubRecord
<1>4. q \in SubRecord /\ q.handlers = handlers
  BY <1>2, <1>3 DEF SubRecord
<1>5. /\ SameWires(s, q)
      /\ q.op = s.op /\ q.queue = s.queue /\ q.step = s.step
      /\ q.opens = s.opens /\ q.news = s.news /\ q.owed = s.owed
  BY <1>3 DEF SubRecord, SameWires
<1>6. QED
  BY <1>1, <1>4, <1>5

LEMMA ForgetReady ==
  ASSUME NEW P, IsProgram(P), NEW shut, NEW s, Ready(P, shut, s), NEW o \in Op,
         s.op[o].told # "ok" \/ shut \/ GivenUp(P, s, o), NEW q, q = Forget(s, o)
  PROVE  Ready(P, shut, q) /\ (Restored(s) => Restored(q))
<1>1. /\ s \in SubRecord /\ q \in SubRecord
      /\ q.cur = s.cur /\ q.gen = s.gen /\ q.sock = s.sock /\ q.waiter = s.waiter
      /\ q.op = s.op /\ q.queue = s.queue /\ q.owed = s.owed
      /\ \A t \in Topic : q.handlers[t] = s.handlers[t] \ {o}
  BY ForgetFields DEF Ready, SameWires
<1>2. Wired(q) /\ \A k \in Sock : ~ Wanted(q, k)
  BY <1>1 DEF Ready, Wired, Wanted
<1>3. Registers(P, shut, q)
  <2>1. \A u \in DOMAIN P : GivenUp(P, s, u) => GivenUp(P, q, u)
    BY <1>1 DEF GivenUp
  <2>2. \A u \in DOMAIN P : P[u].do = "subscribe" /\ u \in s.handlers[P[u].topic]
          => u = o \/ u \in q.handlers[P[u].topic]
    BY <1>1 DEF IsProgram
  <2>3. s.op[o].told # "ok" \/ shut \/ GivenUp(P, q, o)
    BY <1>1 DEF GivenUp
  <2>4. QED
    BY <1>1, <2>1, <2>2, <2>3 DEF Ready, Registers
<1>4. Owing(q)
  BY <1>1 DEF Ready, Owing
<1>5. Restored(s) => Restored(q)
  BY <1>1 DEF Restored, Registered
<1>6. QED
  BY <1>1, <1>2, <1>3, <1>4, <1>5 DEF Ready

(* A socket is gone that was not up.                                       *)
Cleared(s, k, q) ==
  /\ q \in SubRecord /\ q.cur = s.cur /\ q.gen = s.gen /\ q.waiter = s.waiter
  /\ q.op = s.op /\ q.queue = s.queue /\ q.step = s.step /\ q.opens = s.opens
  /\ q.handlers = s.handlers /\ q.news = s.news /\ q.owed = s.owed
  /\ q.dial = (IF s.dial = k THEN None ELSE s.dial) \/ q.dial = s.dial
  /\ q.sock[k] = NoSock
  /\ \A j \in Sock \ {k} : q.sock[j] = s.sock[j]

LEMMA ClearFields ==
  ASSUME NEW s \in SubRecord, NEW k \in Sock, NEW q,
         \/ q = [s EXCEPT !.sock[k] = NoSock]
         \/ q = [s EXCEPT !.sock[k] = NoSock, !.dial = IF @ = k THEN None ELSE @]
  PROVE  Cleared(s, k, q)
<1>1. PICK sock : sock = [s.sock EXCEPT ![k] = NoSock]
  OBVIOUS
<1>2. /\ sock \in [Sock -> SockState] /\ sock[k] = NoSock
      /\ \A j \in Sock \ {k} : sock[j] = s.sock[j]
  BY <1>1, NoSockType, SubFields
<1>3. PICK dial : /\ dial \in {s.dial, IF s.dial = k THEN None ELSE s.dial}
                  /\ q = [s EXCEPT !.sock = sock, !.dial = dial]
  <2>1. CASE q = [s EXCEPT !.sock[k] = NoSock]
    <3>1. q = [s EXCEPT !.sock = sock, !.dial = s.dial]
      BY <1>1, <2>1 DEF SubRecord
    <3>2. QED
      BY <3>1
  <2>2. CASE q = [s EXCEPT !.sock[k] = NoSock, !.dial = IF @ = k THEN None ELSE @]
    BY <1>1, <2>2 DEF SubRecord
  <2>3. QED
    BY <2>1, <2>2
<1>4. dial \in Sock \cup {None}
  BY <1>3, SubFields
<1>5. q \in SubRecord
  BY <1>2, <1>3, <1>4 DEF SubRecord
<1>6. QED
  BY <1>2, <1>3, <1>5 DEF SubRecord, Cleared

LEMMA ClearWires ==
  ASSUME NEW s \in SubRecord, Wired(s), Owing(s), NEW k \in Sock, s.cur # k,
         NEW q, Cleared(s, k, q)
  PROVE  /\ Wired(q) /\ Owing(q) /\ ~ Wanted(q, k)
         /\ \A j \in Sock \ {k} : Wanted(q, j) <=> Wanted(s, j)
<1>1. s.gen \in Nat
  BY SubFields
<1>2. ~ Wanted(q, k)
  BY NoSockType DEF Cleared, Wanted
<1>3. \A j \in Sock \ {k} : Wanted(q, j) <=> Wanted(s, j)
  BY DEF Cleared, Wanted
<1>4. Wired(q)
  BY <1>1, NoSockType DEF Cleared, Wired
<1>5. Owing(q)
  <2>1. s.cur # None => q.sock[s.cur] = s.sock[s.cur]
    BY SubFields DEF Cleared
  <2>2. QED
    BY <2>1, SubFields DEF Owing, Cleared
<1>6. QED
  BY <1>2, <1>3, <1>4, <1>5

LEMMA OpeningFacts ==
  ASSUME NEW P, NEW shut, NEW s, Sound(P, shut, s), NEW k \in Sock, s.opens = k
  PROVE  /\ s.step = "opening" /\ AllTold(s) /\ s.queue # <<>>
         /\ s.sock[k].at \in {"dialing", "auth"} \/ s.waiter = None =>
              s.cur = None /\ s.waiter = None
<1>1. k # None
  BY SubscriberAssumption
<1>2. s.step = "opening" /\ s.queue # <<>>
  BY <1>1 DEF Sound, Dialed, Lined
<1>3. AllTold(s)
  BY <1>2 DEF Sound, AllTold, Handled, Registering
<1>4. ASSUME s.sock[k].at \in {"dialing", "auth"}
      PROVE  s.cur = None /\ s.waiter = None
  <2>1. s.cur = None
    BY <1>1, <1>4 DEF Sound, Dialed, Wired
  <2>2. QED
    BY <2>1 DEF Sound, Waited, Expects
<1>5. ASSUME s.waiter = None
      PROVE  s.cur = None
  BY <1>1, <1>5 DEF Sound, Dialed
<1>6. QED
  BY <1>2, <1>3, <1>4, <1>5

(* The operation that waits for connection k fails with it.                *)
LEMMA OpenLost ==
  ASSUME NEW P, IsProgram(P), NEW shut, NEW s, s \in SubRecord,
         NEW k \in Sock, s.opens = k, s.cur = None, s.waiter = None,
         s.queue \in Seq(DOMAIN P), s.queue # <<>>,
         \A o \in Op : s.op[o].at = "running" => o = Head(s.queue),
         Wired(s), Owing(s), Registers(P, shut, s),
         \A j \in Sock \ {k} : ~ Wanted(s, j),
         AllTold(s), \A t \in Topic : \A o \in s.handlers[t] : Subscribes(P, o, t)
  PROVE  GoodSub(P, shut, OpenFails(s, k))
<1>1. PICK q : q = [s EXCEPT !.sock[k] = NoSock,
                             !.dial = IF @ = k THEN None ELSE @]
  OBVIOUS
<1>2. Cleared(s, k, q) /\ s.cur # k
  BY <1>1, ClearFields, SubscriberAssumption
<1>3. /\ Wired(q) /\ Owing(q) /\ \A j \in Sock : ~ Wanted(q, j)
      /\ q \in SubRecord /\ q.op = s.op /\ q.queue = s.queue
      /\ q.handlers = s.handlers /\ q.cur = None /\ q.waiter = None
  BY <1>2, ClearWires DEF Cleared
<1>4. Registers(P, shut, q)
  BY <1>3 DEF Registers, GivenUp
<1>5. Ready(P, shut, q) /\ Restored(q)
  BY <1>3, <1>4 DEF Ready, Restored, AllTold
<1>6. Ends(P, q, "failed")
  BY <1>3 DEF Ends, AllTold
<1>7. OpenFails(s, k) = OpOver(q, "failed")
  BY <1>1 DEF OpenFails
<1>8. QED
  BY <1>5, <1>6, <1>7, OverGood

LEMMA ClearGood ==
  ASSUME NEW P, NEW shut, NEW s, GoodSub(P, shut, s), NEW k \in Sock,
         s.cur # k, s.opens # k, NEW q, Cleared(s, k, q)
  PROVE  GoodSub(P, shut, q)
<1>1. /\ s \in SubRecord /\ q \in SubRecord /\ Wired(s) /\ Owing(s)
      /\ q.cur = s.cur /\ q.gen = s.gen /\ q.waiter = s.waiter
      /\ q.op = s.op /\ q.queue = s.queue /\ q.step = s.step
      /\ q.opens = s.opens /\ q.handlers = s.handlers
      /\ q.dial = (IF s.dial = k THEN None ELSE s.dial) \/ q.dial = s.dial
      /\ \A j \in Sock \ {k} : q.sock[j] = s.sock[j]
  BY DEF GoodSub, Sound, Cleared
<1>2. /\ Wired(q) /\ Owing(q) /\ ~ Wanted(q, k)
      /\ \A j \in Sock \ {k} : Wanted(q, j) <=> Wanted(s, j)
  BY <1>1, ClearWires
<1>3. /\ s.cur # None => q.sock[s.cur] = s.sock[s.cur]
      /\ s.opens # None => q.sock[s.opens] = s.sock[s.opens]
  BY <1>1, SubFields
<1>4. Dialed(q)
  <2>1. \A j \in Sock : Wanted(q, j) => j # k /\ Wanted(s, j)
    BY <1>2
  <2>2. ASSUME NEW j \in Sock, Wanted(q, j)
        PROVE  /\ q.opens = j /\ q.cur = None
               /\ q.sock[j].at = "auth" => q.dial = j
    <3>1. /\ j # k /\ s.opens = j /\ s.cur = None
          /\ s.sock[j].at = "auth" => s.dial = j
      BY <2>1, <2>2 DEF GoodSub, Sound, Dialed
    <3>2. q.sock[j] = s.sock[j]
      BY <1>1, <3>1
    <3>3. QED
      BY <1>1, <3>1, <3>2
  <2>3. QED
    BY <1>1, <1>3, <2>2 DEF GoodSub, Sound, Dialed
<1>5. Waited(P, q)
  <2>1. Waited(P, s)
    BY DEF GoodSub, Sound
  <2>2. QED
    BY <1>1, <1>3, <2>1 DEF Waited, Expects
<1>6. Covered(q)
  BY <1>1, <1>3 DEF GoodSub, Sound, Covered, Registered
<1>7. Lined(P, q) /\ Handled(P, q) /\ Registers(P, shut, q) /\ q.step # "running"
  BY <1>1
  DEF GoodSub, Sound, Lined, Handled, Registering, Registers, GivenUp
<1>8. Untold(q)
  BY <1>1, <1>2 DEF GoodSub, Untold
<1>9. QED
  BY <1>1, <1>2, <1>4, <1>5, <1>6, <1>7, <1>8 DEF GoodSub, Sound

LEMMA OpenFailsGood ==
  ASSUME NEW P, IsProgram(P), NEW shut, NEW s, GoodSub(P, shut, s),
         NEW k \in Sock, s.sock[k].at \in {"dialing", "auth"}
  PROVE  GoodSub(P, shut, OpenFails(s, k))
<1>1. s \in SubRecord /\ Sound(P, shut, s)
  BY DEF GoodSub, Sound
<1>2. CASE s.opens = k
  <2>1. /\ s.step = "opening" /\ AllTold(s) /\ s.queue # <<>>
        /\ s.cur = None /\ s.waiter = None
    BY <1>1, <1>2, OpeningFacts
  <2>2. \A j \in Sock \ {k} : ~ Wanted(s, j)
    BY <1>1, <1>2 DEF Sound, Dialed
  <2>3. QED
    BY <1>1, <1>2, <2>1, <2>2, OpenLost DEF Sound, Lined, Handled
<1>3. CASE s.opens # k
  <2>1. PICK q : q = [s EXCEPT !.sock[k] = NoSock,
                               !.dial = IF @ = k THEN None ELSE @]
    OBVIOUS
  <2>2. OpenFails(s, k) = q
    BY <1>3, <2>1 DEF OpenFails
  <2>3. Cleared(s, k, q) /\ s.cur # k /\ s.cur \in Sock \cup {None}
    <3>1. s.cur # k
      BY <1>1 DEF Sound, Wired
    <3>2. QED
      BY <1>1, <2>1, <3>1, ClearFields, SubFields
  <2>4. QED
    BY <1>3, <2>2, <2>3, ClearGood
<1>4. QED
  BY <1>2, <1>3

LEMMA ReadyLoose ==
  ASSUME NEW P, NEW shut, NEW s, Ready(P, shut, s)
  PROVE  Loose(P, shut, s)
<1>1. \A k \in Sock : s.sock[k].at = "auth" /\ ~ s.sock[k].broken => s.dial = k
  BY DEF Ready, Wanted
<1>2. QED
  BY <1>1 DEF Ready, Loose

LEMMA AfterUnsubGood ==
  ASSUME NEW P, IsProgram(P), NEW shut, NEW s, Ready(P, shut, s), Restored(s),
         P[Head(s.queue)].do = "unsubscribe"
  PROVE  GoodSub(P, shut, AfterUnsub(s))
<1>1. PICK q : q = IF Registered(s) = {} THEN Torn(s) ELSE s
  OBVIOUS
<1>2. Ready(P, shut, q) /\ Restored(q)
  <2>1. Ready(P, shut, Torn(s)) /\ Restored(Torn(s))
    BY ReadyLoose, TornReady
  <2>2. QED
    BY <1>1, <2>1
<1>3. q.handlers = s.handlers /\ q.queue = s.queue
  <2>1. Torn(s).handlers = s.handlers /\ Torn(s).queue = s.queue
    BY TornFields DEF Ready
  <2>2. QED
    BY <1>1, <2>1
<1>4. \A t \in Topic : Head(q.queue) \notin q.handlers[t]
  BY <1>3 DEF Ready, Subscribes
<1>5. Ends(P, q, "ok")
  BY <1>3, <1>4 DEF Ends
<1>6. AfterUnsub(s) = OpOver(q, "ok")
  BY <1>1 DEF AfterUnsub
<1>7. QED
  BY <1>2, <1>5, <1>6, OverGood

LEMMA TornGood ==
  ASSUME NEW P, NEW shut, NEW s, Sound(P, shut, s), s.waiter = None
  PROVE  GoodSub(P, shut, Torn(s))
<1>1. PICK q : q = Torn(s)
  OBVIOUS
<1>2. /\ s \in SubRecord /\ q \in SubRecord /\ q.cur = None /\ q.waiter = None
      /\ q.op = s.op /\ q.queue = s.queue /\ q.handlers = s.handlers
      /\ q.step = s.step /\ q.opens = s.opens
  BY <1>1, TornFields DEF Sound
<1>3. /\ Wired(q) /\ Owing(q)
      /\ \A k \in Sock : /\ ~ Wanted(q, k)
                         /\ s.cur # k => /\ q.sock[k].at = s.sock[k].at
                                         /\ q.sock[k].left = s.sock[k].left
  <2>1. \A k \in Sock : s.sock[k].at = "auth" /\ ~ s.sock[k].broken => s.dial = k
    BY DEF Sound, Dialed, Wanted
  <2>2. QED
    BY <1>1, <2>1, TornWires DEF Sound
<1>4. s.opens # None => /\ s.opens \in Sock /\ s.cur = None
                        /\ s.sock[s.opens].at \in {"dialing", "auth"}
                        /\ Registered(s) \subseteq s.sock[s.opens].left
  BY <1>2, SubFields DEF Sound, Dialed, Covered
<1>5. Dialed(q)
  <2>1. s.opens # None => q.sock[s.opens].at \in {"dialing", "auth"}
    BY <1>3, <1>4, SubscriberAssumption
  <2>2. s.step = "opening" <=> s.opens # None
    BY DEF Sound, Dialed
  <2>3. QED
    BY <1>2, <1>3, <2>1, <2>2 DEF Dialed
<1>6. Covered(q)
  <2>1. s.opens # None => q.sock[s.opens].left = s.sock[s.opens].left
    BY <1>3, <1>4, SubscriberAssumption
  <2>2. QED
    BY <1>2, <1>4, <2>1 DEF Covered, Registered
<1>7. s.step # "asking" /\ s.step # "running"
  BY DEF Sound, Waited
<1>8. Waited(P, q)
  BY <1>2, <1>7 DEF Waited
<1>9. Lined(P, q) /\ Handled(P, q) /\ Registers(P, shut, q)
  BY <1>2, <1>7 DEF Sound, Lined, Handled, Registering, Registers, GivenUp
<1>10. Untold(q)
  BY <1>2, <1>3, <1>7 DEF Untold
<1>11. QED
  BY <1>1, <1>2, <1>3, <1>5, <1>6, <1>7, <1>8, <1>9, <1>10 DEF GoodSub, Sound

LEMMA CloseSubGood ==
  ASSUME NEW P, IsProgram(P), NEW shut, NEW s, Sound(P, shut, s)
  PROVE  GoodSub(P, shut, CloseSub(s))
<1>1. PICK q : q = Torn(s)
  OBVIOUS
<1>2. PICK w : w = s.waiter
  OBVIOUS
<1>3. /\ s \in SubRecord /\ q \in SubRecord /\ q.cur = None /\ q.waiter = None
      /\ q.op = s.op /\ q.queue = s.queue /\ q.handlers = s.handlers
      /\ q.opens = s.opens
  BY <1>1, TornFields DEF Sound
<1>4. CloseSub(s) = RoundTripFails(q, w)
  BY <1>1, <1>2 DEF CloseSub
<1>5. CASE w = None
  BY <1>1, <1>2, <1>4, <1>5, TornGood DEF RoundTripFails
<1>6. ASSUME w # None
      PROVE  /\ w.cmd \in {"subscribe", "unsubscribe"} /\ w.open \in Sock \cup {None}
             /\ Expects(P, s, w) /\ s.step # "idle"
             /\ Ready(P, shut, q) /\ Restored(q)
  <2>1. w.cmd \in {"subscribe", "unsubscribe"} /\ w.open \in Sock \cup {None}
    BY <1>2, <1>3, <1>6, SubFields DEF RoundTripOf
  <2>2. Expects(P, s, w)
    BY <1>2, <1>6 DEF Sound, Waited
  <2>3. s.step # "idle"
    BY <2>1, <2>2 DEF Sound, Expects, Dialed
  <2>4. QED
    BY <1>1, <2>1, <2>2, <2>3, SoundLoose, TornReady
<1>7. CASE w # None /\ w.open # None
  <2>1. PICK k \in Sock : k = w.open
    BY <1>6, <1>7
  <2>2. q.opens = k /\ AllTold(s) /\ s.opens = k
    BY <1>3, <1>6, <1>7, <2>1, OpeningFacts DEF Expects
  <2>3. AllTold(q) /\ \A t \in Topic : \A o \in q.handlers[t] : Subscribes(P, o, t)
    BY <1>3, <2>2 DEF AllTold, Sound, Handled
  <2>4. GoodSub(P, shut, OpenFails(q, k))
    BY <1>3, <1>6, <1>7, <2>2, <2>3, OpenLost DEF Ready
  <2>5. QED
    BY <1>4, <1>7, <2>1, <2>4 DEF RoundTripFails
<1>8. CASE w # None /\ w.open = None /\ w.cmd = "unsubscribe"
  <2>1. P[Head(q.queue)].do = "unsubscribe"
    BY <1>3, <1>6, <1>8 DEF Expects
  <2>2. QED
    BY <1>4, <1>6, <1>8, <2>1, AfterUnsubGood DEF RoundTripFails
<1>9. CASE w # None /\ w.open = None /\ w.cmd = "subscribe"
  <2>1. PICK h : h = Head(q.queue)
    OBVIOUS
  <2>2. h \in Op /\ q.op[h].told # "ok"
    <3>1. q.queue \in Seq(Op) /\ q.queue # <<>>
      BY <1>3, <1>6, <1>9, SubFields DEF Ready
    <3>2. q.op[h].told # "ok"
      BY <1>3, <1>6, <1>9, <2>1 DEF Sound, Lined
    <3>3. QED
      BY <2>1, <3>1, <3>2, HeadTailProperties
  <2>3. PICK r : r = Forget(q, h)
    OBVIOUS
  <2>4. Ready(P, shut, r) /\ Restored(r)
    BY <1>6, <1>9, <2>2, <2>3, ForgetReady
  <2>5. /\ r.queue = q.queue /\ \A t \in Topic : h \notin r.handlers[t]
    BY <1>3, <2>3, ForgetFields
  <2>6. Ends(P, r, "failed")
    BY <2>1, <2>5 DEF Ends
  <2>7. RoundTripFails(q, w) = OpOver(r, "failed")
    BY <1>9, <2>1, <2>3 DEF RoundTripFails
  <2>8. QED
    BY <1>4, <2>4, <2>6, <2>7, OverGood
<1>10. QED
  BY <1>5, <1>6, <1>7, <1>8, <1>9

-----------------------------------------------------------------------------
(* Commands are sent.                                                      *)

Commands(s, cmd, t, k, q) ==
  /\ q \in SubRecord /\ s.cur \in Sock
  /\ q.waiter = [cmd |-> cmd, topic |-> t, open |-> k] /\ q.waiter # None
  /\ q.sock[s.cur] = [s.sock[s.cur] EXCEPT !.asked = [cmd |-> cmd, topic |-> t]]
  /\ \A j \in Sock \ {s.cur} : q.sock[j] = s.sock[j]
  /\ q.op = s.op /\ q.queue = s.queue /\ q.step = s.step
  /\ q.opens = s.opens /\ q.cur = s.cur /\ q.dial = s.dial
  /\ q.gen = s.gen /\ q.handlers = s.handlers /\ q.news = s.news
  /\ q.owed = s.owed

LEMMA RoundTripFields ==
  ASSUME NEW s \in SubRecord, Usable(s, s.cur),
         NEW cmd \in {"subscribe", "unsubscribe"}, NEW t \in Topic,
         NEW k \in Sock \cup {None}, NEW q, q = RoundTrip(s, cmd, t, k)
  PROVE  Commands(s, cmd, t, k, q)
<1>1. PICK c : c = s.cur
  OBVIOUS
<1>2. c \in Sock
  BY <1>1, SubFields DEF Usable
<1>3. PICK a : a = [cmd |-> cmd, topic |-> t]
  OBVIOUS
<1>4. PICK w : w = [cmd |-> cmd, topic |-> t, open |-> k]
  OBVIOUS
<1>5. a \in Command /\ w \in RoundTripOf /\ w # None
  BY <1>3, <1>4, NoneIsNoCommand DEF Command, RoundTripOf
<1>6. PICK sock : sock = [s.sock EXCEPT ![c].asked = a]
  OBVIOUS
<1>7. sock \in [Sock -> SockState]
  <2>1. s.sock[c] \in SockState
    BY <1>2, SubFields
  <2>2. [s.sock[c] EXCEPT !.asked = a] \in SockState
    BY <1>5, <2>1 DEF SockState
  <2>3. QED
    BY <1>2, <1>6, <2>2, SubFields
<1>8. q = [s EXCEPT !.waiter = w, !.sock = sock]
  BY <1>1, <1>3, <1>4, <1>6 DEF RoundTrip, SubRecord
<1>9. /\ q \in SubRecord /\ q.waiter = w /\ q.sock = sock
  BY <1>5, <1>7, <1>8 DEF SubRecord
<1>10. /\ q.op = s.op /\ q.queue = s.queue /\ q.step = s.step
       /\ q.opens = s.opens /\ q.cur = s.cur /\ q.dial = s.dial
       /\ q.gen = s.gen /\ q.handlers = s.handlers /\ q.news = s.news
       /\ q.owed = s.owed
  BY <1>8 DEF SubRecord
<1>11. /\ q.sock[c] = [s.sock[c] EXCEPT !.asked = a]
       /\ \A j \in Sock \ {c} : q.sock[j] = s.sock[j]
  BY <1>2, <1>6, <1>9, SubFields
<1>12. QED
  BY <1>1, <1>2, <1>3, <1>4, <1>5, <1>9, <1>10, <1>11 DEF Commands

Keeps(P, shut, s, q) ==
  /\ Wired(q) /\ Owing(q) /\ Registers(P, shut, q)
  /\ \A j \in Sock : ~ Wanted(q, j)
  /\ Answering(q.sock[s.cur], q.waiter)
  /\ q.sock[s.cur].subs = s.sock[s.cur].subs
  /\ q.sock[s.cur].left = s.sock[s.cur].left

(* What a command under way leaves as it was.                              *)
LEMMA RoundTripWires ==
  ASSUME NEW P, NEW shut, NEW s, Ready(P, shut, s), Usable(s, s.cur),
         NEW cmd \in {"subscribe", "unsubscribe"}, NEW t \in Topic,
         NEW k \in Sock \cup {None}, NEW q, q = RoundTrip(s, cmd, t, k)
  PROVE  Commands(s, cmd, t, k, q) /\ Keeps(P, shut, s, q)
<1>0. s \in SubRecord /\ Commands(s, cmd, t, k, q)
  <2>1. s \in SubRecord
    BY DEF Ready
  <2>2. QED
    BY <2>1, RoundTripFields
<1>1. PICK c \in Sock : c = s.cur
  BY <1>0 DEF Commands
<1>2. PICK a : a = [cmd |-> cmd, topic |-> t]
  OBVIOUS
<1>3. /\ s \in SubRecord /\ s.sock[c] \in SockState /\ s.cur # None
      /\ s.sock[c].at = "up"
  BY <1>1, SubFields DEF Ready, Usable
<1>4. /\ q \in SubRecord /\ q.sock[c] = [s.sock[c] EXCEPT !.asked = a]
      /\ \A j \in Sock \ {c} : q.sock[j] = s.sock[j]
      /\ q.waiter = [cmd |-> cmd, topic |-> t, open |-> k]
      /\ q.op = s.op /\ q.opens = s.opens /\ q.cur = c
      /\ q.gen = s.gen /\ q.handlers = s.handlers /\ q.owed = s.owed
  BY <1>0, <1>1, <1>2 DEF Commands
<1>5. /\ q.sock[c].at = "up" /\ q.sock[c].gen = s.sock[c].gen
      /\ q.sock[c].asked = a /\ q.sock[c].told = s.sock[c].told
      /\ q.sock[c].subs = s.sock[c].subs /\ q.sock[c].left = s.sock[c].left
  BY <1>3, <1>4 DEF SockState
<1>6. Wired(q) /\ \A j \in Sock : ~ Wanted(q, j)
  <2>1. Wired(s) /\ \A j \in Sock : ~ Wanted(s, j)
    BY DEF Ready
  <2>2. ASSUME NEW j \in Sock
        PROVE  /\ ~ Wanted(q, j)
               /\ q.sock[j].at = s.sock[j].at /\ q.sock[j].gen = s.sock[j].gen
               /\ q.sock[j].at = "dialing" => ~ q.sock[j].broken
               /\ q.sock[j].at # "up" => q.sock[j] = s.sock[j]
    <3>1. CASE j = c
      BY <1>3, <1>5, <3>1 DEF Wanted
    <3>2. CASE j # c
      <4>1. q.sock[j] = s.sock[j]
        BY <1>4, <3>2
      <4>2. QED
        BY <1>4, <2>1, <4>1 DEF Wanted, Wired
    <3>3. QED
      BY <3>1, <3>2
  <2>3. Wired(q)
    BY <1>1, <1>4, <2>1, <2>2 DEF Wired
  <2>4. QED
    BY <2>2, <2>3
<1>7. Owing(q)
  <2>1. Owing(s)
    BY DEF Ready
  <2>2. QED
    <3>1. /\ q.sock[q.cur].told = s.sock[s.cur].told
          /\ q.handlers = s.handlers /\ q.owed = s.owed /\ q.op = s.op
          /\ q.cur # None /\ s.cur # None
      BY <1>1, <1>3, <1>4, <1>5
    <3>2. QED
      BY <2>1, <3>1 DEF Owing
<1>8. Registers(P, shut, q)
  BY <1>4 DEF Ready, Registers, GivenUp
<1>9. Answering(q.sock[c], q.waiter)
  <2>1. Asked(q.waiter) = a
    BY <1>2, <1>4 DEF Asked
  <2>2. OnlyNews(q.sock[c].told)
    BY <1>1, <1>3, <1>5 DEF Ready
  <2>3. QED
    BY <1>5, <2>1, <2>2 DEF Answering
<1>10. QED
  BY <1>0, <1>1, <1>5, <1>6, <1>7, <1>8, <1>9 DEF Keeps

(* The running operation asks.                                             *)
MayAsk(P, s, cmd, t, h) ==
  /\ h = Head(s.queue) /\ s.step = "asking" /\ s.opens = None
  /\ s.op[h].at = "running" /\ s.op[h].told = None
  /\ \A u \in Registered(s) :
       u \in s.sock[s.cur].subs \/ (cmd = "subscribe" /\ u = t)
  /\ \A u \in Topic : \A o \in s.handlers[u] :
       s.op[o].told = "ok" \/ (cmd = "subscribe" /\ u = t /\ o = h)
  /\ IF cmd = "subscribe" THEN s.handlers[t] = {h} /\ Subscribes(P, h, t)
     ELSE s.handlers[t] = {} /\ P[h].do = "unsubscribe"

LEMMA AskGood ==
  ASSUME NEW P, IsProgram(P), NEW shut, NEW s, Ready(P, shut, s),
         Usable(s, s.cur), NEW cmd \in {"subscribe", "unsubscribe"},
         NEW t \in Topic, NEW h, MayAsk(P, s, cmd, t, h)
  PROVE  GoodSub(P, shut, RoundTrip(s, cmd, t, None))
<1>1. PICK q : q = RoundTrip(s, cmd, t, None)
  OBVIOUS
<1>2. PICK c : c = s.cur
  OBVIOUS
<1>3. PICK w : w = [cmd |-> cmd, topic |-> t, open |-> None]
  OBVIOUS
<1>4. /\ q \in SubRecord /\ c \in Sock /\ c # None
      /\ q.waiter = w /\ w # None
      /\ q.op = s.op /\ q.queue = s.queue /\ q.step = "asking"
      /\ q.opens = None /\ q.cur = c /\ q.handlers = s.handlers
  <2>1. None \in Sock \cup {None}
    OBVIOUS
  <2>2. Commands(s, cmd, t, None, q)
    BY <1>1, <2>1, RoundTripWires
  <2>3. /\ q \in SubRecord /\ s.cur \in Sock
        /\ q.waiter = [cmd |-> cmd, topic |-> t, open |-> None]
        /\ q.waiter # None
        /\ q.op = s.op /\ q.queue = s.queue /\ q.step = s.step
        /\ q.opens = s.opens /\ q.cur = s.cur /\ q.handlers = s.handlers
    BY <2>2 DEF Commands
  <2>4. QED
    BY <1>2, <1>3, <2>3, SubscriberAssumption DEF MayAsk
<1>5. w.cmd = cmd /\ w.topic = t /\ w.open = None
  BY <1>3
<1>6. /\ Wired(q) /\ Owing(q) /\ Registers(P, shut, q)
      /\ \A j \in Sock : ~ Wanted(q, j)
      /\ Answering(q.sock[c], w)
      /\ q.sock[c].subs = s.sock[c].subs
  <2>1. None \in Sock \cup {None}
    OBVIOUS
  <2>2. Keeps(P, shut, s, q)
    BY <1>1, <2>1, RoundTripWires
  <2>3. QED
    BY <1>2, <1>4, <2>2 DEF Keeps
<1>7. Lined(P, q)
  BY <1>4, SubscriberAssumption DEF Ready, Lined, MayAsk
<1>8. Dialed(q)
  BY <1>4, <1>6 DEF Dialed
<1>9. Waited(P, q)
  BY <1>4, <1>5, <1>6 DEF Waited, Expects, MayAsk
<1>10. Covered(q)
  BY <1>2, <1>4, <1>5, <1>6 DEF Covered, Registered, MayAsk
<1>11. Handled(P, q)
  BY <1>4, <1>5 DEF Ready, Handled, Registering, MayAsk
<1>12. Untold(q)
  BY <1>4, <1>6 DEF Untold, MayAsk
<1>13. QED
  BY <1>1, <1>4, <1>6, <1>7, <1>8, <1>9, <1>10, <1>11, <1>12 DEF GoodSub, Sound

(* The dial of connection k asks for one more channel.                     *)
LEMMA AskAgainGood ==
  ASSUME NEW P, IsProgram(P), NEW shut, NEW s, Ready(P, shut, s),
         Usable(s, s.cur), NEW k \in Sock, s.cur = k, s.opens = k,
         s.step = "opening", s.op[Head(s.queue)].at = "running",
         s.op[Head(s.queue)].told = None, AllTold(s),
         Registered(s) \subseteq s.sock[k].subs \cup s.sock[k].left,
         NEW t \in s.sock[k].left
  PROVE  GoodSub(P, shut, RoundTrip(s, "subscribe", t, k))
<1>1. PICK q : q = RoundTrip(s, "subscribe", t, k)
  OBVIOUS
<1>2. PICK w : w = [cmd |-> "subscribe", topic |-> t, open |-> k]
  OBVIOUS
<1>3. t \in Topic /\ k # None
  BY SubFields, SubscriberAssumption DEF Ready, SockState
<1>4. /\ q \in SubRecord /\ q.waiter = w /\ w # None
      /\ q.op = s.op /\ q.queue = s.queue /\ q.step = "opening"
      /\ q.opens = k /\ q.cur = k /\ q.handlers = s.handlers
  <2>1. /\ k \in Sock \cup {None} /\ t \in Topic
        /\ "subscribe" \in {"subscribe", "unsubscribe"}
    BY <1>3
  <2>2. Commands(s, "subscribe", t, k, q)
    BY <1>1, <2>1, RoundTripWires
  <2>3. /\ q \in SubRecord
        /\ q.waiter = [cmd |-> "subscribe", topic |-> t, open |-> k]
        /\ q.waiter # None
        /\ q.op = s.op /\ q.queue = s.queue /\ q.step = s.step
        /\ q.opens = s.opens /\ q.cur = s.cur /\ q.handlers = s.handlers
    BY <2>2 DEF Commands
  <2>4. QED
    BY <1>2, <2>3
<1>5. w.cmd = "subscribe" /\ w.topic = t /\ w.open = k
  BY <1>2
<1>6. /\ Wired(q) /\ Owing(q) /\ Registers(P, shut, q)
      /\ \A j \in Sock : ~ Wanted(q, j)
      /\ Answering(q.sock[k], w)
      /\ q.sock[k].subs = s.sock[k].subs /\ q.sock[k].left = s.sock[k].left
  <2>1. /\ k \in Sock \cup {None} /\ t \in Topic
        /\ "subscribe" \in {"subscribe", "unsubscribe"}
    BY <1>3
  <2>2. Keeps(P, shut, s, q)
    BY <1>1, <2>1, RoundTripWires
  <2>3. QED
    BY <1>4, <2>2 DEF Keeps
<1>7. Lined(P, q)
  BY <1>4, SubscriberAssumption DEF Ready, Lined
<1>8. Dialed(q)
  BY <1>3, <1>4, <1>5, <1>6 DEF Dialed
<1>9. Waited(P, q)
  BY <1>3, <1>4, <1>5, <1>6 DEF Waited, Expects
<1>10. Covered(q)
  BY <1>4, <1>6 DEF Covered, Registered
<1>11. Handled(P, q)
  BY <1>4 DEF Ready, Handled, AllTold
<1>12. Untold(q)
  BY <1>4, <1>6 DEF Untold
<1>13. QED
  BY <1>1, <1>4, <1>6, <1>7, <1>8, <1>9, <1>10, <1>11, <1>12 DEF GoodSub, Sound

-----------------------------------------------------------------------------
(* The operations.  These depend on the program of the client.             *)

LEMMA PlanIsProgram ==
  ASSUME plan \in Plan
  PROVE  IsProgram(plan.ops)
BY ProgramAssumption DEF IsProgram

(* An operation runs, and was not told anything.                           *)
Runs(P, shut, s, o) ==
  /\ Ready(P, shut, s) /\ AllTold(s)
  /\ o = Head(s.queue) /\ s.op[o].at = "running" /\ s.op[o].told = None

LEMMA RunsOp ==
  ASSUME NEW P, IsProgram(P), NEW shut, NEW s, NEW o, Runs(P, shut, s, o)
  PROVE  /\ s \in SubRecord /\ Ready(P, shut, s) /\ AllTold(s)
         /\ o \in DOMAIN P /\ o \in Op /\ o = Head(s.queue)
         /\ s.op[o].at = "running" /\ s.op[o].told = None
         /\ \A t \in Topic : o \notin s.handlers[t]
         /\ s.owed[o] = {}
<1>1. s \in SubRecord /\ Ready(P, shut, s) /\ AllTold(s) /\ o = Head(s.queue)
  BY DEF Runs, Ready
<1>2. s.queue \in Seq(DOMAIN P) /\ s.queue # <<>>
  BY <1>1 DEF Ready
<1>3. o \in DOMAIN P
  BY <1>1, <1>2, HeadTailProperties
<1>4. o \in Op
  BY <1>3 DEF IsProgram
<1>5. None # "ok"
  BY SubscriberAssumption
<1>6. \A t \in Topic : o \notin s.handlers[t]
  BY <1>5 DEF Runs, AllTold
<1>7. s.owed[o] = {}
  BY <1>4, <1>5 DEF Runs, Ready, Owing
<1>8. QED
  BY <1>1, <1>3, <1>4, <1>6, <1>7 DEF Runs

(* A handler more for the running operation.                               *)
LEMMA HandlerReady ==
  ASSUME NEW P, IsProgram(P), NEW shut, NEW s, NEW o, Runs(P, shut, s, o),
         NEW t \in Topic, Subscribes(P, o, t), NEW q, q \in SubRecord,
         q.handlers = [s.handlers EXCEPT ![t] = @ \cup {o}],
         q.op = s.op, q.queue = s.queue, SameWires(s, q), q.owed = s.owed
  PROVE  Ready(P, shut, q)
<1>1. /\ s \in SubRecord /\ Ready(P, shut, s) /\ o \in Op /\ s.owed[o] = {}
      /\ o = Head(s.queue)
  BY RunsOp
<1>2. /\ q.cur = s.cur /\ q.gen = s.gen /\ q.sock = s.sock /\ q.waiter = s.waiter
  BY DEF SameWires
<1>3. \A u \in Topic : \A h \in Op :
        h \in q.handlers[u] <=> h \in s.handlers[u] \/ (u = t /\ h = o)
  BY <1>1, SubFields
<1>4. \A u \in Topic : q.handlers[u] \subseteq Op
  BY SubFields
<1>5. Wired(q) /\ \A k \in Sock : ~ Wanted(q, k)
  BY <1>1, <1>2 DEF Ready, Wired, Wanted
<1>6. Registers(P, shut, q)
  <2>1. \A u \in DOMAIN P : GivenUp(P, s, u) => GivenUp(P, q, u)
    BY DEF GivenUp
  <2>2. ASSUME NEW u \in DOMAIN P, P[u].do = "subscribe", q.op[u].told = "ok"
        PROVE  u \in q.handlers[P[u].topic] \/ shut \/ GivenUp(P, q, u)
    <3>1. u \in Op /\ P[u].topic \in Topic
      BY <2>2 DEF IsProgram
    <3>2. u \in s.handlers[P[u].topic] \/ shut \/ GivenUp(P, s, u)
      BY <1>1, <2>2 DEF Ready, Registers
    <3>3. QED
      BY <1>3, <2>1, <3>1, <3>2
  <2>3. QED
    BY <2>2 DEF Registers
<1>7. Owing(q)
  <2>1. Owing(s)
    BY <1>1 DEF Ready
  <2>2. ASSUME NEW u \in Topic, NEW h \in q.handlers[u], NEW n \in q.owed[h]
        PROVE  h \in s.handlers[u]
    BY <1>1, <1>3, <1>4, <2>2
  <2>3. QED
    BY <1>2, <2>1, <2>2 DEF Owing
<1>8. \A u \in Topic : \A h \in q.handlers[u] :
        Subscribes(P, h, u) /\ (q.op[h].told = "ok" \/ h = Head(q.queue))
  BY <1>1, <1>3, <1>4 DEF Ready
<1>9. QED
  BY <1>1, <1>2, <1>5, <1>6, <1>7, <1>8 DEF Ready

LEMMA SubscribingGood ==
  ASSUME plan \in Plan, NEW s, NEW o, Runs(plan.ops, Closed, s, o), Restored(s),
         Usable(s, s.cur), NEW t \in Topic, Subscribes(plan.ops, o, t)
  PROVE  GoodSub(plan.ops, Closed, Subscribing(s, o, t))
<1>1. PICK P : P = plan.ops
  OBVIOUS
<1>2. PICK shut : shut = Closed
  OBVIOUS
<1>3. IsProgram(P) /\ Runs(P, shut, s, o) /\ Subscribes(P, o, t)
  BY <1>1, <1>2, PlanIsProgram
<1>4. /\ s \in SubRecord /\ Ready(P, shut, s) /\ AllTold(s)
      /\ o \in DOMAIN P /\ o \in Op /\ o = Head(s.queue)
      /\ s.op[o].at = "running" /\ s.op[o].told = None
      /\ \A u \in Topic : o \notin s.handlers[u]
  BY <1>3, RunsOp
<1>5. CASE \/ Cardinality(s.handlers[t]) >= MaxHandlers
           \/ s.handlers[t] = {} /\ Cardinality(Registered(s)) >= MaxTopics
  <2>1. Ends(P, s, "failed")
    BY <1>4 DEF Ends
  <2>2. Subscribing(s, o, t) = OpOver(s, "failed")
    BY <1>5 DEF Subscribing
  <2>3. QED
    BY <1>1, <1>2, <1>3, <1>4, <2>1, <2>2, OverGood
<1>6. ASSUME ~ \/ Cardinality(s.handlers[t]) >= MaxHandlers
               \/ s.handlers[t] = {} /\ Cardinality(Registered(s)) >= MaxTopics,
             s.handlers[t] # {}
      PROVE  GoodSub(P, shut, Subscribing(s, o, t))
  <2>1. PICK q : q = [s EXCEPT !.handlers[t] = @ \cup {o}]
    OBVIOUS
  <2>2. /\ q \in SubRecord /\ q.handlers = [s.handlers EXCEPT ![t] = @ \cup {o}]
        /\ q.op = s.op /\ q.queue = s.queue /\ SameWires(s, q) /\ q.owed = s.owed
    <3>1. PICK handlers : handlers = [s.handlers EXCEPT ![t] = @ \cup {o}]
      OBVIOUS
    <3>2. handlers \in [Topic -> SUBSET Op]
      BY <1>4, <3>1, SubFields
    <3>3. q = [s EXCEPT !.handlers = handlers]
      BY <2>1, <3>1
    <3>4. q \in SubRecord /\ q.handlers = handlers
      BY <1>4, <3>2, <3>3 DEF SubRecord
    <3>5. QED
      BY <1>4, <3>1, <3>3, <3>4 DEF SubRecord, SameWires
  <2>3. Ready(P, shut, q)
    BY <1>3, <2>2, HandlerReady
  <2>4. \A u \in Topic : q.handlers[u] = IF u = t THEN s.handlers[u] \cup {o}
                                         ELSE s.handlers[u]
    BY <1>4, <2>2, SubFields
  <2>5. Registered(q) = Registered(s) /\ q.cur = s.cur /\ q.sock = s.sock
    BY <1>6, <2>2, <2>4 DEF Registered, SameWires
  <2>6. Restored(q)
    BY <2>5 DEF Restored
  <2>7. Ends(P, q, "ok")
    BY <1>3, <1>4, <2>2, <2>4 DEF Ends, Subscribes
  <2>8. Subscribing(s, o, t) = OpOver(q, "ok")
    BY <1>6, <2>1 DEF Subscribing
  <2>9. QED
    BY <1>3, <2>3, <2>6, <2>7, <2>8, OverGood
<1>7. ASSUME ~ \/ Cardinality(s.handlers[t]) >= MaxHandlers
               \/ s.handlers[t] = {} /\ Cardinality(Registered(s)) >= MaxTopics,
             s.handlers[t] = {}
      PROVE  GoodSub(P, shut, Subscribing(s, o, t))
  <2>1. PICK q : q = [s EXCEPT !.handlers[t] = {o}, !.step = "asking",
                               !.opens = None]
    OBVIOUS
  <2>2. /\ q \in SubRecord /\ q.handlers = [s.handlers EXCEPT ![t] = @ \cup {o}]
        /\ q.op = s.op /\ q.queue = s.queue /\ SameWires(s, q) /\ q.owed = s.owed
        /\ q.step = "asking" /\ q.opens = None
    <3>1. PICK handlers : handlers = [s.handlers EXCEPT ![t] = @ \cup {o}]
      OBVIOUS
    <3>2. /\ handlers \in [Topic -> SUBSET Op]
          /\ handlers = [s.handlers EXCEPT ![t] = {o}]
      BY <1>4, <1>7, <3>1, SubFields
    <3>3. q = [s EXCEPT !.handlers = handlers, !.step = "asking", !.opens = None]
      BY <2>1, <3>2
    <3>4. q \in SubRecord /\ q.handlers = handlers
      BY ZenonT(60), <1>4, <3>2, <3>3 DEF SubRecord
    <3>5. QED
      BY <1>4, <3>1, <3>3, <3>4 DEF SubRecord, SameWires
  <2>3. Ready(P, shut, q)
    BY <1>3, <2>2, HandlerReady
  <2>4. \A u \in Topic : q.handlers[u] = IF u = t THEN {o} ELSE s.handlers[u]
    BY <1>4, <1>7, <2>2, SubFields
  <2>5. Usable(q, q.cur) /\ q.cur = s.cur /\ q.sock = s.sock
    BY <2>2 DEF Usable, SameWires
  <2>6. \A u \in Registered(q) : u \in q.sock[q.cur].subs \/ u = t
    <3>1. s.cur # None /\ Registered(s) \subseteq s.sock[s.cur].subs
      BY DEF Usable, Restored
    <3>2. QED
      BY <2>4, <2>5, <3>1 DEF Registered
  <2>7. \A u \in Topic : \A h \in q.handlers[u] :
          q.op[h].told = "ok" \/ (u = t /\ h = o)
    BY <1>4, <2>2, <2>4 DEF AllTold
  <2>8. RoundTrip(q, "subscribe", t, None) = Subscribing(s, o, t)
    BY <1>7, <2>1 DEF Subscribing
  <2>9. GoodSub(P, shut, RoundTrip(q, "subscribe", t, None))
    <3>1. MayAsk(P, q, "subscribe", t, o)
      BY <1>3, <1>4, <2>2, <2>4, <2>6, <2>7 DEF MayAsk
    <3>2. "subscribe" \in {"subscribe", "unsubscribe"}
      OBVIOUS
    <3>3. QED
      BY <1>3, <2>3, <2>5, <3>1, <3>2, AskGood
  <2>10. QED
    BY <2>8, <2>9
<1>8. QED
  BY <1>1, <1>2, <1>5, <1>6, <1>7

(* There is a connection.                                                  *)
LEMMA ConnectedGood ==
  ASSUME plan \in Plan, NEW s, NEW o, Runs(plan.ops, Closed, s, o), Restored(s),
         Usable(s, s.cur)
  PROVE  GoodSub(plan.ops, Closed, Connected(s, o))
<1>1. PICK P : P = plan.ops
  OBVIOUS
<1>2. PICK shut : shut = Closed
  OBVIOUS
<1>3. IsProgram(P) /\ Runs(P, shut, s, o)
  BY <1>1, <1>2, PlanIsProgram
<1>4. /\ Ready(P, shut, s) /\ o \in DOMAIN P /\ o = Head(s.queue)
      /\ \A t \in Topic : o \notin s.handlers[t]
  BY <1>3, RunsOp
<1>5. CASE P[o].do = "subscribe"
  <2>1. P[o].topic \in Topic /\ Subscribes(P, o, P[o].topic)
    BY <1>3, <1>4, <1>5 DEF IsProgram, Subscribes
  <2>2. Connected(s, o) = Subscribing(s, o, P[o].topic)
    BY <1>1, <1>5 DEF Connected
  <2>3. QED
    BY <1>1, <2>1, <2>2, SubscribingGood
<1>6. CASE P[o].do # "subscribe"
  <2>1. Ends(P, s, "ok")
    BY <1>4, <1>6 DEF Ends
  <2>2. Connected(s, o) = OpOver(s, "ok")
    BY <1>1, <1>6 DEF Connected
  <2>3. QED
    BY <1>1, <1>2, <1>3, <1>4, <2>1, <2>2, OverGood
<1>7. QED
  BY <1>5, <1>6

(* Connection k is the current one; what it has to restore is left.        *)
Restores(P, shut, s, k) ==
  /\ Runs(P, shut, s, Head(s.queue)) /\ s.step = "opening"
  /\ s.opens = k /\ s.cur = k /\ Usable(s, k)
  /\ Registered(s) \subseteq s.sock[k].subs \cup s.sock[k].left

LEMMA RestoreGood ==
  ASSUME plan \in Plan, NEW s, NEW k \in Sock,
         Restores(plan.ops, Closed, s, k)
  PROVE  GoodSub(plan.ops, Closed, Restore(s, k))
<1>1. PICK P : P = plan.ops
  OBVIOUS
<1>2. PICK shut : shut = Closed
  OBVIOUS
<1>3. IsProgram(P) /\ Restores(P, shut, s, k)
  BY <1>1, <1>2, PlanIsProgram
<1>4. PICK h : h = Head(s.queue)
  OBVIOUS
<1>5. /\ Runs(P, shut, s, h) /\ Ready(P, shut, s) /\ s \in SubRecord
      /\ s.op[h].at = "running" /\ s.op[h].told = None /\ AllTold(s)
      /\ s.step = "opening" /\ s.opens = k /\ s.cur = k /\ Usable(s, s.cur)
      /\ Registered(s) \subseteq s.sock[k].subs \cup s.sock[k].left
  BY <1>3, <1>4 DEF Restores, Runs, Ready
<1>6. CASE s.sock[k].left # {}
  <2>1. PICK t \in s.sock[k].left : t = CHOOSE u \in s.sock[k].left : TRUE
    BY <1>6
  <2>2. Restore(s, k) = RoundTrip(s, "subscribe", t, k)
    BY <1>6, <2>1 DEF Restore
  <2>3. GoodSub(P, shut, RoundTrip(s, "subscribe", t, k))
    BY <1>3, <1>4, <1>5, AskAgainGood
  <2>4. QED
    BY <1>1, <1>2, <2>2, <2>3
<1>7. CASE s.sock[k].left = {}
  <2>1. PICK q : q = [s EXCEPT !.dial = None]
    OBVIOUS
  <2>2. /\ q \in SubRecord /\ q.cur = s.cur /\ q.gen = s.gen /\ q.sock = s.sock
        /\ q.waiter = s.waiter /\ q.op = s.op /\ q.queue = s.queue
        /\ q.handlers = s.handlers /\ q.owed = s.owed
    BY <1>5, <2>1 DEF SubRecord
  <2>3. Wired(q) /\ Owing(q) /\ \A j \in Sock : ~ Wanted(q, j)
    BY <1>5, <2>2 DEF Ready, Wired, Wanted, Owing
  <2>4. Registers(P, shut, q)
    BY <1>5, <2>2 DEF Ready, Registers, GivenUp
  <2>5. Ready(P, shut, q)
    BY <1>5, <2>2, <2>3, <2>4 DEF Ready
  <2>6. Runs(P, shut, q, h)
    BY <1>4, <1>5, <2>2, <2>5 DEF Runs, AllTold
  <2>7. Restored(q) /\ Usable(q, q.cur)
    BY <1>5, <1>7, <2>2 DEF Restored, Registered, Usable
  <2>8. Restore(s, k) = Connected(q, h)
    BY <1>4, <1>5, <1>7, <2>1 DEF Restore
  <2>9. GoodSub(plan.ops, Closed, Connected(q, h))
    BY <1>1, <1>2, <2>6, <2>7, ConnectedGood
  <2>10. QED
    BY <2>8, <2>9
<1>8. QED
  BY <1>6, <1>7

LEMMA OpenedRestores ==
  ASSUME NEW P, NEW shut, NEW s, GoodSub(P, shut, s), NEW k \in Sock,
         Wanted(s, k), NEW q, q \in SubRecord, q.cur = k,
         q.sock[k] = [s.sock[k] EXCEPT !.at = "up"],
         \A j \in Sock \ {k} : q.sock[j] = s.sock[j],
         q.op = s.op, q.queue = s.queue, q.step = s.step, q.opens = s.opens,
         q.gen = s.gen, q.waiter = s.waiter, q.handlers = s.handlers,
         q.owed = s.owed
  PROVE  Restores(P, shut, q, k)
<1>1. /\ Sound(P, shut, s) /\ s \in SubRecord /\ s.sock[k] \in SockState
      /\ Wired(s) /\ Owing(s) /\ Registers(P, shut, s)
  BY SubFields DEF GoodSub, Sound
<1>2. /\ s.sock[k].at \in {"dialing", "auth"} /\ ~ s.sock[k].broken
      /\ s.opens = k /\ s.cur = None
  BY <1>1 DEF Wanted, Wired, Sound, Dialed
<1>3. s.waiter = None /\ s.step = "opening" /\ AllTold(s) /\ s.queue # <<>>
  BY <1>1, <1>2, OpeningFacts
<1>4. PICK h : h = Head(s.queue)
  OBVIOUS
<1>5. s.op[h].told = None /\ s.op[h].at = "running"
  BY <1>1, <1>3, <1>4 DEF GoodSub, Untold, Sound, Lined
<1>6. /\ q.sock[k].at = "up" /\ ~ q.sock[k].broken
      /\ q.sock[k].gen <= s.gen
      /\ q.sock[k].asked = None /\ q.sock[k].told = <<>> /\ q.sock[k].subs = {}
      /\ q.sock[k].left = s.sock[k].left
  BY <1>1, <1>2 DEF Wired, SockState
<1>7. \A j \in Sock \ {k} : ~ Wanted(s, j) /\ s.sock[j].at # "up"
  BY <1>1, <1>2, SubscriberAssumption DEF Sound, Dialed, Wired
<1>8. Wired(q)
  <2>1. ASSUME NEW j \in Sock, j # k
        PROVE  /\ q.sock[j].at # "up" /\ q.cur # j
               /\ q.sock[j].gen <= q.gen
               /\ q.sock[j].at = "dialing" => ~ q.sock[j].broken
               /\ q.sock[j].asked = None
               /\ q.sock[j].told = <<>> /\ q.sock[j].subs = {}
    BY <1>1, <1>7, <2>1 DEF Wired
  <2>2. q.sock[k].at = "up" /\ q.cur = k /\ q.sock[k].gen <= q.gen
    BY <1>6
  <2>3. QED
    BY <2>1, <2>2 DEF Wired
<1>9. \A j \in Sock : ~ Wanted(q, j)
  <2>1. ASSUME NEW j \in Sock, j # k
        PROVE  ~ Wanted(q, j)
    <3>1. ~ Wanted(s, j) /\ q.sock[j] = s.sock[j]
      BY <1>7, <2>1
    <3>2. QED
      BY <3>1 DEF Wanted
  <2>2. ~ Wanted(q, k)
    BY <1>6 DEF Wanted
  <2>3. QED
    BY <2>1, <2>2
<1>10. Owing(q)
  <2>1. \A o \in Op : q.owed[o] = {}
    BY <1>1, <1>2 DEF Owing
  <2>2. \A t \in Topic : q.handlers[t] \subseteq Op
    BY SubFields
  <2>3. QED
    BY <2>1, <2>2 DEF Owing
<1>11. Registers(P, shut, q)
  BY <1>1 DEF Registers, GivenUp
<1>12. AllTold(q) /\ \A t \in Topic : \A o \in q.handlers[t] : Subscribes(P, o, t)
  BY <1>1, <1>3 DEF AllTold, Sound, Handled
<1>13. OnlyNews(q.sock[k].told)
  BY <1>6 DEF OnlyNews
<1>14. /\ q.queue \in Seq(DOMAIN P) /\ q.queue # <<>>
       /\ \A o \in Op : q.op[o].at = "running" => o = Head(q.queue)
  BY <1>1, <1>3 DEF Sound, Lined
<1>15. Ready(P, shut, q)
  BY <1>3, <1>6, <1>8, <1>9, <1>10, <1>11, <1>12, <1>13, <1>14 DEF Ready, AllTold
<1>16. Registered(q) \subseteq q.sock[k].left
  <2>1. k # None
    BY SubscriberAssumption
  <2>2. QED
    BY <1>1, <1>2, <1>6, <2>1 DEF Sound, Covered, Registered
<1>17. Usable(q, k)
  BY <1>6, SubscriberAssumption DEF Usable
<1>18. Runs(P, shut, q, Head(q.queue))
  BY <1>4, <1>5, <1>12, <1>15 DEF Runs
<1>19. QED
  BY <1>2, <1>3, <1>16, <1>17, <1>18 DEF Restores

LEMMA OpenGood ==
  ASSUME NEW P, IsProgram(P), NEW shut, NEW s, NEW o, Runs(P, shut, s, o),
         s.cur = None, NEW k \in Sock, s.sock[k].at = "none"
  PROVE  GoodSub(P, shut, Open(s, k))
<1>1. /\ s \in SubRecord /\ Ready(P, shut, s) /\ AllTold(s)
      /\ o = Head(s.queue) /\ s.op[o].at = "running" /\ s.op[o].told = None
      /\ o \in Op
  BY RunsOp
<1>2. PICK z : z = [NoSock EXCEPT !.at = "dialing", !.gen = s.gen,
                                  !.left = Registered(s)]
  OBVIOUS
<1>3. /\ z \in SockState /\ z.at = "dialing" /\ ~ z.broken /\ z.gen = s.gen
      /\ z.left = Registered(s) /\ z.asked = None /\ z.told = <<>> /\ z.subs = {}
  <2>1. s.gen \in Nat /\ Registered(s) \subseteq Topic
    BY <1>1, SubFields DEF Registered
  <2>2. QED
    BY <1>2, <2>1, NoSockType DEF SockState
<1>4. PICK q : q = Open(s, k)
  OBVIOUS
<1>5. /\ q \in SubRecord /\ q.sock[k] = z /\ q.step = "opening" /\ q.opens = k
      /\ \A j \in Sock \ {k} : q.sock[j] = s.sock[j]
      /\ q.op = s.op /\ q.queue = s.queue /\ q.cur = None /\ q.gen = s.gen
      /\ q.waiter = None /\ q.handlers = s.handlers /\ q.owed = s.owed
  <2>1. PICK sock : sock = [s.sock EXCEPT ![k] = z]
    OBVIOUS
  <2>2. /\ sock \in [Sock -> SockState] /\ sock[k] = z
        /\ \A j \in Sock \ {k} : sock[j] = s.sock[j]
    BY <1>1, <1>3, <2>1, SubFields
  <2>3. q = [s EXCEPT !.step = "opening", !.opens = k, !.sock = sock]
    BY <1>1, <1>2, <1>4, <2>1 DEF Open, SubRecord
  <2>4. q \in SubRecord /\ q.sock = sock
    BY <1>1, <2>2, <2>3 DEF SubRecord
  <2>5. QED
    BY <1>1, <2>2, <2>3, <2>4 DEF SubRecord, Ready
<1>6. k # None /\ s.gen \in Nat
  BY <1>1, SubscriberAssumption, SubFields
<1>7. Wired(q)
  <2>1. Wired(s)
    BY <1>1 DEF Ready
  <2>2. QED
    BY <1>3, <1>5, <1>6, <2>1 DEF Wired
<1>8. \A j \in Sock : Wanted(q, j) => j = k
  BY <1>1, <1>5 DEF Ready, Wanted
<1>9. Dialed(q)
  BY <1>3, <1>5, <1>6, <1>8 DEF Dialed
<1>10. Lined(P, q)
  BY <1>1, <1>5, SubscriberAssumption DEF Lined, Ready
<1>11. Waited(P, q)
  BY <1>5 DEF Waited
<1>12. Covered(q)
  BY <1>3, <1>5 DEF Covered, Registered
<1>13. Handled(P, q)
  BY <1>1, <1>5 DEF Handled, AllTold, Ready
<1>14. Registers(P, shut, q)
  BY <1>1, <1>5 DEF Ready, Registers, GivenUp
<1>15. Owing(q)
  <2>1. \A u \in Op : q.owed[u] = {}
    BY <1>1, <1>5 DEF Ready, Owing
  <2>2. \A t \in Topic : q.handlers[t] \subseteq Op
    BY <1>5, SubFields
  <2>3. QED
    BY <2>1, <2>2 DEF Owing
<1>16. Untold(q)
  BY <1>1, <1>5 DEF Untold
<1>17. QED
  BY <1>4, <1>5, <1>7, <1>9, <1>10, <1>11, <1>12, <1>13, <1>14, <1>15, <1>16
  DEF GoodSub, Sound

LEMMA TornRuns ==
  ASSUME NEW P, IsProgram(P), NEW shut, NEW s, NEW o, Runs(P, shut, s, o),
         NEW q, q = Torn(s)
  PROVE  /\ Runs(P, shut, q, o) /\ Restored(q) /\ q.cur = None
         /\ CloseSub(s) = q
         /\ \A k \in Sock : s.sock[k].at = "none" => q.sock[k].at = "none"
<1>1. s \in SubRecord /\ Ready(P, shut, s) /\ s.waiter = None
  BY RunsOp DEF Ready
<1>2. Ready(P, shut, q) /\ Restored(q)
  BY <1>1, ReadyLoose, TornReady
<1>3. q.cur = None /\ q.op = s.op /\ q.queue = s.queue /\ q.handlers = s.handlers
  BY <1>1, TornFields
<1>4. Runs(P, shut, q, o)
  BY <1>2, <1>3 DEF Runs, AllTold
<1>5. CloseSub(s) = q
  BY <1>1 DEF CloseSub, RoundTripFails
<1>6. \A k \in Sock : s.sock[k].at = "none" => q.sock[k].at = "none"
  <2>1. \A k \in Sock : s.sock[k].at = "auth" /\ ~ s.sock[k].broken => s.dial = k
    BY <1>1 DEF Ready, Wanted
  <2>2. Wired(s)
    BY <1>1 DEF Ready
  <2>3. QED
    BY <1>1, <2>1, <2>2, TornWires
<1>7. QED
  BY <1>2, <1>3, <1>4, <1>5, <1>6

LEMMA EnsureGood ==
  ASSUME plan \in Plan, NEW s, NEW o, Runs(plan.ops, Closed, s, o), Restored(s),
         NEW k \in Sock, s.sock[k].at = "none"
  PROVE  GoodSub(plan.ops, Closed, Ensure(s, o, k))
<1>1. PICK P : P = plan.ops
  OBVIOUS
<1>2. PICK shut : shut = Closed
  OBVIOUS
<1>3. IsProgram(P) /\ Runs(P, shut, s, o)
  BY <1>1, <1>2, PlanIsProgram
<1>4. CASE Usable(s, s.cur)
  BY <1>4, ConnectedGood DEF Ensure
<1>5. CASE ~ Usable(s, s.cur) /\ s.cur # None
  <2>1. PICK q : q = Torn(s)
    OBVIOUS
  <2>2. /\ Runs(P, shut, q, o) /\ q.cur = None /\ CloseSub(s) = q
        /\ q.sock[k].at = "none"
    BY <1>3, <2>1, TornRuns
  <2>3. GoodSub(P, shut, Open(q, k))
    BY <1>3, <2>2, OpenGood
  <2>4. QED
    BY <1>1, <1>2, <1>5, <2>2, <2>3 DEF Ensure
<1>6. CASE ~ Usable(s, s.cur) /\ s.cur = None
  <2>1. GoodSub(P, shut, Open(s, k))
    BY <1>3, <1>6, OpenGood
  <2>2. QED
    BY <1>1, <1>2, <1>6, <2>1 DEF Ensure
<1>7. QED
  BY <1>4, <1>5, <1>6

LEMMA ReconnectingGood ==
  ASSUME plan \in Plan, NEW s, NEW o, Runs(plan.ops, Closed, s, o),
         plan.ops[o].do # "subscribe", NEW k \in Sock, s.sock[k].at = "none"
  PROVE  GoodSub(plan.ops, Closed, Reconnecting(s, o, k))
<1>1. PICK P : P = plan.ops
  OBVIOUS
<1>2. PICK shut : shut = Closed
  OBVIOUS
<1>3. IsProgram(P) /\ Runs(P, shut, s, o) /\ P[o].do # "subscribe"
  BY <1>1, <1>2, PlanIsProgram
<1>4. PICK q : q = Torn(s)
  OBVIOUS
<1>5. /\ Runs(P, shut, q, o) /\ Restored(q) /\ CloseSub(s) = q
      /\ q.sock[k].at = "none"
  BY <1>3, <1>4, TornRuns
<1>6. CASE Registered(s) = {}
  <2>1. Ready(P, shut, q) /\ o = Head(q.queue) /\ \A t \in Topic : o \notin q.handlers[t]
    BY <1>3, <1>5, RunsOp
  <2>2. Ends(P, q, "ok")
    BY <1>3, <2>1 DEF Ends
  <2>3. Reconnecting(s, o, k) = OpOver(q, "ok")
    BY <1>5, <1>6 DEF Reconnecting
  <2>4. QED
    BY <1>1, <1>2, <1>3, <1>5, <2>1, <2>2, <2>3, OverGood
<1>7. CASE Registered(s) # {}
  <2>1. Reconnecting(s, o, k) = Ensure(q, o, k)
    BY <1>5, <1>7 DEF Reconnecting
  <2>2. QED
    BY <1>1, <1>2, <1>5, <2>1, EnsureGood
<1>8. QED
  BY <1>6, <1>7

LEMMA UnsubscribingGood ==
  ASSUME plan \in Plan, NEW s, NEW o, Runs(plan.ops, Closed, s, o), Restored(s),
         s.opens = None, plan.ops[o].do = "unsubscribe"
  PROVE  GoodSub(plan.ops, Closed, Unsubscribing(s, o))
<1>1. PICK P : P = plan.ops
  OBVIOUS
<1>2. PICK shut : shut = Closed
  OBVIOUS
<1>3. IsProgram(P) /\ Runs(P, shut, s, o) /\ P[o].do = "unsubscribe"
  BY <1>1, <1>2, PlanIsProgram
<1>4. /\ s \in SubRecord /\ Ready(P, shut, s) /\ AllTold(s)
      /\ o \in DOMAIN P /\ o \in Op /\ o = Head(s.queue)
      /\ s.op[o].at = "running" /\ s.op[o].told = None
      /\ \A t \in Topic : o \notin s.handlers[t]
  BY <1>3, RunsOp
<1>5. PICK h : h = P[o].of
  OBVIOUS
<1>6. h \in Op /\ h \in DOMAIN P /\ P[h].do = "subscribe" /\ P[h].topic \in Topic
  BY <1>3, <1>4, <1>5 DEF IsProgram
<1>7. PICK t \in Topic : t = P[h].topic
  BY <1>6
<1>8. PICK q : q = Forget(s, h)
  OBVIOUS
<1>9. /\ q \in SubRecord /\ q.op = s.op /\ q.queue = s.queue
      /\ q.opens = None /\ q.cur = s.cur /\ q.sock = s.sock
      /\ \A u \in Topic : q.handlers[u] = s.handlers[u] \ {h}
  BY <1>4, <1>8, ForgetFields DEF SameWires
<1>10. Ready(P, shut, q) /\ Restored(q)
  <2>1. GivenUp(P, s, h)
    BY <1>3, <1>4, <1>5 DEF GivenUp
  <2>2. QED
    BY <1>3, <1>4, <1>6, <1>8, <2>1, ForgetReady
<1>11. CASE h \notin s.handlers[t] \/ q.handlers[t] # {}
  <2>1. Ends(P, q, "ok")
    BY <1>3, <1>4, <1>9 DEF Ends
  <2>2. Unsubscribing(s, o) = OpOver(q, "ok")
    BY <1>1, <1>5, <1>7, <1>8, <1>11 DEF Unsubscribing
  <2>3. QED
    BY <1>1, <1>2, <1>3, <1>10, <2>1, <2>2, OverGood
<1>12. CASE /\ ~ (h \notin s.handlers[t] \/ q.handlers[t] # {})
            /\ s.cur = None
  <2>1. Unsubscribing(s, o) = AfterUnsub(q)
    BY <1>1, <1>5, <1>7, <1>8, <1>12 DEF Unsubscribing
  <2>2. P[Head(q.queue)].do = "unsubscribe"
    BY <1>3, <1>4, <1>9
  <2>3. QED
    BY <1>1, <1>2, <1>3, <1>10, <2>1, <2>2, AfterUnsubGood
<1>13. CASE /\ ~ (h \notin s.handlers[t] \/ q.handlers[t] # {})
            /\ s.cur # None
  <2>1. PICK x : x = [q EXCEPT !.step = "asking"]
    OBVIOUS
  <2>2. /\ x \in SubRecord /\ x.op = q.op /\ x.queue = q.queue
        /\ x.step = "asking" /\ x.opens = None
        /\ x.handlers = q.handlers /\ x.owed = q.owed
        /\ x.cur = q.cur /\ x.gen = q.gen /\ x.sock = q.sock
        /\ x.waiter = q.waiter
    BY <1>9, <2>1 DEF SubRecord
  <2>3. Ready(P, shut, x)
    <3>1. Wired(x) /\ Owing(x) /\ \A j \in Sock : ~ Wanted(x, j)
      BY <1>10, <2>2 DEF Ready, Wired, Owing, Wanted
    <3>2. Registers(P, shut, x)
      BY <1>10, <2>2 DEF Ready, Registers, GivenUp
    <3>3. QED
      BY <1>10, <2>2, <3>1, <3>2 DEF Ready
  <2>4. Restored(x)
    BY <1>10, <2>2 DEF Restored, Registered
  <2>5. Unsubscribing(s, o) = RoundTrip(x, "unsubscribe", t, None)
    BY <1>1, <1>5, <1>7, <1>8, <1>13, <2>1 DEF Unsubscribing
  <2>6. CASE Usable(x, x.cur)
    <3>1. \A u \in Registered(x) : u \in x.sock[x.cur].subs
      BY <2>4, <2>6 DEF Restored, Usable
    <3>2. MayAsk(P, x, "unsubscribe", t, o)
      BY <1>3, <1>4, <1>9, <1>13, <2>2, <3>1 DEF MayAsk, AllTold
    <3>3. "unsubscribe" \in {"subscribe", "unsubscribe"}
      OBVIOUS
    <3>4. GoodSub(P, shut, RoundTrip(x, "unsubscribe", t, None))
      BY <1>3, <2>3, <2>6, <3>2, <3>3, AskGood
    <3>5. QED
      BY <1>1, <1>2, <2>5, <3>4
  <2>7. CASE ~ Usable(x, x.cur)
    <3>1. PICK w : w = [cmd |-> "unsubscribe", topic |-> t, open |-> None]
      OBVIOUS
    <3>2. w # None /\ w.open = None /\ w.cmd = "unsubscribe"
      BY <3>1, NoneIsNoCommand DEF RoundTripOf
    <3>3. RoundTrip(x, "unsubscribe", t, None) = AfterUnsub(x)
      BY <2>7, <3>1, <3>2 DEF RoundTrip, RoundTripFails
    <3>4. P[Head(x.queue)].do = "unsubscribe"
      BY <1>3, <1>4, <1>9, <2>2
    <3>5. GoodSub(P, shut, AfterUnsub(x))
      BY <1>3, <2>3, <2>4, <3>4, AfterUnsubGood
    <3>6. QED
      BY <1>1, <1>2, <2>5, <3>3, <3>5
  <2>8. QED
    BY <2>6, <2>7
<1>14. QED
  BY <1>11, <1>12, <1>13

-----------------------------------------------------------------------------
(* What the operations do from outside.                                    *)

(* An operation that does not run changes, and may be the last now.        *)
LEMMA AsideGood ==
  ASSUME NEW P, IsProgram(P), NEW shut, NEW s, GoodSub(P, shut, s),
         NEW o \in Op, s.op[o].at \in {"new", "queued"},
         NEW q, q \in SubRecord, q.op[o].at \in {"queued", "over"},
         q.op[o].told = "ok" <=> s.op[o].told = "ok",
         \A u \in Op \ {o} : q.op[u] = s.op[u],
         q.queue = s.queue \/ (o \in DOMAIN P /\ q.queue = Append(s.queue, o)),
         SameWires(s, q), q.step = s.step, q.opens = s.opens,
         q.handlers = s.handlers, q.owed = s.owed
  PROVE  GoodSub(P, shut, q)
<1>1. /\ s \in SubRecord
      /\ q.cur = s.cur /\ q.dial = s.dial /\ q.gen = s.gen /\ q.sock = s.sock
      /\ q.waiter = s.waiter
  BY DEF GoodSub, Sound, SameWires
<1>2. s.step # "idle" => /\ s.queue # <<>> /\ Head(q.queue) = Head(s.queue)
                         /\ q.queue # <<>> /\ Head(s.queue) # o
                         /\ Head(s.queue) \in Op
  <2>1. ASSUME s.step # "idle"
        PROVE  s.queue # <<>> /\ s.op[Head(s.queue)].at = "running"
    BY <2>1 DEF GoodSub, Sound, Lined
  <2>2. s.queue \in Seq(Op)
    BY <1>1, SubFields
  <2>3. s.queue # <<>> => /\ Head(Append(s.queue, o)) = Head(s.queue)
                          /\ Append(s.queue, o) # <<>> /\ Head(s.queue) \in Op
    BY <1>1, <2>2
  <2>4. QED
    BY <2>1, <2>3
<1>3. Lined(P, q)
  <2>1. s.queue \in Seq(DOMAIN P)
    BY DEF GoodSub, Sound, Lined
  <2>2. PICK D : D = DOMAIN P
    OBVIOUS
  <2>3. q.queue \in Seq(D)
    BY <2>1, <2>2
  <2>4. QED
    BY <1>1, <1>2, <2>2, <2>3 DEF GoodSub, Sound, Lined
<1>4. Wired(q) /\ Dialed(q)
  BY <1>1 DEF GoodSub, Sound, Wired, Dialed, Wanted
<1>5. Waited(P, q)
  <2>1. s.waiter # None /\ s.waiter.open = None /\ Expects(P, s, s.waiter)
          => s.step # "idle"
    BY DEF Expects
  <2>2. QED
    BY <1>1, <1>2, <2>1 DEF GoodSub, Sound, Waited, Expects
<1>6. Covered(q)
  BY <1>1 DEF GoodSub, Sound, Covered, Registered
<1>7. \A t \in Topic : s.handlers[t] \subseteq Op
  BY <1>1, SubFields
<1>8. Handled(P, q)
  <2>1. ASSUME NEW t \in Topic, NEW u \in q.handlers[t]
        PROVE  Subscribes(P, u, t) /\ (q.op[u].told = "ok" \/ Registering(q, u, t))
    <3>1. Subscribes(P, u, t) /\ (s.op[u].told = "ok" \/ Registering(s, u, t))
      BY <2>1 DEF GoodSub, Sound, Handled
    <3>2. q.op[u].told = "ok" <=> s.op[u].told = "ok"
      BY <1>7, <2>1
    <3>3. Registering(s, u, t) => Registering(q, u, t)
      BY <1>1, <1>2 DEF Registering
    <3>4. QED
      BY <3>1, <3>2, <3>3
  <2>2. QED
    BY <2>1 DEF Handled
<1>9. Registers(P, shut, q)
  <2>1. \A u \in DOMAIN P : GivenUp(P, s, u) => GivenUp(P, q, u)
    BY DEF GivenUp, IsProgram
  <2>2. \A u \in DOMAIN P : q.op[u].told = "ok" <=> s.op[u].told = "ok"
    BY DEF IsProgram
  <2>3. QED
    BY <2>1, <2>2 DEF GoodSub, Sound, Registers
<1>10. Owing(q)
  <2>1. Owing(s)
    BY DEF GoodSub, Sound
  <2>2. \A u \in Op : q.op[u].told = "ok" <=> s.op[u].told = "ok"
    OBVIOUS
  <2>3. QED
    BY <1>1, <2>1, <2>2 DEF Owing
<1>11. Untold(q)
  <2>1. \A k \in Sock : Wanted(s, k) => s.step # "idle"
    BY SubscriberAssumption DEF GoodSub, Sound, Dialed
  <2>2. s.cur # None /\ s.opens = s.cur => s.step # "idle"
    BY DEF GoodSub, Sound, Dialed
  <2>3. \A k \in Sock : Wanted(q, k) <=> Wanted(s, k)
    BY <1>1 DEF Wanted
  <2>4. s.step # "idle" => q.op[Head(q.queue)] = s.op[Head(s.queue)]
    BY <1>2
  <2>5. QED
    BY <1>1, <2>1, <2>2, <2>3, <2>4 DEF GoodSub, Untold
<1>12. QED
  BY <1>3, <1>4, <1>5, <1>6, <1>8, <1>9, <1>10, <1>11 DEF GoodSub, Sound

LEMMA IdleReady ==
  ASSUME NEW P, NEW shut, NEW s, Sound(P, shut, s), s.step = "idle",
         s.queue # <<>>
  PROVE  /\ Ready(P, shut, s) /\ Restored(s) /\ AllTold(s) /\ s.opens = None
<1>1. s.opens = None /\ \A k \in Sock : ~ Wanted(s, k)
  BY SubscriberAssumption DEF Sound, Dialed
<1>2. s.waiter = None
  BY <1>1 DEF Sound, Waited, Expects
<1>3. AllTold(s) /\ \A t \in Topic : \A o \in s.handlers[t] : Subscribes(P, o, t)
  BY DEF Sound, AllTold, Handled, Registering
<1>4. Restored(s)
  BY <1>1, <1>2 DEF Sound, Covered, Restored
<1>5. s.queue \in Seq(DOMAIN P) /\ \A o \in Op : s.op[o].at # "running"
  BY DEF Sound, Lined
<1>6. s.cur # None => s.sock[s.cur].asked = None /\ OnlyNews(s.sock[s.cur].told)
  BY <1>2 DEF Sound, Waited
<1>7. s \in SubRecord /\ Wired(s) /\ Registers(P, shut, s) /\ Owing(s)
  BY DEF Sound
<1>8. Ready(P, shut, s)
  BY <1>1, <1>2, <1>3, <1>5, <1>6, <1>7 DEF Ready, AllTold
<1>9. QED
  BY <1>1, <1>3, <1>4, <1>8

LEMMA SubCallStep ==
  ASSUME SubInv, NEW o \in Op, SubCall(o)
  PROVE  GoodSub(plan.ops, Closed, sub')
<1>1. PICK P : P = plan.ops
  OBVIOUS
<1>2. PICK shut : shut = Closed
  OBVIOUS
<1>3. /\ IsProgram(P) /\ GoodSub(P, shut, sub) /\ sub \in SubRecord
      /\ o \in DOMAIN P /\ sub.op[o].at = "new"
  BY <1>1, <1>2, PlanIsProgram DEF SubInv, SubCall, Callable, GoodSub, Sound
<1>4. sub.op[o] \in OpState /\ sub.op[o].told = None
  BY <1>3, SubFields DEF OpState
<1>5. CASE Closed /\ plan.ops[o].do = "reconnect"
  <2>1. PICK new : new = [at |-> "over", told |-> "failed"]
    OBVIOUS
  <2>2. new \in OpState /\ new.at = "over" /\ new.told = "failed"
    BY <2>1 DEF OpState
  <2>3. PICK op : op = [sub.op EXCEPT ![o] = new]
    OBVIOUS
  <2>4. /\ op \in [Op -> OpState] /\ op[o] = new
        /\ \A u \in Op \ {o} : op[u] = sub.op[u]
    BY <1>3, <2>2, <2>3, SubFields
  <2>5. PICK q : q = [sub EXCEPT !.op = op]
    OBVIOUS
  <2>6. /\ q \in SubRecord /\ q.op = op /\ q.queue = sub.queue
        /\ SameWires(sub, q) /\ q.step = sub.step /\ q.opens = sub.opens
        /\ q.handlers = sub.handlers /\ q.owed = sub.owed
    BY <1>3, <2>4, <2>5 DEF SubRecord, SameWires
  <2>7. GoodSub(P, shut, q)
    BY <1>3, <1>4, <2>2, <2>4, <2>6, AsideGood, SubscriberAssumption
  <2>8. sub' = q
    BY <1>5, <2>1, <2>3, <2>5 DEF SubCall
  <2>9. QED
    BY <1>1, <1>2, <2>7, <2>8
<1>6. CASE ~ (Closed /\ plan.ops[o].do = "reconnect")
  <2>1. PICK new : new = [sub.op[o] EXCEPT !.at = "queued"]
    OBVIOUS
  <2>2. new \in OpState /\ new.at = "queued" /\ new.told = None
    BY <1>3, <1>4, <2>1 DEF OpState
  <2>3. PICK op : op = [sub.op EXCEPT ![o] = new]
    OBVIOUS
  <2>4. /\ op \in [Op -> OpState] /\ op[o] = new
        /\ \A u \in Op \ {o} : op[u] = sub.op[u]
    BY <1>3, <2>2, <2>3, SubFields
  <2>5. PICK queue : queue = Append(sub.queue, o)
    OBVIOUS
  <2>6. queue \in Seq(Op)
    BY <1>3, <2>5, SubFields
  <2>7. PICK q : q = [sub EXCEPT !.op = op, !.queue = queue]
    OBVIOUS
  <2>8. /\ q \in SubRecord /\ q.op = op /\ q.queue = queue
        /\ SameWires(sub, q) /\ q.step = sub.step /\ q.opens = sub.opens
        /\ q.handlers = sub.handlers /\ q.owed = sub.owed
    BY <1>3, <2>4, <2>6, <2>7 DEF SubRecord, SameWires
  <2>9. GoodSub(P, shut, q)
    BY <1>3, <1>4, <2>2, <2>4, <2>5, <2>8, AsideGood
  <2>10. sub' = q
    BY <1>6, <2>1, <2>3, <2>5, <2>7 DEF SubCall
  <2>11. QED
    BY <1>1, <1>2, <2>9, <2>10
<1>7. QED
  BY <1>5, <1>6

LEMMA BeginOpStep ==
  ASSUME SubInv, BeginOp
  PROVE  GoodSub(plan.ops, Closed, sub')
<1>1. PICK P : P = plan.ops
  OBVIOUS
<1>2. PICK shut : shut = Closed
  OBVIOUS
<1>3. /\ plan \in Plan /\ IsProgram(P) /\ Sound(P, shut, sub) /\ sub \in SubRecord
      /\ sub.queue # <<>> /\ sub.step = "idle"
  BY <1>1, <1>2, PlanIsProgram DEF SubInv, BeginOp, GoodSub, Sound
<1>4. PICK o : o = Head(sub.queue)
  OBVIOUS
<1>5. PICK k \in Sock : /\ sub.sock[k].at = "none"
                        /\ sub' = IF sub.op[o].told # None \/ Closed
                                  THEN OpOver(sub, "failed")
                                  ELSE Run([sub EXCEPT !.op[o].at = "running",
                                                       !.step = "running"], o, k)
  BY <1>4 DEF BeginOp, Unused
<1>6. Ready(P, shut, sub) /\ Restored(sub) /\ AllTold(sub) /\ sub.opens = None
  BY <1>3, IdleReady
<1>7. o \in DOMAIN P /\ o \in Op
  <2>1. sub.queue \in Seq(DOMAIN P)
    BY <1>6 DEF Ready
  <2>2. o \in DOMAIN P
    BY <1>3, <1>4, <2>1, HeadTailProperties
  <2>3. QED
    BY <1>3, <2>2 DEF IsProgram
<1>8. CASE sub.op[o].told # None \/ Closed
  <2>1. Ends(P, sub, "failed")
    BY <1>6 DEF Ends, AllTold
  <2>2. QED
    BY <1>1, <1>2, <1>3, <1>5, <1>6, <1>8, <2>1, OverGood
<1>9. CASE ~ (sub.op[o].told # None \/ Closed)
  <2>1. PICK new : new = [sub.op[o] EXCEPT !.at = "running"]
    OBVIOUS
  <2>2. new \in OpState /\ new.at = "running" /\ new.told = None
    <3>1. sub.op[o] \in OpState
      BY <1>3, <1>7, SubFields
    <3>2. QED
      BY <1>9, <2>1, <3>1 DEF OpState
  <2>3. PICK op : op = [sub.op EXCEPT ![o] = new]
    OBVIOUS
  <2>4. /\ op \in [Op -> OpState] /\ op[o] = new
        /\ \A u \in Op \ {o} : op[u] = sub.op[u]
    BY <1>3, <1>7, <2>2, <2>3, SubFields
  <2>5. PICK s : s = [sub EXCEPT !.op = op, !.step = "running"]
    OBVIOUS
  <2>6. /\ s \in SubRecord /\ s.op = op /\ s.queue = sub.queue
        /\ s.cur = sub.cur /\ s.gen = sub.gen /\ s.sock = sub.sock
        /\ s.waiter = sub.waiter /\ s.opens = sub.opens
        /\ s.handlers = sub.handlers /\ s.owed = sub.owed
    BY <1>3, <2>4, <2>5 DEF SubRecord
  <2>7. None # "ok" /\ \A t \in Topic : sub.handlers[t] \subseteq Op
    BY <1>3, SubscriberAssumption, SubFields
  <2>8. \A t \in Topic : o \notin sub.handlers[t]
    BY <1>6, <1>9, <2>7 DEF AllTold
  <2>9. AllTold(s)
    BY <1>6, <2>4, <2>6, <2>7, <2>8 DEF AllTold
  <2>10. Wired(s) /\ \A j \in Sock : ~ Wanted(s, j)
    BY <1>6, <2>6 DEF Ready, Wired, Wanted
  <2>11. Registers(P, shut, s)
    <3>1. \A u \in DOMAIN P : GivenUp(P, sub, u) => GivenUp(P, s, u)
      BY <1>3, <2>2, <2>4, <2>6 DEF GivenUp, IsProgram
    <3>2. \A u \in DOMAIN P : s.op[u].told = sub.op[u].told
      BY <1>3, <1>9, <2>2, <2>4, <2>6 DEF IsProgram
    <3>3. QED
      BY <1>6, <2>6, <3>1, <3>2 DEF Ready, Registers
  <2>12. Owing(s)
    <3>1. \A u \in Op : s.op[u].told = sub.op[u].told
      BY <1>9, <2>2, <2>4, <2>6
    <3>2. Owing(sub)
      BY <1>6 DEF Ready
    <3>3. QED
      BY <2>6, <3>1, <3>2 DEF Owing
  <2>13. Ready(P, shut, s)
    BY <1>3, <1>4, <1>6, <2>4, <2>6, <2>9, <2>10, <2>11, <2>12 DEF Ready, AllTold
  <2>14. Runs(P, shut, s, o)
    BY <1>4, <2>2, <2>4, <2>6, <2>9, <2>13 DEF Runs
  <2>15. Restored(s) /\ s.opens = None /\ s.sock[k].at = "none"
    BY <1>5, <1>6, <2>6 DEF Restored, Registered
  <2>16. sub' = Run(s, o, k)
    BY <1>3, <1>5, <1>9, <2>1, <2>3, <2>5 DEF SubRecord
  <2>17. CASE P[o].do = "subscribe"
    BY <1>1, <1>2, <1>3, <2>14, <2>15, <2>16, <2>17, EnsureGood DEF Run
  <2>18. CASE P[o].do = "unsubscribe"
    BY <1>1, <1>2, <1>3, <2>14, <2>15, <2>16, <2>18, UnsubscribingGood DEF Run
  <2>19. CASE P[o].do = "reconnect"
    BY <1>1, <1>2, <1>3, <2>14, <2>15, <2>16, <2>19, ReconnectingGood DEF Run
  <2>20. QED
    BY <1>3, <1>7, <2>17, <2>18, <2>19 DEF IsProgram
<1>10. QED
  BY <1>8, <1>9

LEMMA SubDialDoneStep ==
  ASSUME SubInv, NEW k \in Sock, SubDialDone(k)
  PROVE  GoodSub(plan.ops, Closed, sub')
<1>1. PICK P : P = plan.ops
  OBVIOUS
<1>2. PICK shut : shut = Closed
  OBVIOUS
<1>3. /\ plan \in Plan /\ IsProgram(P) /\ GoodSub(P, shut, sub)
      /\ Sound(P, shut, sub) /\ Untold(sub) /\ sub \in SubRecord
      /\ sub.sock[k].at = "dialing" /\ sub' = SubDialled(sub, k)
  BY <1>1, <1>2, PlanIsProgram DEF SubInv, SubDialDone, GoodSub, Sound
<1>4. CASE Closed \/ sub.sock[k].gen # sub.gen
  BY <1>1, <1>2, <1>3, <1>4, OpenFailsGood DEF SubDialled
<1>5. CASE ~ (Closed \/ sub.sock[k].gen # sub.gen)
  <2>1. Wanted(sub, k) /\ sub.sock[k] \in SockState /\ ~ sub.sock[k].broken
    BY <1>3, <1>5, SubFields DEF Wanted, Sound, Wired
  <2>2. /\ sub.opens = k /\ sub.cur = None /\ sub.step = "opening"
        /\ sub.waiter = None /\ sub.op[Head(sub.queue)].told = None
    <3>1. /\ sub.opens = k /\ sub.cur = None /\ sub.step = "opening"
          /\ sub.op[Head(sub.queue)].told = None
      BY <1>3, <2>1, SubscriberAssumption DEF Sound, Dialed, Untold
    <3>2. sub.waiter = None
      BY <1>3, <3>1 DEF Sound, Waited, Expects
    <3>3. QED
      BY <3>1, <3>2
  <2>3. CASE plan.password
    <3>1. PICK z : z = [sub.sock[k] EXCEPT !.at = "auth"]
      OBVIOUS
    <3>2. /\ z \in SockState /\ z.at = "auth" /\ ~ z.broken
          /\ z.gen = sub.sock[k].gen /\ z.left = sub.sock[k].left
          /\ z.asked = sub.sock[k].asked /\ z.told = sub.sock[k].told
          /\ z.subs = sub.sock[k].subs
      BY <2>1, <3>1 DEF SockState
    <3>3. PICK sock : sock = [sub.sock EXCEPT ![k] = z]
      OBVIOUS
    <3>4. /\ sock \in [Sock -> SockState] /\ sock[k] = z
          /\ \A j \in Sock \ {k} : sock[j] = sub.sock[j]
      BY <1>3, <3>2, <3>3, SubFields
    <3>5. PICK q : q = [sub EXCEPT !.sock = sock, !.dial = k]
      OBVIOUS
    <3>6. /\ q \in SubRecord /\ q.sock = sock /\ q.dial = k
          /\ q.cur = None /\ q.gen = sub.gen /\ q.opens = k
          /\ q.waiter = None /\ q.step = "opening" /\ q.op = sub.op
          /\ q.queue = sub.queue /\ q.handlers = sub.handlers
          /\ q.owed = sub.owed
      BY <1>3, <2>2, <3>4, <3>5 DEF SubRecord
    <3>7. sub' = q
      BY <1>3, <1>5, <2>3, <3>1, <3>3, <3>5 DEF SubDialled, SubRecord
    <3>8. Lined(P, q)
      BY <1>3, <2>2, <3>6 DEF Sound, Lined
    <3>9. Wired(q)
      <4>1. Wired(sub)
        BY <1>3 DEF Sound
      <4>2. \A j \in Sock : None # j
        BY SubscriberAssumption
      <4>3. QED
        BY <1>3, <2>2, <3>2, <3>4, <3>6, <4>1, <4>2 DEF Wired
    <3>10. \A j \in Sock : Wanted(q, j) => j = k
      <4>1. \A j \in Sock : Wanted(sub, j) => j = k
        BY <1>3, <2>2 DEF Sound, Dialed
      <4>2. QED
        BY <3>4, <3>6, <4>1 DEF Wanted
    <3>11. Dialed(q)
      <4>1. q.sock[q.opens].at \in {"dialing", "auth"}
        BY <3>2, <3>4, <3>6
      <4>2. QED
        BY <3>6, <3>10, <4>1, SubscriberAssumption DEF Dialed
    <3>12. Waited(P, q)
      BY <3>6 DEF Waited
    <3>13. Covered(q)
      <4>1. Registered(sub) \subseteq sub.sock[k].left
        BY <1>3, <2>2, SubscriberAssumption DEF Sound, Covered
      <4>2. QED
        BY <3>2, <3>4, <3>6, <4>1 DEF Covered, Registered
    <3>14. Handled(P, q) /\ Registers(P, shut, q)
      BY <1>3, <2>2, <3>6 DEF Sound, Handled, Registering, Registers, GivenUp
    <3>15. Owing(q)
      <4>1. Owing(sub) /\ \A t \in Topic : sub.handlers[t] \subseteq Op
        BY <1>3, SubFields DEF Sound
      <4>2. \A o \in Op : sub.owed[o] = {}
        BY <2>2, <4>1 DEF Owing
      <4>3. QED
        BY <3>6, <4>1, <4>2 DEF Owing
    <3>16. Untold(q)
      BY <2>2, <3>6 DEF Untold
    <3>17. GoodSub(P, shut, q)
      BY <3>6, <3>8, <3>9, <3>11, <3>12, <3>13, <3>14, <3>15, <3>16
      DEF GoodSub, Sound
    <3>18. QED
      BY <1>1, <1>2, <3>7, <3>17
  <2>4. CASE ~ plan.password
    <3>1. PICK q : q = [sub EXCEPT !.dial = k, !.cur = k, !.sock[k].at = "up"]
      OBVIOUS
    <3>2. /\ q \in SubRecord /\ q.cur = k
          /\ q.sock[k] = [sub.sock[k] EXCEPT !.at = "up"]
          /\ \A j \in Sock \ {k} : q.sock[j] = sub.sock[j]
          /\ q.op = sub.op /\ q.queue = sub.queue /\ q.step = sub.step
          /\ q.opens = sub.opens /\ q.gen = sub.gen /\ q.waiter = sub.waiter
          /\ q.handlers = sub.handlers /\ q.owed = sub.owed
      BY <1>3, <2>1, <3>1 DEF SubRecord, SockState
    <3>3. Restores(P, shut, q, k)
      BY <1>3, <2>1, <3>2, OpenedRestores
    <3>4. GoodSub(P, shut, Restore(q, k))
      BY <1>1, <1>2, <1>3, <3>3, RestoreGood
    <3>5. sub' = Restore(q, k)
      <4>1. q = [[sub EXCEPT !.dial = k] EXCEPT !.cur = k, !.sock[k].at = "up"]
        BY <1>3, <3>1 DEF SubRecord
      <4>2. QED
        BY <1>3, <1>5, <2>4, <4>1 DEF SubDialled, Opened
    <3>6. QED
      BY <1>1, <1>2, <3>4, <3>5
  <2>5. QED
    BY <2>3, <2>4
<1>6. QED
  BY <1>4, <1>5

LEMMA SubDialFailsStep ==
  ASSUME SubInv, NEW k \in Sock, SubDialFails(k)
  PROVE  GoodSub(plan.ops, Closed, sub')
BY PlanIsProgram, OpenFailsGood DEF SubInv, SubDialFails

LEMMA SubAuthEndsStep ==
  ASSUME SubInv, NEW k \in Sock, SubAuthEnds(k)
  PROVE  GoodSub(plan.ops, Closed, sub')
<1>1. PICK P : P = plan.ops
  OBVIOUS
<1>2. PICK shut : shut = Closed
  OBVIOUS
<1>3. /\ plan \in Plan /\ IsProgram(P) /\ GoodSub(P, shut, sub)
      /\ sub \in SubRecord
      /\ sub.sock[k].at = "auth" /\ ~ sub.sock[k].broken
  BY <1>1, <1>2, PlanIsProgram DEF SubInv, SubAuthEnds, GoodSub, Sound
<1>4. CASE sub' = OpenFails(sub, k)
  BY <1>1, <1>2, <1>3, <1>4, OpenFailsGood
<1>5. CASE sub' = Opened(sub, k)
  <2>1. Wanted(sub, k) /\ sub.sock[k] \in SockState
    BY <1>3, SubFields DEF Wanted
  <2>2. PICK q : q = [sub EXCEPT !.cur = k, !.sock[k].at = "up"]
    OBVIOUS
  <2>3. /\ q \in SubRecord /\ q.cur = k
        /\ q.sock[k] = [sub.sock[k] EXCEPT !.at = "up"]
        /\ \A j \in Sock \ {k} : q.sock[j] = sub.sock[j]
        /\ q.op = sub.op /\ q.queue = sub.queue /\ q.step = sub.step
        /\ q.opens = sub.opens /\ q.gen = sub.gen /\ q.waiter = sub.waiter
        /\ q.handlers = sub.handlers /\ q.owed = sub.owed
    BY <1>3, <2>1, <2>2 DEF SubRecord, SockState
  <2>4. Restores(P, shut, q, k)
    BY <1>3, <2>1, <2>3, OpenedRestores
  <2>5. GoodSub(P, shut, Restore(q, k))
    BY <1>1, <1>2, <1>3, <2>4, RestoreGood
  <2>6. sub' = Restore(q, k)
    BY <1>5, <2>2 DEF Opened
  <2>7. QED
    BY <1>1, <1>2, <2>5, <2>6
<1>6. QED
  BY <1>4, <1>5 DEF SubAuthEnds

LEMMA ConnectDeadlineStep ==
  ASSUME SubInv, ConnectDeadline
  PROVE  GoodSub(plan.ops, Closed, sub')
<1>1. PICK P : P = plan.ops
  OBVIOUS
<1>2. PICK shut : shut = Closed
  OBVIOUS
<1>3. /\ IsProgram(P) /\ Sound(P, shut, sub) /\ sub \in SubRecord
      /\ sub.opens # None
  BY <1>1, <1>2, PlanIsProgram DEF SubInv, ConnectDeadline, GoodSub, Sound
<1>4. PICK k \in Sock : k = sub.opens
  BY <1>3, SubFields
<1>5. PICK s : s = CloseSub(sub)
  OBVIOUS
<1>6. GoodSub(P, shut, s) /\ sub' = IF s.opens = None THEN s ELSE OpOver(s, "failed")
  BY <1>3, <1>5, CloseSubGood DEF ConnectDeadline
<1>7. CASE s.opens = None
  BY <1>1, <1>2, <1>6, <1>7
<1>8. CASE s.opens # None
  <2>1. sub.step = "opening" /\ AllTold(sub)
    BY <1>3, <1>4, OpeningFacts
  <2>2. PICK q : q = Torn(sub)
    OBVIOUS
  <2>3. /\ q \in SubRecord /\ q.opens = k /\ q.op = sub.op
        /\ q.handlers = sub.handlers
    BY <1>3, <1>4, <2>2, TornFields
  <2>4. CASE sub.waiter = None
    <3>1. s = q
      BY <1>5, <2>2, <2>4 DEF CloseSub, RoundTripFails
    <3>2. Ready(P, shut, s) /\ Restored(s)
      BY <1>3, <2>1, <2>2, <3>1, SoundLoose, TornReady
    <3>3. Ends(P, s, "failed")
      BY <2>1, <2>3, <3>1 DEF Ends, AllTold
    <3>4. QED
      BY <1>1, <1>2, <1>3, <1>6, <1>8, <3>2, <3>3, OverGood
  <2>5. CASE sub.waiter # None
    <3>1. sub.waiter.open = k
      <4>1. Expects(P, sub, sub.waiter)
        BY <1>3, <2>5 DEF Sound, Waited
      <4>2. QED
        BY <1>4, <2>1, <4>1 DEF Expects
    <3>2. PICK r : r = [q EXCEPT !.sock[k] = NoSock,
                                 !.dial = IF @ = k THEN None ELSE @]
      OBVIOUS
    <3>3. s = OpOver(r, "failed")
      <4>1. s = OpenFails(q, k)
        BY <1>5, <2>2, <2>5, <3>1, SubscriberAssumption
        DEF CloseSub, RoundTripFails
      <4>2. QED
        BY <2>3, <3>2, <4>1 DEF OpenFails
    <3>4. r \in SubRecord /\ r.queue # <<>>
      <4>1. Cleared(q, k, r)
        BY <2>3, <3>2, ClearFields
      <4>2. q.queue = sub.queue /\ sub.queue # <<>>
        BY <1>3, <2>1, <2>2, TornFields DEF Sound, Lined
      <4>3. QED
        BY <4>1, <4>2 DEF Cleared
    <3>5. s.opens = None
      BY <3>3, <3>4, OverFields
    <3>6. QED
      BY <1>8, <3>5
  <2>6. QED
    BY <2>4, <2>5
<1>9. QED
  BY <1>7, <1>8

LEMMA OpDeadlineStep ==
  ASSUME SubInv, NEW o \in Op, OpDeadline(o)
  PROVE  GoodSub(plan.ops, Closed, sub')
<1>1. PICK P : P = plan.ops
  OBVIOUS
<1>2. PICK shut : shut = Closed
  OBVIOUS
<1>3. /\ IsProgram(P) /\ GoodSub(P, shut, sub) /\ Sound(P, shut, sub)
      /\ sub \in SubRecord
      /\ sub.op[o].at \in {"queued", "running"} /\ sub.op[o].told = None
  BY <1>1, <1>2, PlanIsProgram DEF SubInv, OpDeadline, GoodSub, Sound
<1>4. PICK new : new = [sub.op[o] EXCEPT !.told = "failed"]
  OBVIOUS
<1>5. /\ new \in OpState /\ new.at = sub.op[o].at /\ new.told = "failed"
  <2>1. sub.op[o] \in OpState
    BY <1>3, SubFields
  <2>2. QED
    BY <1>3, <1>4, <2>1 DEF OpState
<1>6. PICK op : op = [sub.op EXCEPT ![o] = new]
  OBVIOUS
<1>7. /\ op \in [Op -> OpState] /\ op[o] = new
      /\ \A u \in Op \ {o} : op[u] = sub.op[u]
  BY <1>3, <1>5, <1>6, SubFields
<1>8. PICK s : s = [sub EXCEPT !.op = op]
  OBVIOUS
<1>9. /\ s \in SubRecord /\ s.op = op /\ s.queue = sub.queue
      /\ SameWires(sub, s) /\ s.step = sub.step /\ s.opens = sub.opens
      /\ s.handlers = sub.handlers /\ s.owed = sub.owed
      /\ s.cur = sub.cur /\ s.dial = sub.dial /\ s.gen = sub.gen
      /\ s.sock = sub.sock /\ s.waiter = sub.waiter
  BY <1>3, <1>7, <1>8 DEF SubRecord, SameWires
<1>10. sub' = IF sub.op[o].at = "running" THEN CloseSub(s) ELSE s
  <2>1. s = [sub EXCEPT !.op[o].told = "failed"]
    BY <1>3, <1>4, <1>6, <1>8 DEF SubRecord
  <2>2. QED
    BY <2>1 DEF OpDeadline
<1>11. "failed" # "ok" /\ None # "ok"
  BY SubscriberAssumption
<1>12. CASE sub.op[o].at # "running"
  <2>1. GoodSub(P, shut, s)
    BY <1>3, <1>5, <1>7, <1>9, <1>11, <1>12, AsideGood
  <2>2. QED
    BY <1>1, <1>2, <1>10, <1>12, <2>1
<1>13. CASE sub.op[o].at = "running"
  <2>1. sub.step # "idle" /\ o = Head(sub.queue)
    BY <1>3, <1>13 DEF Sound, Lined
  <2>2. \A u \in Op : /\ s.op[u].told = "ok" <=> sub.op[u].told = "ok"
                      /\ s.op[u].at = sub.op[u].at
    BY <1>3, <1>5, <1>7, <1>9, <1>11
  <2>3. Lined(P, s)
    BY <1>3, <1>5, <1>7, <1>9, <1>11, <2>1, <2>2 DEF Sound, Lined
  <2>4. Wired(s) /\ Dialed(s)
    BY <1>3, <1>9 DEF Sound, Wired, Dialed, Wanted
  <2>5. Waited(P, s) /\ Covered(s)
    BY <1>3, <1>9 DEF Sound, Waited, Expects, Covered, Registered
  <2>6. Handled(P, s)
    <3>1. \A t \in Topic : sub.handlers[t] \subseteq Op
      BY <1>3, SubFields
    <3>2. QED
      BY <1>3, <1>9, <2>2, <3>1 DEF Sound, Handled, Registering
  <2>7. Registers(P, shut, s)
    <3>1. \A u \in DOMAIN P : GivenUp(P, sub, u) => GivenUp(P, s, u)
      BY <1>3, <2>2 DEF GivenUp, IsProgram
    <3>2. \A u \in DOMAIN P : s.op[u].told = "ok" <=> sub.op[u].told = "ok"
      BY <1>3, <2>2 DEF IsProgram
    <3>3. QED
      BY <1>3, <1>9, <3>1, <3>2 DEF Sound, Registers
  <2>8. Owing(s)
    BY <1>3, <1>9, <2>2 DEF Sound, Owing
  <2>9. Sound(P, shut, s)
    BY <1>3, <1>9, <2>3, <2>4, <2>5, <2>6, <2>7, <2>8 DEF Sound
  <2>10. GoodSub(P, shut, CloseSub(s))
    BY <1>3, <2>9, CloseSubGood
  <2>11. QED
    BY <1>1, <1>2, <1>10, <1>13, <2>10
<1>14. QED
  BY <1>12, <1>13

LEMMA RoundTripTimerStep ==
  ASSUME SubInv, RoundTripTimer
  PROVE  GoodSub(plan.ops, Closed, sub')
BY PlanIsProgram, CloseSubGood DEF SubInv, RoundTripTimer, GoodSub

LEMMA SubCloseEventStep ==
  ASSUME SubInv, NEW k \in Sock, SubCloseEvent(k)
  PROVE  GoodSub(plan.ops, Closed, sub')
<1>1. PICK P : P = plan.ops
  OBVIOUS
<1>2. PICK shut : shut = Closed
  OBVIOUS
<1>3. /\ IsProgram(P) /\ GoodSub(P, shut, sub) /\ Sound(P, shut, sub)
      /\ sub \in SubRecord /\ sub.sock[k].broken
      /\ sub' = IF sub.sock[k].at = "auth" THEN OpenFails(sub, k)
                ELSE IF sub.cur = k THEN CloseSub(sub)
                ELSE [sub EXCEPT !.sock[k] = NoSock]
  BY <1>1, <1>2, PlanIsProgram DEF SubInv, SubCloseEvent, GoodSub, Sound
<1>4. CASE sub.sock[k].at = "auth"
  BY <1>1, <1>2, <1>3, <1>4, OpenFailsGood
<1>5. CASE sub.sock[k].at # "auth" /\ sub.cur = k
  BY <1>1, <1>2, <1>3, <1>5, CloseSubGood
<1>6. CASE sub.sock[k].at # "auth" /\ sub.cur # k
  <2>1. PICK q : q = [sub EXCEPT !.sock[k] = NoSock]
    OBVIOUS
  <2>2. Cleared(sub, k, q)
    BY <1>3, <2>1, ClearFields
  <2>3. sub.opens # k
    <3>1. sub.sock[k].at # "dialing"
      BY <1>3 DEF Sound, Wired
    <3>2. k # None
      BY SubscriberAssumption
    <3>3. QED
      BY <1>3, <1>6, <3>1, <3>2 DEF Sound, Dialed
  <2>4. GoodSub(P, shut, q)
    BY <1>3, <1>6, <2>2, <2>3, ClearGood
  <2>5. QED
    BY <1>1, <1>2, <1>3, <1>6, <2>1, <2>4
<1>7. QED
  BY <1>4, <1>5, <1>6

-----------------------------------------------------------------------------
(* What is said on the connection.                                         *)

(* Only what the current socket holds changes.                             *)
Talks(s, q, z) ==
  /\ q \in SubRecord /\ z \in SockState /\ s.cur \in Sock
  /\ z.at = s.sock[s.cur].at /\ z.gen = s.sock[s.cur].gen
  /\ z.left = s.sock[s.cur].left
  /\ q.sock[s.cur] = z /\ \A j \in Sock \ {s.cur} : q.sock[j] = s.sock[j]
  /\ q.op = s.op /\ q.queue = s.queue /\ q.step = s.step
  /\ q.opens = s.opens /\ q.cur = s.cur /\ q.dial = s.dial
  /\ q.gen = s.gen /\ q.waiter = s.waiter /\ q.handlers = s.handlers

LEMMA TalkGood ==
  ASSUME NEW P, NEW shut, NEW s, GoodSub(P, shut, s), NEW q, NEW z,
         Talks(s, q, z),
         \A t \in Registered(s) : t \in s.sock[s.cur].subs => t \in z.subs,
         s.waiter # None /\ Answering(s.sock[s.cur], s.waiter) =>
           Answering(z, s.waiter),
         s.waiter = None /\ s.sock[s.cur].asked = None
           /\ OnlyNews(s.sock[s.cur].told) => z.asked = None /\ OnlyNews(z.told),
         Owing(q)
  PROVE  GoodSub(P, shut, q)
<1>1. PICK k \in Sock : k = s.cur
  BY DEF Talks
<1>2. /\ s \in SubRecord /\ q \in SubRecord
      /\ z.at = s.sock[k].at /\ z.gen = s.sock[k].gen
      /\ z.left = s.sock[k].left
      /\ q.sock[k] = z /\ \A j \in Sock \ {k} : q.sock[j] = s.sock[j]
      /\ q.op = s.op /\ q.queue = s.queue /\ q.step = s.step
      /\ q.opens = s.opens /\ q.cur = k /\ q.dial = s.dial
      /\ q.gen = s.gen /\ q.waiter = s.waiter /\ q.handlers = s.handlers
  BY <1>1 DEF GoodSub, Sound, Talks
<1>3. /\ Lined(P, s) /\ Wired(s) /\ Dialed(s) /\ Waited(P, s) /\ Covered(s)
      /\ Handled(P, s) /\ Registers(P, shut, s) /\ Untold(s)
      /\ s.step # "running" /\ k # None /\ s.sock[k].at = "up"
  BY <1>1, SubscriberAssumption DEF GoodSub, Sound, Wired
<1>4. Lined(P, q)
  BY <1>2, <1>3 DEF Lined
<1>5. Wired(q)
  <2>1. ASSUME NEW j \in Sock
        PROVE  /\ q.sock[j].at = "up" <=> q.cur = j
               /\ q.sock[j].gen <= q.gen
               /\ q.sock[j].at = "dialing" => ~ q.sock[j].broken
               /\ q.sock[j].at # "up" => /\ q.sock[j].asked = None
                                         /\ q.sock[j].told = <<>>
                                         /\ q.sock[j].subs = {}
    <3>1. CASE j = k
      BY <1>2, <1>3, <3>1 DEF Wired
    <3>2. CASE j # k
      BY <1>1, <1>2, <1>3, <3>2 DEF Wired
    <3>3. QED
      BY <3>1, <3>2
  <2>2. QED
    BY <2>1 DEF Wired
<1>6. \A j \in Sock : Wanted(q, j) <=> Wanted(s, j)
  <2>1. ~ Wanted(q, k) /\ ~ Wanted(s, k)
    BY <1>2, <1>3 DEF Wanted
  <2>2. \A j \in Sock \ {k} : Wanted(q, j) <=> Wanted(s, j)
    BY <1>2 DEF Wanted
  <2>3. QED
    BY <2>1, <2>2
<1>7. Dialed(q)
  <2>1. \A j \in Sock : ~ Wanted(q, j)
    BY <1>1, <1>3, <1>6 DEF Dialed
  <2>2. QED
    BY <1>1, <1>2, <1>3, <2>1 DEF Dialed
<1>8. Waited(P, q)
  <2>1. CASE s.waiter = None
    BY <1>1, <1>2, <1>3, <2>1 DEF Waited
  <2>2. CASE s.waiter # None
    <3>1. PICK w : w = s.waiter
      OBVIOUS
    <3>2. Expects(P, s, w)
      BY <1>3, <2>2, <3>1 DEF Waited
    <3>3. Answering(z, w)
      BY <2>2, <3>1, <3>2 DEF Expects
    <3>4. Expects(P, q, w)
      BY <1>1, <1>2, <1>3, <3>2, <3>3 DEF Expects
    <3>5. QED
      BY <1>2, <2>2, <3>1, <3>4 DEF Waited
  <2>3. QED
    BY <2>1, <2>2
<1>9. Covered(q)
  BY <1>1, <1>2, <1>3 DEF Covered, Registered
<1>10. Handled(P, q) /\ Registers(P, shut, q)
  BY <1>2, <1>3 DEF Handled, Registering, Registers, GivenUp
<1>11. Untold(q)
  BY <1>1, <1>2, <1>3, <1>6 DEF Untold
<1>12. QED
  BY <1>2, <1>3, <1>4, <1>5, <1>7, <1>8, <1>9, <1>10, <1>11 DEF GoodSub, Sound

(* Socket k holds something else.                                          *)
Holds(s, k, z, q) ==
  /\ q \in SubRecord /\ q.sock[k] = z
  /\ \A j \in Sock \ {k} : q.sock[j] = s.sock[j]
  /\ q.op = s.op /\ q.queue = s.queue /\ q.step = s.step
  /\ q.opens = s.opens /\ q.cur = s.cur /\ q.dial = s.dial
  /\ q.gen = s.gen /\ q.waiter = s.waiter /\ q.handlers = s.handlers
  /\ q.owed = s.owed /\ q.news = s.news

LEMMA HoldsFields ==
  ASSUME NEW s \in SubRecord, NEW k \in Sock, NEW z \in SockState, NEW q,
         q = [s EXCEPT !.sock[k] = z]
  PROVE  Holds(s, k, z, q)
<1>1. PICK sock : sock = [s.sock EXCEPT ![k] = z]
  OBVIOUS
<1>2. /\ sock \in [Sock -> SockState] /\ sock[k] = z
      /\ \A j \in Sock \ {k} : sock[j] = s.sock[j]
  BY <1>1, SubFields
<1>3. q = [s EXCEPT !.sock = sock]
  BY <1>1 DEF SubRecord
<1>4. q \in SubRecord /\ q.sock = sock
  BY <1>2, <1>3 DEF SubRecord
<1>5. /\ q.op = s.op /\ q.queue = s.queue /\ q.step = s.step
      /\ q.opens = s.opens /\ q.cur = s.cur /\ q.dial = s.dial
      /\ q.gen = s.gen /\ q.waiter = s.waiter /\ q.handlers = s.handlers
      /\ q.owed = s.owed /\ q.news = s.news
  BY <1>3 DEF SubRecord
<1>6. QED
  BY <1>2, <1>4, <1>5 DEF Holds

LEMMA SubBreaksStep ==
  ASSUME SubInv, NEW k \in Sock, SubBreaks(k)
  PROVE  GoodSub(plan.ops, Closed, sub')
<1>1. PICK P : P = plan.ops
  OBVIOUS
<1>2. PICK shut : shut = Closed
  OBVIOUS
<1>3. /\ IsProgram(P) /\ GoodSub(P, shut, sub) /\ Sound(P, shut, sub)
      /\ sub \in SubRecord /\ Wired(sub) /\ Owing(sub)
      /\ sub.sock[k].at \in {"auth", "up"} /\ ~ sub.sock[k].broken
  BY <1>1, <1>2, PlanIsProgram DEF SubInv, SubBreaks, GoodSub, Sound
<1>4. PICK z : z = [sub.sock[k] EXCEPT !.broken = TRUE]
  OBVIOUS
<1>5. /\ z \in SockState /\ z.at = sub.sock[k].at /\ z.gen = sub.sock[k].gen
      /\ z.left = sub.sock[k].left /\ z.asked = sub.sock[k].asked
      /\ z.told = sub.sock[k].told /\ z.subs = sub.sock[k].subs /\ z.broken
  <2>1. sub.sock[k] \in SockState
    BY <1>3, SubFields
  <2>2. QED
    BY <1>4, <2>1 DEF SockState
<1>6. PICK q : q = [sub EXCEPT !.sock[k] = z]
  OBVIOUS
<1>7. /\ q \in SubRecord /\ q.sock[k] = z
      /\ \A j \in Sock \ {k} : q.sock[j] = sub.sock[j]
      /\ q.op = sub.op /\ q.queue = sub.queue /\ q.step = sub.step
      /\ q.opens = sub.opens /\ q.cur = sub.cur /\ q.dial = sub.dial
      /\ q.gen = sub.gen /\ q.waiter = sub.waiter /\ q.handlers = sub.handlers
      /\ q.owed = sub.owed
  <2>1. sub \in SubRecord /\ z \in SockState
    BY <1>3, <1>5
  <2>2. Holds(sub, k, z, q)
    BY <1>6, <2>1, HoldsFields
  <2>3. QED
    BY <2>2 DEF Holds
<1>8. sub' = q
  BY <1>3, <1>4, <1>6 DEF SubBreaks, SubRecord
<1>9. \A j \in Sock : /\ q.sock[j].at = sub.sock[j].at
                      /\ q.sock[j].gen = sub.sock[j].gen
                      /\ q.sock[j].left = sub.sock[j].left
                      /\ q.sock[j].asked = sub.sock[j].asked
                      /\ q.sock[j].told = sub.sock[j].told
                      /\ q.sock[j].subs = sub.sock[j].subs
                      /\ q.sock[j].broken => j = k \/ sub.sock[j].broken
                      /\ sub.sock[j].broken => q.sock[j].broken
  BY <1>5, <1>7
<1>10. Owing(q)
  <2>1. sub.cur # None => sub.cur \in Sock
    BY <1>3, SubFields
  <2>2. \A o \in Op : sub.owed[o] # {} => sub.cur # None /\ sub.op[o].told = "ok"
    BY <1>3 DEF Owing
  <2>3. \A t \in Topic : sub.handlers[t] \subseteq Op
    BY <1>3, SubFields
  <2>4. ASSUME NEW t \in Topic, NEW o \in q.handlers[t], NEW n \in q.owed[o]
        PROVE  \E i \in DOMAIN q.sock[q.cur].told :
                 q.sock[q.cur].told[i] = [cmd |-> "message", topic |-> t, n |-> n]
    <3>1. sub.cur \in Sock
      BY <1>7, <2>1, <2>2, <2>3, <2>4
    <3>2. q.sock[q.cur].told = sub.sock[sub.cur].told
      BY <1>7, <1>9, <3>1
    <3>3. QED
      BY <1>3, <1>7, <2>4, <3>2 DEF Owing
  <2>5. QED
    BY <1>7, <2>2, <2>4 DEF Owing
<1>11. CASE sub.sock[k].at = "up"
  <2>1. sub.cur = k
    BY <1>3, <1>11 DEF Wired
  <2>2. Talks(sub, q, z)
    BY <1>5, <1>7, <2>1 DEF Talks
  <2>3. /\ sub.waiter # None /\ Answering(sub.sock[k], sub.waiter) =>
             Answering(z, sub.waiter)
        /\ z.asked = sub.sock[k].asked /\ z.told = sub.sock[k].told
    BY <1>5 DEF Answering, AnswerAt
  <2>4. GoodSub(P, shut, q)
    BY <1>3, <1>5, <1>10, <2>1, <2>2, <2>3, TalkGood
  <2>5. QED
    BY <1>1, <1>2, <1>8, <2>4
<1>12. CASE sub.sock[k].at = "auth"
  <2>1. /\ Lined(P, sub) /\ Dialed(sub) /\ Waited(P, sub) /\ Covered(sub)
        /\ Handled(P, sub) /\ Registers(P, shut, sub) /\ Untold(sub)
        /\ sub.step # "running"
    BY <1>3 DEF GoodSub, Sound
  <2>2. sub.cur # k
    BY <1>3, <1>12 DEF Wired
  <2>3. sub.cur # None => q.sock[sub.cur] = sub.sock[sub.cur]
    <3>1. sub.cur # None => sub.cur \in Sock
      BY <1>3, SubFields
    <3>2. QED
      BY <1>7, <2>2, <3>1
  <2>4. Lined(P, q) /\ Handled(P, q) /\ Registers(P, shut, q)
    BY <1>7, <2>1 DEF Lined, Handled, Registering, Registers, GivenUp
  <2>5. Wired(q)
    <3>1. q.sock[k].at = "auth"
      BY <1>9, <1>12
    <3>2. \A j \in Sock : j # k => q.sock[j].broken = sub.sock[j].broken
      BY <1>7
    <3>3. QED
      BY <1>3, <1>7, <1>9, <3>1, <3>2 DEF Wired
  <2>6. \A j \in Sock : Wanted(q, j) => Wanted(sub, j)
    BY <1>7, <1>9 DEF Wanted
  <2>7. Dialed(q)
    <3>1. sub.opens # None => sub.opens \in Sock
      BY <1>3, SubFields
    <3>2. sub.opens # None => q.sock[sub.opens].at = sub.sock[sub.opens].at
      BY <1>9, <3>1
    <3>3. QED
      BY <1>7, <1>9, <2>1, <2>6, <3>2 DEF Dialed
  <2>8. Waited(P, q)
    BY <1>7, <2>1, <2>3 DEF Waited, Expects
  <2>9. Covered(q)
    <3>1. sub.opens # None => sub.opens \in Sock
      BY <1>3, SubFields
    <3>2. sub.opens # None => q.sock[sub.opens].left = sub.sock[sub.opens].left
      BY <1>9, <3>1
    <3>3. QED
      BY <1>7, <2>1, <2>3, <3>2 DEF Covered, Registered
  <2>10. Untold(q)
    BY <1>7, <2>1, <2>6 DEF Untold
  <2>11. GoodSub(P, shut, q)
    BY <1>7, <1>10, <2>1, <2>4, <2>5, <2>7, <2>8, <2>9, <2>10 DEF GoodSub, Sound
  <2>12. QED
    BY <1>1, <1>2, <1>8, <2>11
<1>13. QED
  BY <1>3, <1>11, <1>12

(* One message more under way.                                             *)
LEMMA OneMore ==
  ASSUME NEW S, NEW seq \in Seq(S), NEW m, NEW longer, longer = Append(seq, m)
  PROVE  /\ DOMAIN longer = 1 .. (Len(seq) + 1) /\ Len(seq) + 1 \in DOMAIN longer
         /\ \A i \in DOMAIN seq : i \in DOMAIN longer /\ longer[i] = seq[i]
         /\ longer[Len(seq) + 1] = m
         /\ \A i \in DOMAIN longer : i \in DOMAIN seq \/ i = Len(seq) + 1
OBVIOUS

(* An answer to the only command under way.                                *)
LEMMA ServerTakesStep ==
  ASSUME SubInv, NEW k \in Sock, ServerTakes(k)
  PROVE  GoodSub(plan.ops, Closed, sub')
<1>1. PICK P : P = plan.ops
  OBVIOUS
<1>2. PICK shut : shut = Closed
  OBVIOUS
<1>3. PICK z, w : z = sub.sock[k] /\ w = sub.waiter
  OBVIOUS
<1>4. /\ IsProgram(P) /\ GoodSub(P, shut, sub) /\ Sound(P, shut, sub)
      /\ sub \in SubRecord /\ z.at = "up" /\ z.asked # None
  BY <1>1, <1>2, <1>3, PlanIsProgram DEF SubInv, ServerTakes, Usable, GoodSub, Sound
<1>5. sub.cur = k /\ k # None
  BY <1>3, <1>4, SubscriberAssumption DEF Sound, Wired
<1>6. w # None /\ Expects(P, sub, w)
  BY <1>3, <1>4, <1>5 DEF Sound, Waited
<1>7. z.asked = Asked(w) /\ OnlyNews(z.told)
  BY <1>3, <1>4, <1>5, <1>6 DEF Expects, Answering
<1>8. /\ w.cmd \in {"subscribe", "unsubscribe"} /\ w.topic \in Topic
      /\ w \in RoundTripOf /\ z \in SockState
  <2>1. w \in RoundTripOf /\ z \in SockState
    BY <1>3, <1>4, <1>6, SubFields
  <2>2. QED
    BY <2>1 DEF RoundTripOf
<1>9. ASSUME NEW m, NEW subs, m \in Command \cup Refusal, subs \in SUBSET Topic,
             NEW new, new = [z EXCEPT !.asked = None, !.told = Append(z.told, m),
                                      !.subs = subs],
             \A t \in Registered(sub) : t \in z.subs => t \in subs,
             \/ m.cmd = "error"
             \/ m = Asked(w) /\ (w.cmd = "subscribe" => w.topic \in subs)
      PROVE  GoodSub(P, shut, [sub EXCEPT !.sock[k] = new])
  <2>1. PICK longer : longer = Append(z.told, m)
    OBVIOUS
  <2>2. PICK S : S = Command \cup Message \cup Refusal
    OBVIOUS
  <2>3. z.told \in Seq(S) /\ m \in S
    BY <1>8, <1>9, <2>2 DEF SockState
  <2>4. longer \in Seq(S)
    BY <2>1, <2>3
  <2>5. /\ new \in SockState /\ new.at = "up" /\ new.gen = z.gen
        /\ new.left = z.left /\ new.asked = None /\ new.told = longer
        /\ new.subs = subs
    BY <1>4, <1>8, <1>9, <2>1, <2>2, <2>4 DEF SockState
  <2>6. PICK l : l = Len(z.told) + 1
    OBVIOUS
  <2>7. /\ l \in DOMAIN longer /\ longer[l] = m
        /\ \A i \in DOMAIN z.told : i \in DOMAIN longer /\ longer[i] = z.told[i]
        /\ \A i \in DOMAIN longer : i \in DOMAIN z.told \/ i = l
    BY <2>1, <2>3, <2>6, OneMore
  <2>8. AnswerAt(new, w, l)
    <3>1. \A j \in DOMAIN new.told : j # l => new.told[j].cmd = "message"
      BY <1>7, <2>5, <2>7 DEF OnlyNews
    <3>2. new.told[l] = m
      BY <2>5, <2>7
    <3>3. QED
      BY <1>9, <2>5, <3>1, <3>2 DEF AnswerAt
  <2>9. Answering(new, w)
    BY <2>5, <2>7, <2>8 DEF Answering
  <2>10. PICK q : q = [sub EXCEPT !.sock[k] = new]
    OBVIOUS
  <2>11. /\ q \in SubRecord /\ q.sock[k] = new
         /\ \A j \in Sock \ {k} : q.sock[j] = sub.sock[j]
         /\ q.op = sub.op /\ q.queue = sub.queue /\ q.step = sub.step
         /\ q.opens = sub.opens /\ q.cur = sub.cur /\ q.dial = sub.dial
         /\ q.gen = sub.gen /\ q.waiter = sub.waiter /\ q.handlers = sub.handlers
         /\ q.owed = sub.owed
    <3>1. sub \in SubRecord /\ new \in SockState
      BY <1>4, <2>5
    <3>2. Holds(sub, k, new, q)
      BY <2>10, <3>1, HoldsFields
    <3>3. QED
      BY <3>2 DEF Holds
  <2>12. Talks(sub, q, new)
    BY <1>3, <1>4, <1>5, <2>5, <2>11 DEF Talks
  <2>13. Owing(q)
    <3>1. Owing(sub)
      BY <1>4 DEF Sound
    <3>2. ASSUME NEW t \in Topic, NEW o \in sub.handlers[t], NEW n \in sub.owed[o]
          PROVE  \E i \in DOMAIN longer :
                   longer[i] = [cmd |-> "message", topic |-> t, n |-> n]
      <4>1. PICK i \in DOMAIN z.told :
              z.told[i] = [cmd |-> "message", topic |-> t, n |-> n]
        BY <1>3, <1>5, <3>1, <3>2 DEF Owing
      <4>2. i \in DOMAIN longer /\ longer[i] = z.told[i]
        BY <2>7
      <4>3. QED
        BY <4>1, <4>2
    <3>3. QED
      BY <1>5, <2>5, <2>11, <3>1, <3>2 DEF Owing
  <2>14. GoodSub(P, shut, q)
    BY <1>3, <1>4, <1>5, <1>6, <1>9, <2>5, <2>9, <2>12, <2>13, TalkGood
  <2>15. QED
    BY <2>10, <2>14
<1>10. PICK a : a = z.asked
  OBVIOUS
<1>11. /\ a = Asked(w) /\ a.cmd = w.cmd /\ a.topic = w.topic /\ a \in Command
  BY <1>7, <1>8, <1>10 DEF Asked, Command
<1>12. PICK subs : subs = IF a.cmd = "subscribe" THEN z.subs \cup {a.topic}
                          ELSE z.subs \ {a.topic}
  OBVIOUS
<1>13. CASE sub' = [sub EXCEPT !.sock[k] =
                      [z EXCEPT !.asked = None, !.told = Append(z.told, a),
                                !.subs = subs]]
  <2>1. subs \in SUBSET Topic
    BY <1>8, <1>11, <1>12 DEF SockState
  <2>2. PICK new : new = [z EXCEPT !.asked = None, !.told = Append(z.told, a),
                                   !.subs = subs]
    OBVIOUS
  <2>3. \A t \in Registered(sub) : t \in z.subs => t \in subs
    <3>1. CASE w.cmd = "subscribe"
      BY <1>11, <1>12, <3>1
    <3>2. CASE w.cmd = "unsubscribe"
      <4>1. w.open = None /\ sub.handlers[w.topic] = {}
        BY <1>6, <3>2 DEF Expects
      <4>2. QED
        BY <1>11, <1>12, <4>1 DEF Registered
    <3>3. QED
      BY <1>8, <3>1, <3>2
  <2>4. w.cmd = "subscribe" => w.topic \in subs
    BY <1>11, <1>12
  <2>5. GoodSub(P, shut, [sub EXCEPT !.sock[k] = new])
    BY <1>9, <1>11, <2>1, <2>2, <2>3, <2>4
  <2>6. sub' = [sub EXCEPT !.sock[k] = new]
    BY <1>13, <2>2
  <2>7. QED
    BY <1>1, <1>2, <2>5, <2>6
<1>14. CASE sub' = [sub EXCEPT !.sock[k].asked = None,
                               !.sock[k].told = Append(@, [cmd |-> "error"])]
  <2>1. PICK m : m = [cmd |-> "error"]
    OBVIOUS
  <2>2. m \in Refusal /\ m.cmd = "error" /\ z.subs \in SUBSET Topic
    BY <1>8, <2>1 DEF Refusal, SockState
  <2>3. PICK new : new = [z EXCEPT !.asked = None, !.told = Append(z.told, m),
                                   !.subs = z.subs]
    OBVIOUS
  <2>4. GoodSub(P, shut, [sub EXCEPT !.sock[k] = new])
    BY <1>9, <2>2, <2>3
  <2>5. sub' = [sub EXCEPT !.sock[k] = new]
    <3>1. new = [z EXCEPT !.asked = None, !.told = Append(@, m)]
      BY <1>8, <2>3 DEF SockState
    <3>2. QED
      BY <1>3, <1>4, <1>14, <2>1, <3>1 DEF SubRecord
  <2>6. QED
    BY <1>1, <1>2, <2>4, <2>5
<1>15. QED
  BY <1>3, <1>10, <1>12, <1>13, <1>14 DEF ServerTakes

(* Nothing but what is owed changes.                                       *)
LEMMA OwedGood ==
  ASSUME NEW P, NEW shut, NEW s, GoodSub(P, shut, s), NEW q, q \in SubRecord,
         q.op = s.op, q.queue = s.queue, q.step = s.step, q.opens = s.opens,
         q.cur = s.cur, q.dial = s.dial, q.gen = s.gen, q.waiter = s.waiter,
         q.handlers = s.handlers, q.sock = s.sock, Owing(q)
  PROVE  GoodSub(P, shut, q)
<1>1. /\ Lined(P, s) /\ Wired(s) /\ Dialed(s) /\ Waited(P, s) /\ Covered(s)
      /\ Handled(P, s) /\ Registers(P, shut, s) /\ Untold(s)
      /\ s.step # "running"
  BY DEF GoodSub, Sound
<1>2. Lined(P, q) /\ Wired(q) /\ Dialed(q)
  BY <1>1 DEF Lined, Wired, Dialed, Wanted
<1>3. Waited(P, q) /\ Covered(q)
  BY <1>1 DEF Waited, Expects, Covered, Registered
<1>4. Handled(P, q) /\ Registers(P, shut, q)
  BY <1>1 DEF Handled, Registering, Registers, GivenUp
<1>5. Untold(q)
  BY <1>1 DEF Untold, Wanted
<1>6. QED
  BY <1>1, <1>2, <1>3, <1>4, <1>5 DEF GoodSub, Sound

(* Whoever counts on a message is subscribed.                              *)
LEMMA NewsArrives ==
  ASSUME NEW P, NEW shut, NEW s, GoodSub(P, shut, s), NEW t \in Topic,
         NEW o \in s.handlers[t], s.op[o].told = "ok", s.cur # None,
         s.opens = None
  PROVE  t \in s.sock[s.cur].subs
<1>1. /\ s \in SubRecord /\ Covered(s) /\ Waited(P, s) /\ Untold(s)
      /\ t \in Registered(s)
  BY DEF GoodSub, Sound, Registered
<1>2. SUFFICES ASSUME s.waiter # None, s.waiter.open = None,
                      s.waiter.cmd = "subscribe", s.waiter.topic = t
               PROVE  FALSE
  BY <1>1 DEF Covered
<1>3. s.step = "asking" /\ s.handlers[t] = {Head(s.queue)}
  BY <1>1, <1>2 DEF Waited, Expects
<1>4. s.op[o].told = None
  BY <1>1, <1>3 DEF Untold
<1>5. QED
  BY <1>4, SubscriberAssumption

LEMMA NewsStep ==
  ASSUME SubInv, NEW t \in Topic, News(t)
  PROVE  GoodSub(plan.ops, Closed, sub')
<1>1. PICK P : P = plan.ops
  OBVIOUS
<1>2. PICK shut : shut = Closed
  OBVIOUS
<1>3. /\ IsProgram(P) /\ GoodSub(P, shut, sub) /\ Sound(P, shut, sub)
      /\ sub \in SubRecord /\ Wired(sub) /\ Owing(sub) /\ Handled(P, sub)
  BY <1>1, <1>2, PlanIsProgram DEF SubInv, GoodSub, Sound
<1>4. PICK n : n = sub.news
  OBVIOUS
<1>5. n \in Nat /\ n + 1 \in Nat
  BY <1>3, <1>4, SubFields
<1>6. PICK m : m = [cmd |-> "message", topic |-> t, n |-> n]
  OBVIOUS
<1>7. m \in Message /\ m.cmd = "message"
  BY <1>5, <1>6 DEF Message
<1>8. PICK sock : sock = [k \in Sock |->
                            IF Usable(sub, k) /\ t \in sub.sock[k].subs
                            THEN [sub.sock[k] EXCEPT !.told = Append(@, m)]
                            ELSE sub.sock[k]]
  OBVIOUS
<1>9. PICK owed : owed = [o \in Op |->
                            IF /\ o \in sub.handlers[t] /\ sub.op[o].told = "ok"
                               /\ Usable(sub, sub.cur) /\ sub.opens = None
                            THEN sub.owed[o] \cup {n} ELSE sub.owed[o]]
  OBVIOUS
<1>10. owed \in [Op -> SUBSET Nat]
  BY <1>3, <1>5, <1>9, SubFields
<1>11. PICK q : q = [sub EXCEPT !.news = n + 1, !.sock = sock, !.owed = owed]
  OBVIOUS
<1>12. sub' = q
  BY <1>4, <1>6, <1>8, <1>9, <1>11 DEF News
<1>13. /\ q.op = sub.op /\ q.queue = sub.queue /\ q.step = sub.step
       /\ q.opens = sub.opens /\ q.cur = sub.cur /\ q.dial = sub.dial
       /\ q.gen = sub.gen /\ q.waiter = sub.waiter /\ q.handlers = sub.handlers
       /\ q.sock = sock /\ q.owed = owed
       /\ sock \in [Sock -> SockState] => q \in SubRecord
  <2>1. /\ q.op = sub.op /\ q.queue = sub.queue /\ q.step = sub.step
        /\ q.opens = sub.opens /\ q.cur = sub.cur /\ q.dial = sub.dial
        /\ q.gen = sub.gen /\ q.waiter = sub.waiter /\ q.handlers = sub.handlers
        /\ q.sock = sock /\ q.owed = owed
    BY <1>3, <1>11 DEF SubRecord
  <2>2. sock \in [Sock -> SockState] => q \in SubRecord
    BY <1>3, <1>5, <1>10, <1>11 DEF SubRecord
  <2>3. QED
    BY <2>1, <2>2
<1>14. \A k \in Sock : Usable(sub, k) => k = sub.cur
  BY <1>3 DEF Wired, Usable
<1>15. CASE ~ (Usable(sub, sub.cur) /\ t \in sub.sock[sub.cur].subs)
  <2>1. \A k \in Sock : ~ (Usable(sub, k) /\ t \in sub.sock[k].subs)
    BY <1>14, <1>15
  <2>2. \A k \in Sock : sock[k] = sub.sock[k]
    BY <1>8, <2>1
  <2>3. sock = sub.sock
    <3>1. sub.sock \in [Sock -> SockState]
      BY <1>3, SubFields
    <3>2. QED
      BY <1>8, <2>2, <3>1
  <2>4. ASSUME NEW o \in Op
        PROVE  owed[o] = sub.owed[o]
    <3>1. ~ (/\ o \in sub.handlers[t] /\ sub.op[o].told = "ok"
             /\ Usable(sub, sub.cur) /\ sub.opens = None)
      BY <1>3, <1>15, NewsArrives DEF Usable
    <3>2. QED
      BY <1>9, <3>1
  <2>5. owed = sub.owed
    <3>1. sub.owed \in [Op -> SUBSET Nat]
      BY <1>3, SubFields
    <3>2. QED
      BY <1>9, <2>4, <3>1
  <2>6. Owing(q) /\ q \in SubRecord
    <3>1. q \in SubRecord
      BY <1>3, <1>13, <2>3, SubFields
    <3>2. QED
      BY <1>3, <1>13, <2>3, <2>5, <3>1 DEF Owing
  <2>7. GoodSub(P, shut, q)
    BY <1>3, <1>13, <2>3, <2>6, OwedGood
  <2>8. QED
    BY <1>1, <1>2, <1>12, <2>7
<1>16. CASE Usable(sub, sub.cur) /\ t \in sub.sock[sub.cur].subs
  <2>1. PICK k \in Sock : k = sub.cur
    BY <1>3, <1>16, SubFields DEF Usable
  <2>2. PICK z, new : z = sub.sock[k] /\ new = [z EXCEPT !.told = Append(@, m)]
    OBVIOUS
  <2>3. PICK longer, l : longer = Append(z.told, m) /\ l = Len(z.told) + 1
    OBVIOUS
  <2>4. PICK S : S = Command \cup Message \cup Refusal
    OBVIOUS
  <2>5. z \in SockState /\ z.told \in Seq(S) /\ m \in S
    <3>1. z \in SockState
      BY <1>3, <2>2, SubFields
    <3>2. QED
      BY <1>7, <2>4, <3>1 DEF SockState
  <2>6. /\ l \in DOMAIN longer /\ longer[l] = m
        /\ \A i \in DOMAIN z.told : i \in DOMAIN longer /\ longer[i] = z.told[i]
        /\ \A i \in DOMAIN longer : i \in DOMAIN z.told \/ i = l
    BY <2>3, <2>5, OneMore
  <2>7. /\ new \in SockState /\ new.at = z.at /\ new.gen = z.gen
        /\ new.left = z.left /\ new.asked = z.asked /\ new.told = longer
        /\ new.subs = z.subs
    <3>1. longer \in Seq(S)
      BY <2>3, <2>5
    <3>2. new = [z EXCEPT !.told = longer]
      BY <2>2, <2>3, <2>5 DEF SockState
    <3>3. QED
      BY <2>4, <2>5, <3>1, <3>2 DEF SockState
  <2>8. sock[k] = new /\ \A j \in Sock \ {k} : sock[j] = sub.sock[j]
    BY <1>8, <1>14, <1>16, <2>1, <2>2
  <2>9. sock \in [Sock -> SockState]
    <3>1. \A j \in Sock : sock[j] \in SockState
      BY <1>3, <2>7, <2>8, SubFields
    <3>2. QED
      BY <1>8, <3>1
  <2>10. Talks(sub, q, new)
    BY <1>13, <2>1, <2>2, <2>7, <2>8, <2>9 DEF Talks
  <2>11. \A w : Answering(z, w) => Answering(new, w)
    <3>1. ASSUME NEW w, Answering(z, w)
          PROVE  Answering(new, w)
      <4>1. CASE z.asked = Asked(w) /\ OnlyNews(z.told)
        <5>1. OnlyNews(longer)
          BY <1>7, <2>6, <4>1 DEF OnlyNews
        <5>2. QED
          BY <2>7, <4>1, <5>1 DEF Answering
      <4>2. ASSUME z.asked = None, NEW i \in DOMAIN z.told, AnswerAt(z, w, i)
            PROVE  Answering(new, w)
        <5>1. i \in DOMAIN longer /\ longer[i] = z.told[i]
          BY <2>6
        <5>2. \A j \in DOMAIN longer : j # i => longer[j].cmd = "message"
          BY <1>7, <2>6, <4>2 DEF AnswerAt
        <5>3. AnswerAt(new, w, i)
          BY <2>7, <4>2, <5>1, <5>2 DEF AnswerAt
        <5>4. QED
          BY <2>7, <4>2, <5>1, <5>3 DEF Answering
      <4>3. QED
        BY <3>1, <4>1, <4>2 DEF Answering
    <3>2. QED
      BY <3>1
  <2>12. OnlyNews(z.told) => OnlyNews(longer)
    BY <1>7, <2>6 DEF OnlyNews
  <2>13. Owing(q)
    <3>1. /\ \A u \in Op : owed[u] \subseteq sub.owed[u] \cup {n}
          /\ \A u \in Op : n \in owed[u] => n \in sub.owed[u] \/
               (u \in sub.handlers[t] /\ sub.op[u].told = "ok")
      BY <1>9
    <3>2. \A u \in Op : owed[u] # {} => sub.cur # None /\ sub.op[u].told = "ok"
      <4>1. \A u \in Op : sub.owed[u] # {} => sub.cur # None /\ sub.op[u].told = "ok"
        BY <1>3 DEF Owing
      <4>2. sub.cur # None
        BY <1>16 DEF Usable
      <4>3. QED
        BY <1>9, <4>1, <4>2
    <3>3. ASSUME NEW u \in Topic, NEW o \in sub.handlers[u], NEW x \in owed[o]
          PROVE  \E i \in DOMAIN longer :
                   longer[i] = [cmd |-> "message", topic |-> u, n |-> x]
      <4>1. o \in Op
        BY <1>3, SubFields
      <4>2. CASE x \in sub.owed[o]
        <5>1. PICK i \in DOMAIN z.told :
                z.told[i] = [cmd |-> "message", topic |-> u, n |-> x]
          BY <1>3, <2>1, <2>2, <3>3, <4>2 DEF Owing
        <5>2. i \in DOMAIN longer /\ longer[i] = z.told[i]
          BY <2>6
        <5>3. QED
          BY <5>1, <5>2
      <4>3. CASE x \notin sub.owed[o]
        <5>1. x = n /\ o \in sub.handlers[t]
          BY <3>1, <3>3, <4>1, <4>3
        <5>2. u = t
          BY <1>3, <3>3, <5>1 DEF Handled, Subscribes
        <5>3. longer[l] = [cmd |-> "message", topic |-> u, n |-> x]
          BY <1>6, <2>6, <5>1, <5>2
        <5>4. QED
          BY <2>6, <5>3
      <4>4. QED
        BY <4>2, <4>3
    <3>4. q.sock[q.cur].told = longer
      BY <1>13, <2>1, <2>7, <2>8
    <3>5. QED
      BY <1>13, <3>2, <3>3, <3>4 DEF Owing
  <2>14. GoodSub(P, shut, q)
    BY <1>3, <2>1, <2>2, <2>7, <2>10, <2>11, <2>12, <2>13, TalkGood
  <2>15. QED
    BY <1>1, <1>2, <1>12, <2>14
<1>17. QED
  BY <1>15, <1>16

(* The first message is taken.                                             *)
LEMMA OneLess ==
  ASSUME NEW S, NEW seq \in Seq(S), seq # <<>>, NEW rest, rest = Tail(seq)
  PROVE  /\ rest \in Seq(S) /\ 1 \in DOMAIN seq /\ seq[1] = Head(seq)
         /\ \A i \in DOMAIN rest : i + 1 \in DOMAIN seq /\ i + 1 # 1
                                   /\ rest[i] = seq[i + 1]
         /\ \A j \in DOMAIN seq : j # 1 => /\ j - 1 \in DOMAIN rest
                                           /\ rest[j - 1] = seq[j]
OBVIOUS

(* What the current socket holds without the first message.                *)
Taken(s, m, z, new) ==
  /\ s.cur \in Sock /\ z = s.sock[s.cur] /\ z.at = "up" /\ ~ z.broken
  /\ z.told # <<>> /\ m = Head(z.told)
  /\ new \in SockState /\ new.at = "up" /\ ~ new.broken /\ new.gen = z.gen
  /\ new.asked = z.asked /\ new.told = Tail(z.told) /\ new.subs = z.subs

(* The answer that was awaited.                                            *)
LEMMA AnswerTaken ==
  ASSUME NEW P, NEW shut, NEW s, GoodSub(P, shut, s), NEW m, NEW z, NEW new,
         Taken(s, m, z, new), m.cmd # "message", m.cmd # "error",
         NEW w, w = s.waiter
  PROVE  /\ w # None /\ Expects(P, s, w) /\ m = Asked(w)
         /\ new.asked = None /\ OnlyNews(new.told)
         /\ w.cmd = "subscribe" => w.topic \in new.subs
<1>1. PICK k \in Sock : k = s.cur
  BY DEF Taken
<1>2. s \in SubRecord /\ k # None /\ Waited(P, s)
  BY SubscriberAssumption DEF GoodSub, Sound
<1>3. z \in SockState
  BY <1>1, <1>2, SubFields DEF Taken
<1>4. PICK S : S = Command \cup Message \cup Refusal
  OBVIOUS
<1>5. PICK told, rest : told = z.told /\ rest = new.told
  OBVIOUS
<1>6. told \in Seq(S) /\ told # <<>> /\ rest = Tail(told) /\ m = Head(told)
  BY <1>3, <1>4, <1>5 DEF SockState, Taken
<1>7. /\ 1 \in DOMAIN told /\ told[1] = m
      /\ \A i \in DOMAIN rest : i + 1 \in DOMAIN told /\ i + 1 # 1
                                /\ rest[i] = told[i + 1]
  BY <1>6, OneLess
<1>8. ~ OnlyNews(told)
  BY <1>7 DEF OnlyNews
<1>9. w # None
  BY <1>1, <1>2, <1>5, <1>8 DEF Waited, Taken
<1>10. Expects(P, s, w)
  BY <1>2, <1>9 DEF Waited
<1>11. Answering(z, w)
  BY <1>10 DEF Expects, Taken
<1>12. PICK i \in DOMAIN told : AnswerAt(z, w, i) /\ z.asked = None
  BY <1>5, <1>8, <1>11 DEF Answering
<1>13. i = 1
  BY <1>5, <1>7, <1>12 DEF AnswerAt
<1>14. /\ \A j \in DOMAIN told : j # 1 => told[j].cmd = "message"
       /\ m = Asked(w) /\ w.cmd = "subscribe" => w.topic \in z.subs
  BY <1>5, <1>7, <1>12, <1>13 DEF AnswerAt
<1>15. OnlyNews(rest)
  BY <1>7, <1>14 DEF OnlyNews
<1>16. QED
  BY SMTT(30), <1>5, <1>9, <1>10, <1>12, <1>14, <1>15 DEF Taken, AnswerAt

(* Messages not heard yet are still there.                                 *)
LEMMA TakenOwing ==
  ASSUME NEW s \in SubRecord, Owing(s), NEW m, NEW z, NEW new, Taken(s, m, z, new),
         NEW q \in SubRecord, q.cur = s.cur, q.sock[s.cur] = new,
         q.handlers = s.handlers, q.op = s.op,
         \A o \in Op : q.owed[o] \subseteq s.owed[o],
         \A t \in Topic : \A o \in s.handlers[t] : \A n \in q.owed[o] :
           m # [cmd |-> "message", topic |-> t, n |-> n]
  PROVE  Owing(q)
<1>1. PICK k \in Sock : k = s.cur
  BY DEF Taken
<1>2. z \in SockState /\ \A t \in Topic : s.handlers[t] \subseteq Op
  BY <1>1, SubFields DEF Taken
<1>3. PICK S : S = Command \cup Message \cup Refusal
  OBVIOUS
<1>4. PICK told, rest : told = z.told /\ rest = new.told
  OBVIOUS
<1>5. told \in Seq(S) /\ told # <<>> /\ rest = Tail(told) /\ m = Head(told)
  BY <1>2, <1>3, <1>4 DEF SockState, Taken
<1>6. /\ told[1] = m
      /\ \A j \in DOMAIN told : j # 1 => /\ j - 1 \in DOMAIN rest
                                         /\ rest[j - 1] = told[j]
  BY <1>5, OneLess
<1>7. ASSUME NEW t \in Topic, NEW o \in q.handlers[t], NEW n \in q.owed[o]
      PROVE  \E i \in DOMAIN q.sock[q.cur].told :
               q.sock[q.cur].told[i] = [cmd |-> "message", topic |-> t, n |-> n]
  <2>1. o \in s.handlers[t] /\ n \in s.owed[o]
    BY <1>2, <1>7
  <2>2. PICK j \in DOMAIN told :
          told[j] = [cmd |-> "message", topic |-> t, n |-> n]
    BY <1>4, <2>1 DEF Owing, Taken
  <2>3. j # 1
    BY <1>6, <1>7, <2>1, <2>2
  <2>4. /\ j - 1 \in DOMAIN rest
        /\ rest[j - 1] = [cmd |-> "message", topic |-> t, n |-> n]
    BY <1>6, <2>2, <2>3
  <2>5. QED
    BY <1>4, <2>4
<1>8. \A o \in Op : q.owed[o] # {} => q.cur # None /\ q.op[o].told = "ok"
  BY DEF Owing
<1>9. QED
  BY <1>7, <1>8 DEF Owing

(* The answer is taken and nobody waits any more.                          *)
NobodyWaits(s, q, new) ==
  /\ q \in SubRecord /\ q.waiter = None /\ q.cur = s.cur /\ q.sock[s.cur] = new
  /\ \A j \in Sock \ {s.cur} : q.sock[j] = s.sock[j]
  /\ q.op = s.op /\ q.queue = s.queue /\ q.step = s.step
  /\ q.opens = s.opens /\ q.dial = s.dial /\ q.gen = s.gen
  /\ q.handlers = s.handlers /\ q.owed = s.owed

LEMMA FreeReady ==
  ASSUME NEW P, NEW shut, NEW s, GoodSub(P, shut, s), NEW m, NEW z, NEW new,
         Taken(s, m, z, new), m.cmd # "message", m.cmd # "error",
         NEW q, NobodyWaits(s, q, new)
  PROVE  Ready(P, shut, q) /\ s.op[Head(s.queue)].at = "running"
         /\ s.op[Head(s.queue)].told = None
<1>1. PICK k \in Sock : k = s.cur
  BY DEF Taken
<1>2. PICK w : w = s.waiter
  OBVIOUS
<1>3. /\ w # None /\ Expects(P, s, w)
      /\ new.asked = None /\ OnlyNews(new.told)
  BY <1>2, AnswerTaken
<1>4. /\ Sound(P, shut, s) /\ s \in SubRecord /\ Lined(P, s) /\ Wired(s)
      /\ Dialed(s) /\ Handled(P, s) /\ Registers(P, shut, s) /\ Owing(s)
      /\ Untold(s) /\ k # None
  BY SubscriberAssumption DEF GoodSub, Sound
<1>5. /\ q \in SubRecord /\ q.waiter = None /\ q.cur = k /\ q.sock[k] = new
      /\ \A j \in Sock \ {k} : q.sock[j] = s.sock[j]
      /\ q.op = s.op /\ q.queue = s.queue /\ q.step = s.step
      /\ q.opens = s.opens /\ q.dial = s.dial /\ q.gen = s.gen
      /\ q.handlers = s.handlers /\ q.owed = s.owed
  BY <1>1 DEF NobodyWaits
<1>6. /\ s.step # "idle"
      /\ s.step = "asking" \/ (s.cur # None /\ s.opens = s.cur)
  BY <1>1, <1>3, <1>4 DEF Expects, Dialed
<1>7. /\ s.queue # <<>> /\ s.op[Head(s.queue)].at = "running"
      /\ s.op[Head(s.queue)].told = None
  BY <1>4, <1>6 DEF Lined, Untold
<1>8. /\ new.at = "up" /\ ~ new.broken /\ new.gen <= s.gen
  BY <1>1, <1>4 DEF Taken, Wired
<1>9. Wired(q)
  <2>1. ASSUME NEW j \in Sock, j # k
        PROVE  /\ q.sock[j].at # "up" /\ q.cur # j
               /\ q.sock[j].gen <= q.gen
               /\ q.sock[j].at = "dialing" => ~ q.sock[j].broken
               /\ q.sock[j].asked = None
               /\ q.sock[j].told = <<>> /\ q.sock[j].subs = {}
    BY <1>1, <1>4, <1>5, <2>1 DEF Wired
  <2>2. q.sock[k].at = "up" /\ q.cur = k /\ q.sock[k].gen <= q.gen
    BY <1>5, <1>8
  <2>3. QED
    BY <2>1, <2>2 DEF Wired
<1>10. \A j \in Sock : ~ Wanted(q, j)
  <2>1. \A j \in Sock : ~ Wanted(s, j)
    BY <1>1, <1>4 DEF Dialed
  <2>2. ~ Wanted(q, k)
    BY <1>5, <1>8 DEF Wanted
  <2>3. \A j \in Sock \ {k} : ~ Wanted(q, j)
    BY <1>5, <2>1 DEF Wanted
  <2>4. QED
    BY <2>2, <2>3
<1>11. Owing(q)
  <2>1. \A t \in Topic : \A n : m # [cmd |-> "message", topic |-> t, n |-> n]
    OBVIOUS
  <2>2. q.sock[s.cur] = new /\ q.cur = s.cur
    BY <1>1, <1>5
  <2>3. QED
    BY <1>4, <1>5, <2>1, <2>2, TakenOwing
<1>12. Registers(P, shut, q)
  BY <1>4, <1>5 DEF Registers, GivenUp
<1>13. \A t \in Topic : \A o \in q.handlers[t] :
         Subscribes(P, o, t) /\ (q.op[o].told = "ok" \/ o = Head(q.queue))
  BY <1>4, <1>5 DEF Handled, Registering
<1>14. /\ q.queue \in Seq(DOMAIN P)
       /\ \A o \in Op : q.op[o].at = "running" => o = Head(q.queue)
  BY <1>4, <1>5 DEF Lined
<1>15. Ready(P, shut, q)
  BY <1>3, <1>5, <1>7, <1>9, <1>10, <1>11, <1>12, <1>13, <1>14 DEF Ready
<1>16. QED
  BY <1>7, <1>15

(* A message for its handlers.                                             *)
LEMMA HeardGood ==
  ASSUME NEW P, IsProgram(P), NEW shut, NEW s, GoodSub(P, shut, s), NEW m, NEW z,
         NEW new, Taken(s, m, z, new), new.left = z.left, m.cmd = "message",
         NEW q, Holds(s, s.cur, new, q)
  PROVE  GoodSub(P, shut, Heard(q, m))
<1>1. PICK k \in Sock : k = s.cur
  BY DEF Taken
<1>2. s \in SubRecord /\ Owing(s)
  BY DEF GoodSub, Sound
<1>3. z \in SockState
  BY <1>1, <1>2, SubFields DEF Taken
<1>4. PICK S : S = Command \cup Message \cup Refusal
  OBVIOUS
<1>5. PICK told, rest : told = z.told /\ rest = new.told
  OBVIOUS
<1>6. told \in Seq(S) /\ told # <<>> /\ rest = Tail(told) /\ m = Head(told)
  BY <1>3, <1>4, <1>5 DEF SockState, Taken
<1>7. /\ 1 \in DOMAIN told /\ told[1] = m
      /\ \A i \in DOMAIN rest : i + 1 \in DOMAIN told /\ i + 1 # 1
                                /\ rest[i] = told[i + 1]
      /\ \A j \in DOMAIN told : j # 1 => /\ j - 1 \in DOMAIN rest
                                         /\ rest[j - 1] = told[j]
  BY <1>6, OneLess
<1>8. PICK owed : owed = [o \in Op |-> IF o \in q.handlers[m.topic]
                                       THEN q.owed[o] \ {m.n} ELSE q.owed[o]]
  OBVIOUS
<1>9. q \in SubRecord /\ q.handlers = s.handlers /\ q.owed = s.owed
  BY DEF Holds
<1>10. owed \in [Op -> SUBSET Nat] /\ \A o \in Op : owed[o] \subseteq s.owed[o]
  BY <1>8, <1>9, SubFields
<1>11. PICK r : r = [q EXCEPT !.owed = owed]
  OBVIOUS
<1>12. Heard(q, m) = r
  BY <1>8, <1>11 DEF Heard
<1>13. /\ r \in SubRecord /\ r.owed = owed
       /\ r.op = q.op /\ r.queue = q.queue /\ r.step = q.step
       /\ r.opens = q.opens /\ r.cur = q.cur /\ r.dial = q.dial
       /\ r.gen = q.gen /\ r.waiter = q.waiter /\ r.handlers = q.handlers
       /\ r.sock = q.sock
  BY <1>9, <1>10, <1>11 DEF SubRecord
<1>14. /\ r.op = s.op /\ r.queue = s.queue /\ r.step = s.step
       /\ r.opens = s.opens /\ r.cur = s.cur /\ r.dial = s.dial
       /\ r.gen = s.gen /\ r.waiter = s.waiter /\ r.handlers = s.handlers
       /\ r.sock[s.cur] = new /\ \A j \in Sock \ {s.cur} : r.sock[j] = s.sock[j]
  BY <1>13 DEF Holds
<1>15. Talks(s, r, new)
  BY <1>1, <1>13, <1>14 DEF Talks, Taken
<1>16. ASSUME NEW t \in Topic, NEW o \in s.handlers[t], NEW n \in r.owed[o]
       PROVE  m # [cmd |-> "message", topic |-> t, n |-> n]
  <2>1. SUFFICES ASSUME m = [cmd |-> "message", topic |-> t, n |-> n]
                 PROVE  FALSE
    OBVIOUS
  <2>2. m.topic = t /\ m.n = n /\ o \in Op
    BY <1>2, <2>1, SubFields
  <2>3. n \notin owed[o]
    BY <1>8, <1>9, <1>16, <2>2
  <2>4. QED
    BY <1>13, <1>16, <2>3
<1>17. Owing(r)
  BY <1>2, <1>10, <1>13, <1>14, <1>16, TakenOwing
<1>18. OnlyNews(told) => OnlyNews(rest)
  BY <1>7 DEF OnlyNews
<1>19. ASSUME NEW w, w = s.waiter, w # None, Answering(z, w)
       PROVE  Answering(new, w)
  <2>1. new.asked = z.asked /\ new.subs = z.subs
    BY DEF Taken
  <2>2. CASE z.asked = Asked(w) /\ OnlyNews(told)
    BY <1>5, <1>18, <2>1, <2>2 DEF Answering
  <2>3. ASSUME z.asked = None, NEW i \in DOMAIN told, AnswerAt(z, w, i)
        PROVE  Answering(new, w)
    <3>1. told[i].cmd # "message"
      <4>1. Asked(w).cmd \in {"subscribe", "unsubscribe"}
        BY <1>2, <1>19, SubFields DEF RoundTripOf, Asked
      <4>2. QED
        BY <1>5, <2>3, <4>1 DEF AnswerAt
    <3>2. i # 1
      BY <1>7, <3>1
    <3>3. i - 1 \in DOMAIN rest /\ rest[i - 1] = told[i]
      BY <1>7, <3>2
    <3>4. ASSUME NEW j \in DOMAIN rest, j # i - 1
          PROVE  rest[j].cmd = "message"
      <4>1. j + 1 \in DOMAIN told /\ rest[j] = told[j + 1]
        BY <1>7
      <4>2. j + 1 # i
        <5>1. j \in Int /\ i \in Int
          BY <1>6
        <5>2. QED
          BY <3>4, <5>1
      <4>3. QED
        BY <1>5, <2>3, <4>1, <4>2 DEF AnswerAt
    <3>5. AnswerAt(new, w, i - 1)
      BY <1>5, <2>1, <2>3, <3>3, <3>4 DEF AnswerAt
    <3>6. QED
      BY <1>5, <2>1, <2>3, <3>3, <3>5 DEF Answering
  <2>4. QED
    BY <1>5, <1>19, <2>2, <2>3 DEF Answering
<1>20. /\ z = s.sock[s.cur] /\ new.subs = z.subs /\ new.asked = z.asked
  BY DEF Taken
<1>21. GoodSub(P, shut, r)
  BY <1>5, <1>15, <1>17, <1>18, <1>19, <1>20, TalkGood
<1>22. QED
  BY <1>12, <1>21

(* A socket that is closed may hold anything.                              *)
LEMMA CloseSubHolds ==
  ASSUME NEW s \in SubRecord, NEW k \in Sock, s.cur = k, s.sock[k].at = "up",
         NEW new \in SockState, new.at = "up", NEW q, q = [s EXCEPT !.sock[k] = new]
  PROVE  CloseSub(q) = CloseSub(s)
<1>1. Holds(s, k, new, q)
  BY HoldsFields
<1>2. /\ q \in SubRecord /\ q.dial = s.dial /\ q.cur = k /\ q.gen = s.gen
      /\ q.waiter = s.waiter /\ q.sock[k] = new
      /\ \A j \in Sock \ {k} : q.sock[j] = s.sock[j]
  BY <1>1 DEF Holds
<1>3. PICK a : a = [j \in Sock |->
        IF j = s.dial /\ s.sock[j].at = "auth"
        THEN [s.sock[j] EXCEPT !.broken = TRUE]
        ELSE IF j = s.cur THEN NoSock ELSE s.sock[j]]
  OBVIOUS
<1>4. PICK b : b = [j \in Sock |->
        IF j = q.dial /\ q.sock[j].at = "auth"
        THEN [q.sock[j] EXCEPT !.broken = TRUE]
        ELSE IF j = q.cur THEN NoSock ELSE q.sock[j]]
  OBVIOUS
<1>5. \A j \in Sock : b[j] = a[j]
  <2>1. b[k] = NoSock /\ a[k] = NoSock
    BY <1>2, <1>3, <1>4
  <2>2. ASSUME NEW j \in Sock, j # k
        PROVE  b[j] = a[j]
    <3>1. /\ b[j] = IF j = s.dial /\ q.sock[j].at = "auth"
                    THEN [q.sock[j] EXCEPT !.broken = TRUE] ELSE q.sock[j]
          /\ a[j] = IF j = s.dial /\ s.sock[j].at = "auth"
                    THEN [s.sock[j] EXCEPT !.broken = TRUE] ELSE s.sock[j]
      BY <1>2, <1>3, <1>4, <2>2
    <3>2. q.sock[j] = s.sock[j]
      BY <1>2, <2>2
    <3>3. QED
      BY <3>1, <3>2
  <2>3. QED
    BY <2>1, <2>2
<1>6. b = a
  BY <1>3, <1>4, <1>5
<1>7. PICK owed : owed = [o \in Op |-> {}]
  OBVIOUS
<1>8. Torn(s) = [s EXCEPT !.gen = s.gen + 1, !.cur = None, !.dial = None,
                          !.waiter = None, !.owed = owed, !.sock = a]
  BY <1>3, <1>7 DEF Torn, SubRecord
<1>9. Torn(q) = [q EXCEPT !.gen = s.gen + 1, !.cur = None, !.dial = None,
                          !.waiter = None, !.owed = owed, !.sock = a]
  BY <1>2, <1>4, <1>6, <1>7 DEF Torn, SubRecord
<1>10. PICK sock : sock = [s.sock EXCEPT ![k] = new]
  OBVIOUS
<1>11. q = [s EXCEPT !.sock = sock]
  BY <1>10 DEF SubRecord
<1>12. Torn(q) = Torn(s)
  BY ZenonT(60), <1>8, <1>9, <1>11 DEF SubRecord
<1>13. QED
  BY <1>2, <1>12 DEF CloseSub

LEMMA AckedGood ==
  ASSUME plan \in Plan, NEW s, GoodSub(plan.ops, Closed, s), NEW m, NEW z,
         NEW new, Taken(s, m, z, new), new.left = z.left,
         m.cmd # "message", m.cmd # "error", NEW q, Holds(s, s.cur, new, q)
  PROVE  GoodSub(plan.ops, Closed, Acked(q, m))
<1>1. PICK P : P = plan.ops
  OBVIOUS
<1>2. PICK shut : shut = Closed
  OBVIOUS
<1>3. PICK k \in Sock : k = s.cur
  BY DEF Taken
<1>4. PICK w : w = s.waiter
  OBVIOUS
<1>5. PICK h : h = Head(s.queue)
  OBVIOUS
<1>6. /\ IsProgram(P) /\ GoodSub(P, shut, s) /\ Sound(P, shut, s)
      /\ s \in SubRecord /\ Covered(s) /\ Dialed(s) /\ Handled(P, s) /\ k # None
  BY <1>1, <1>2, PlanIsProgram, SubscriberAssumption DEF GoodSub, Sound
<1>7. /\ w # None /\ Expects(P, s, w) /\ m = Asked(w)
      /\ new.asked = None /\ OnlyNews(new.told)
      /\ w.cmd = "subscribe" => w.topic \in new.subs
  BY <1>4, <1>6, AnswerTaken
<1>8. /\ m.cmd = w.cmd /\ m.topic = w.topic
      /\ w.cmd \in {"subscribe", "unsubscribe"} /\ w.topic \in Topic
      /\ w.open \in Sock \cup {None}
  <2>1. w \in RoundTripOf
    BY <1>4, <1>6, <1>7, SubFields
  <2>2. QED
    BY <1>7, <2>1 DEF RoundTripOf, Asked
<1>9. /\ q \in SubRecord /\ q.sock[k] = new
      /\ \A j \in Sock \ {k} : q.sock[j] = s.sock[j]
      /\ q.op = s.op /\ q.queue = s.queue /\ q.step = s.step
      /\ q.opens = s.opens /\ q.cur = k /\ q.dial = s.dial
      /\ q.gen = s.gen /\ q.waiter = w /\ q.handlers = s.handlers
      /\ q.owed = s.owed
  BY <1>3, <1>4 DEF Holds
<1>10. /\ new \in SockState /\ new.at = "up" /\ ~ new.broken
       /\ new.subs = s.sock[k].subs /\ new.left = s.sock[k].left
  BY <1>3 DEF Taken
<1>11. CASE w.open # None
  <2>1. w.open = k /\ s.opens = k /\ s.step = "opening" /\ w.cmd = "subscribe"
    BY <1>3, <1>6, <1>7, <1>11 DEF Expects, Dialed
  <2>2. PICK more : more = [new EXCEPT !.left = new.left \ {m.topic}]
    OBVIOUS
  <2>3. /\ more \in SockState /\ more.at = "up" /\ ~ more.broken
        /\ more.gen = new.gen /\ more.asked = new.asked /\ more.told = new.told
        /\ more.subs = new.subs /\ more.left = new.left \ {m.topic}
    BY <1>10, <2>2 DEF SockState
  <2>4. PICK r : r = [q EXCEPT !.waiter = None,
                               !.sock[k].left = @ \ {m.topic}]
    OBVIOUS
  <2>5. PICK sock : sock = [q.sock EXCEPT ![k] = more]
    OBVIOUS
  <2>6. /\ sock \in [Sock -> SockState] /\ sock[k] = more
        /\ \A j \in Sock \ {k} : sock[j] = q.sock[j]
    BY <1>9, <2>3, <2>5, SubFields
  <2>7. r = [q EXCEPT !.waiter = None, !.sock = sock]
    BY <1>9, <2>2, <2>4, <2>5 DEF SubRecord
  <2>8. /\ r \in SubRecord /\ r.waiter = None /\ r.sock = sock
        /\ r.cur = k /\ r.op = s.op /\ r.queue = s.queue /\ r.step = s.step
        /\ r.opens = s.opens /\ r.dial = s.dial /\ r.gen = s.gen
        /\ r.handlers = s.handlers /\ r.owed = s.owed
    BY <1>9, <2>6, <2>7 DEF SubRecord
  <2>9. NobodyWaits(s, r, more)
    BY <1>3, <1>9, <2>6, <2>8 DEF NobodyWaits
  <2>10. Taken(s, m, z, more)
    BY <2>3 DEF Taken
  <2>11. /\ Ready(P, shut, r) /\ s.op[Head(s.queue)].at = "running"
         /\ s.op[Head(s.queue)].told = None
    BY <1>6, <2>9, <2>10, FreeReady
  <2>12. AllTold(r)
    <3>1. AllTold(s)
      BY <1>6, <2>1, OpeningFacts
    <3>2. QED
      BY <2>8, <3>1 DEF AllTold
  <2>13. Registered(r) \subseteq r.sock[k].subs \cup r.sock[k].left
    <3>1. ASSUME NEW t \in Registered(s)
          PROVE  t \in more.subs \/ t \in more.left
      <4>1. t \in s.sock[k].subs \/ t \in s.sock[k].left
        BY <1>3, <1>4, <1>6, <1>11, <3>1 DEF Covered
      <4>2. m.topic \in more.subs
        BY <1>7, <1>8, <2>1, <2>3
      <4>3. QED
        BY <1>10, <2>3, <4>1, <4>2
    <3>2. QED
      BY <2>6, <2>8, <3>1 DEF Registered
  <2>14. Usable(r, k)
    BY <1>6, <2>3, <2>6, <2>8 DEF Usable
  <2>15. Runs(P, shut, r, Head(r.queue))
    BY <2>8, <2>11, <2>12 DEF Runs
  <2>16. Restores(P, shut, r, k)
    BY <2>1, <2>8, <2>13, <2>14, <2>15 DEF Restores
  <2>17. GoodSub(P, shut, Restore(r, k))
    BY <1>1, <1>2, <2>16, RestoreGood
  <2>18. Acked(q, m) = Restore(r, k)
    BY <1>6, <1>7, <1>8, <1>9, <2>1, <2>4 DEF Acked
  <2>19. QED
    BY <1>1, <1>2, <2>17, <2>18
<1>12. CASE w.open = None
  <2>1. s.step = "asking" /\ s.opens = None
    BY <1>3, <1>6, <1>7, <1>12 DEF Expects, Dialed
  <2>2. PICK r : r = [q EXCEPT !.waiter = None]
    OBVIOUS
  <2>3. /\ r \in SubRecord /\ r.waiter = None /\ r.sock = q.sock
        /\ r.cur = k /\ r.op = s.op /\ r.queue = s.queue /\ r.step = s.step
        /\ r.opens = s.opens /\ r.dial = s.dial /\ r.gen = s.gen
        /\ r.handlers = s.handlers /\ r.owed = s.owed
    BY <1>9, <2>2 DEF SubRecord
  <2>4. NobodyWaits(s, r, new)
    BY <1>3, <1>9, <2>3 DEF NobodyWaits
  <2>5. Ready(P, shut, r) /\ s.op[h].told = None
    BY <1>5, <1>6, <2>4, FreeReady
  <2>6. Restored(r)
    <3>1. ASSUME NEW t \in Registered(s)
          PROVE  t \in new.subs
      <4>1. t \in s.sock[k].subs \/ (w.cmd = "subscribe" /\ w.topic = t)
        BY <1>3, <1>4, <1>6, <2>1, <3>1 DEF Covered
      <4>2. QED
        BY <1>7, <1>10, <4>1
    <3>2. QED
      BY <1>9, <2>3, <3>1 DEF Restored, Registered
  <2>7. CASE w.cmd = "unsubscribe"
    <3>1. P[Head(r.queue)].do = "unsubscribe"
      BY <1>7, <1>12, <2>3, <2>7 DEF Expects
    <3>2. Acked(q, m) = AfterUnsub(r)
      BY <1>7, <1>8, <1>9, <1>12, <2>2, <2>7 DEF Acked
    <3>3. QED
      BY <1>1, <1>2, <1>6, <2>5, <2>6, <3>1, <3>2, AfterUnsubGood
  <2>8. CASE w.cmd = "subscribe"
    <3>1. s.handlers[w.topic] = {h} /\ Subscribes(P, h, w.topic)
      BY <1>5, <1>7, <1>12, <2>8 DEF Expects
    <3>2. Ends(P, r, "ok")
      BY <1>5, <2>3, <2>5, <3>1 DEF Ends, Subscribes
    <3>3. Acked(q, m) = OpOver(r, "ok")
      BY <1>7, <1>8, <1>9, <1>12, <2>2, <2>8 DEF Acked
    <3>4. QED
      BY <1>1, <1>2, <1>6, <2>5, <2>6, <3>2, <3>3, OverGood
  <2>9. QED
    BY <1>8, <2>7, <2>8
<1>13. QED
  BY <1>11, <1>12

LEMMA SubDataStep ==
  ASSUME SubInv, NEW k \in Sock, SubData(k)
  PROVE  GoodSub(plan.ops, Closed, sub')
<1>1. PICK P : P = plan.ops
  OBVIOUS
<1>2. PICK shut : shut = Closed
  OBVIOUS
<1>3. PICK z, m : z = sub.sock[k] /\ m = Head(z.told)
  OBVIOUS
<1>4. /\ plan \in Plan /\ IsProgram(P) /\ GoodSub(P, shut, sub)
      /\ Sound(P, shut, sub) /\ sub \in SubRecord
      /\ z.at = "up" /\ ~ z.broken /\ z.told # <<>>
  BY <1>1, <1>2, <1>3, PlanIsProgram DEF SubInv, SubData, Usable, GoodSub, Sound
<1>5. sub.cur = k
  BY <1>3, <1>4 DEF Sound, Wired
<1>6. PICK new : new = [z EXCEPT !.told = Tail(z.told)]
  OBVIOUS
<1>7. /\ z \in SockState
      /\ new \in SockState /\ new.at = "up" /\ ~ new.broken /\ new.gen = z.gen
      /\ new.asked = z.asked /\ new.told = Tail(z.told) /\ new.subs = z.subs
      /\ new.left = z.left
  <2>1. z \in SockState
    BY <1>3, <1>4, SubFields
  <2>2. PICK S, told : S = Command \cup Message \cup Refusal /\ told = Tail(z.told)
    OBVIOUS
  <2>3. told \in Seq(S)
    BY <1>4, <2>1, <2>2, OneLess DEF SockState
  <2>4. QED
    BY <1>4, <1>6, <2>1, <2>2, <2>3 DEF SockState
<1>8. PICK q : q = [sub EXCEPT !.sock[k] = new]
  OBVIOUS
<1>9. Holds(sub, k, new, q)
  BY <1>4, <1>7, <1>8, HoldsFields
<1>10. Taken(sub, m, z, new)
  BY <1>3, <1>4, <1>5, <1>7 DEF Taken
<1>11. sub' = IF m.cmd = "error" THEN CloseSub(q)
              ELSE IF m.cmd = "message" THEN Heard(q, m) ELSE Acked(q, m)
  <2>1. q = [sub EXCEPT !.sock[k].told = Tail(@)]
    BY <1>3, <1>4, <1>6, <1>8 DEF SubRecord
  <2>2. QED
    BY <1>3, <1>5, <2>1 DEF SubData
<1>12. CASE m.cmd = "error"
  <2>1. CloseSub(q) = CloseSub(sub)
    BY <1>3, <1>4, <1>5, <1>7, <1>8, CloseSubHolds
  <2>2. QED
    BY <1>1, <1>2, <1>4, <1>11, <1>12, <2>1, CloseSubGood
<1>13. CASE m.cmd = "message"
  <2>1. GoodSub(P, shut, Heard(q, m))
    BY <1>4, <1>5, <1>7, <1>9, <1>10, <1>13, HeardGood
  <2>2. QED
    BY <1>1, <1>2, <1>11, <1>13, <2>1
<1>14. CASE m.cmd # "error" /\ m.cmd # "message"
  <2>1. GoodSub(plan.ops, Closed, Acked(q, m))
    BY <1>1, <1>2, <1>4, <1>5, <1>7, <1>9, <1>10, <1>14, AckedGood
  <2>2. QED
    BY <1>11, <1>14, <2>1
<1>15. QED
  BY <1>12, <1>13, <1>14

-----------------------------------------------------------------------------
(* close()                                                                 *)

(* A closed client need not keep the handlers.                             *)
LEMMA ShutGood ==
  ASSUME NEW P, NEW shut, NEW s, GoodSub(P, shut, s)
  PROVE  GoodSub(P, TRUE, s)
BY DEF GoodSub, Sound, Registers

Silenced(s, q) ==
  /\ q \in SubRecord /\ SameWires(s, q)
  /\ q.op = s.op /\ q.queue = s.queue /\ q.step = s.step
  /\ q.opens = s.opens /\ q.owed = s.owed
  /\ \A t \in Topic : q.handlers[t] = {}

LEMMA SilencedFields ==
  ASSUME NEW s \in SubRecord, NEW q, q = [s EXCEPT !.handlers = [t \in Topic |-> {}]]
  PROVE  Silenced(s, q)
<1>1. PICK handlers : handlers = [t \in Topic |-> {}]
  OBVIOUS
<1>2. handlers \in [Topic -> SUBSET Op] /\ \A t \in Topic : handlers[t] = {}
  BY <1>1
<1>3. q = [s EXCEPT !.handlers = handlers]
  BY <1>1
<1>4. QED
  BY <1>2, <1>3 DEF Silenced, SubRecord, SameWires

LEMMA SilencedReady ==
  ASSUME NEW P, NEW s, Ready(P, TRUE, s), NEW q, Silenced(s, q)
  PROVE  Ready(P, TRUE, q) /\ Restored(q) /\ AllTold(q)
<1>1. /\ q \in SubRecord /\ q.cur = s.cur /\ q.dial = s.dial /\ q.gen = s.gen
      /\ q.sock = s.sock /\ q.waiter = s.waiter
      /\ q.op = s.op /\ q.queue = s.queue /\ q.owed = s.owed
      /\ \A t \in Topic : q.handlers[t] = {}
  BY DEF Silenced, SameWires
<1>2. Registered(q) = {} /\ AllTold(q)
  BY <1>1 DEF Registered, AllTold
<1>3. Wired(q) /\ \A k \in Sock : ~ Wanted(q, k)
  BY <1>1 DEF Ready, Wired, Wanted
<1>4. Owing(q)
  BY <1>1 DEF Ready, Owing
<1>5. Registers(P, TRUE, q)
  BY DEF Registers
<1>6. Ready(P, TRUE, q)
  BY <1>1, <1>3, <1>4, <1>5 DEF Ready
<1>7. QED
  BY <1>2, <1>6 DEF Restored

LEMMA SilencedGood ==
  ASSUME NEW P, NEW s, GoodSub(P, TRUE, s), s.waiter = None, NEW q, Silenced(s, q)
  PROVE  GoodSub(P, TRUE, q)
<1>1. /\ q \in SubRecord /\ q.cur = s.cur /\ q.dial = s.dial /\ q.gen = s.gen
      /\ q.sock = s.sock /\ q.waiter = None /\ q.step = s.step
      /\ q.op = s.op /\ q.queue = s.queue /\ q.owed = s.owed
      /\ q.opens = s.opens /\ \A t \in Topic : q.handlers[t] = {}
  BY DEF Silenced, SameWires
<1>2. /\ Lined(P, s) /\ Wired(s) /\ Dialed(s) /\ Waited(P, s)
      /\ Untold(s) /\ Owing(s) /\ s.step # "running"
  BY DEF GoodSub, Sound
<1>3. Lined(P, q) /\ Wired(q) /\ Dialed(q)
  BY <1>1, <1>2 DEF Lined, Wired, Dialed, Wanted
<1>4. Waited(P, q)
  BY <1>1, <1>2 DEF Waited
<1>5. Covered(q) /\ Handled(P, q)
  BY <1>1 DEF Covered, Handled, Registered
<1>6. Registers(P, TRUE, q) /\ Owing(q)
  BY <1>1, <1>2 DEF Registers, Owing
<1>7. Untold(q)
  BY <1>1, <1>2 DEF Untold, Wanted
<1>8. QED
  BY <1>1, <1>2, <1>3, <1>4, <1>5, <1>6, <1>7 DEF GoodSub, Sound

LEMMA SubClosedGood ==
  ASSUME NEW P, IsProgram(P), NEW s, Sound(P, TRUE, s)
  PROVE  GoodSub(P, TRUE, SubClosed(s))
<1>1. PICK torn : torn = Torn(s)
  OBVIOUS
<1>2. PICK q : q = [torn EXCEPT !.handlers = [t \in Topic |-> {}]]
  OBVIOUS
<1>3. PICK w : w = s.waiter
  OBVIOUS
<1>4. /\ s \in SubRecord /\ torn \in SubRecord /\ torn.cur = None
      /\ torn.waiter = None /\ torn.queue = s.queue /\ torn.opens = s.opens
      /\ torn.op = s.op
  BY <1>1, TornFields DEF Sound
<1>5. Silenced(torn, q)
  BY <1>2, <1>4, SilencedFields
<1>6. /\ q \in SubRecord /\ q.cur = None /\ q.waiter = None /\ q.queue = s.queue
      /\ q.opens = s.opens /\ q.op = s.op /\ \A t \in Topic : q.handlers[t] = {}
  BY <1>4, <1>5 DEF Silenced, SameWires
<1>7. SubClosed(s) = RoundTripFails(q, w)
  BY <1>1, <1>2, <1>3 DEF SubClosed
<1>8. CASE w = None
  <2>1. GoodSub(P, TRUE, torn)
    BY <1>1, <1>3, <1>8, TornGood
  <2>2. GoodSub(P, TRUE, q)
    BY <1>4, <1>5, <2>1, SilencedGood
  <2>3. QED
    BY <1>7, <1>8, <2>2 DEF RoundTripFails
<1>9. ASSUME w # None
      PROVE  /\ w.cmd \in {"subscribe", "unsubscribe"} /\ w.open \in Sock \cup {None}
             /\ Expects(P, s, w) /\ s.step # "idle"
             /\ Ready(P, TRUE, q) /\ Restored(q) /\ AllTold(q)
  <2>1. w.cmd \in {"subscribe", "unsubscribe"} /\ w.open \in Sock \cup {None}
    BY <1>3, <1>4, <1>9, SubFields DEF RoundTripOf
  <2>2. Expects(P, s, w)
    BY <1>3, <1>9 DEF Sound, Waited
  <2>3. s.step # "idle"
    BY <2>1, <2>2 DEF Sound, Expects, Dialed
  <2>4. Ready(P, TRUE, torn)
    BY <1>1, <2>3, SoundLoose, TornReady
  <2>5. QED
    BY <1>5, <2>1, <2>2, <2>3, <2>4, SilencedReady
<1>10. CASE w # None /\ w.open # None
  <2>1. PICK k \in Sock : k = w.open
    BY <1>9, <1>10
  <2>2. q.opens = k
    BY <1>6, <1>9, <1>10, <2>1 DEF Expects
  <2>3. \A t \in Topic : \A o \in q.handlers[t] : Subscribes(P, o, t)
    BY <1>6
  <2>4. GoodSub(P, TRUE, OpenFails(q, k))
    BY <1>6, <1>9, <1>10, <2>2, <2>3, OpenLost DEF Ready
  <2>5. QED
    BY <1>7, <1>10, <2>1, <2>4 DEF RoundTripFails
<1>11. CASE w # None /\ w.open = None /\ w.cmd = "unsubscribe"
  <2>1. P[Head(q.queue)].do = "unsubscribe"
    BY <1>6, <1>9, <1>11 DEF Expects
  <2>2. QED
    BY <1>7, <1>9, <1>11, <2>1, AfterUnsubGood DEF RoundTripFails
<1>12. CASE w # None /\ w.open = None /\ w.cmd = "subscribe"
  <2>1. PICK h : h = Head(q.queue)
    OBVIOUS
  <2>2. h \in Op
    <3>1. q.queue \in Seq(Op) /\ q.queue # <<>>
      BY <1>6, <1>9, <1>12, SubFields DEF Ready
    <3>2. QED
      BY <2>1, <3>1, HeadTailProperties
  <2>3. PICK r : r = Forget(q, h)
    OBVIOUS
  <2>4. Ready(P, TRUE, r) /\ Restored(r)
    BY <1>9, <1>12, <2>2, <2>3, ForgetReady
  <2>5. r.queue = q.queue /\ \A t \in Topic : h \notin r.handlers[t]
    BY <1>6, <2>3, ForgetFields
  <2>6. Ends(P, r, "failed")
    BY <2>1, <2>5 DEF Ends
  <2>7. RoundTripFails(q, w) = OpOver(r, "failed")
    BY <1>12, <2>1, <2>3 DEF RoundTripFails
  <2>8. QED
    BY <1>7, <2>4, <2>6, <2>7, OverGood
<1>13. QED
  BY <1>8, <1>9, <1>10, <1>11, <1>12

-----------------------------------------------------------------------------
(* The invariant.                                                          *)

LEMMA SubInitGood ==
  ASSUME Init
  PROVE  SubInv
<1>1. PICK P : P = plan.ops
  OBVIOUS
<1>2. /\ plan \in Plan /\ IsProgram(P) /\ SubInit
  BY <1>1, PlanIsProgram DEF Init
<1>3. PICK none, empty, new :
        /\ none = <<>> /\ empty = {} /\ new = [at |-> "new", told |-> None]
  OBVIOUS
<1>4. new \in OpState /\ none \in Seq(Op) /\ none \in Seq(DOMAIN P)
  BY <1>3 DEF OpState
<1>5. PICK op, handlers, sock, owed :
        /\ op = [o \in Op |-> new] /\ handlers = [t \in Topic |-> empty]
        /\ sock = [k \in Sock |-> NoSock] /\ owed = [o \in Op |-> empty]
  OBVIOUS
<1>6. /\ op \in [Op -> OpState] /\ handlers \in [Topic -> SUBSET Op]
      /\ sock \in [Sock -> SockState] /\ owed \in [Op -> SUBSET Nat]
  BY <1>3, <1>4, <1>5, NoSockType
<1>7. sub = [op |-> op, queue |-> none, step |-> "idle", opens |-> None,
             cur |-> None, dial |-> None, gen |-> 0, waiter |-> None,
             handlers |-> handlers, sock |-> sock, news |-> 0, owed |-> owed]
  BY <1>2, <1>3, <1>5 DEF SubInit
<1>8. /\ sub \in SubRecord
      /\ sub.op = op /\ sub.queue = <<>> /\ sub.step = "idle" /\ sub.opens = None
      /\ sub.cur = None /\ sub.gen = 0 /\ sub.waiter = None
      /\ sub.handlers = handlers /\ sub.sock = sock /\ sub.owed = owed
  <2>1. sub \in SubRecord
    BY <1>4, <1>6, <1>7 DEF SubRecord
  <2>2. QED
    BY <1>3, <1>7, <2>1
<1>9. /\ \A k \in Sock : sub.sock[k] = NoSock /\ k # None
      /\ \A t \in Topic : sub.handlers[t] = {}
      /\ \A o \in Op : /\ sub.op[o].at = "new" /\ sub.op[o].told = None
                       /\ sub.owed[o] = {}
  BY <1>3, <1>5, <1>8, SubscriberAssumption
<1>10. Lined(P, sub)
  BY <1>4, <1>3, <1>8, <1>9 DEF Lined
<1>11. Wired(sub) /\ \A k \in Sock : ~ Wanted(sub, k)
  BY <1>8, <1>9, NoSockType DEF Wired, Wanted
<1>12. Dialed(sub) /\ Waited(P, sub) /\ Untold(sub)
  BY <1>8, <1>11 DEF Dialed, Waited, Untold
<1>13. Covered(sub) /\ Handled(P, sub) /\ Owing(sub)
  BY <1>8, <1>9 DEF Covered, Handled, Owing, Registered
<1>14. Registers(P, Closed, sub)
  BY <1>2, <1>9, SubscriberAssumption DEF Registers, IsProgram
<1>15. QED
  BY <1>1, <1>2, <1>8, <1>10, <1>11, <1>12, <1>13, <1>14 DEF SubInv, GoodSub, Sound

LEMMA SubNextGood ==
  ASSUME SubInv, SubNext
  PROVE  GoodSub(plan.ops, Closed, sub')
<1>1. CASE BeginOp \/ ConnectDeadline \/ RoundTripTimer
  BY <1>1, BeginOpStep, ConnectDeadlineStep, RoundTripTimerStep
<1>2. ASSUME NEW o \in Op, SubCall(o) \/ OpDeadline(o)
      PROVE  GoodSub(plan.ops, Closed, sub')
  BY <1>2, SubCallStep, OpDeadlineStep
<1>3. ASSUME NEW k \in Sock, SubDialDone(k) \/ SubDialFails(k) \/ SubAuthEnds(k)
      PROVE  GoodSub(plan.ops, Closed, sub')
  BY <1>3, SubDialDoneStep, SubDialFailsStep, SubAuthEndsStep
<1>4. ASSUME NEW k \in Sock, SubBreaks(k) \/ SubCloseEvent(k)
      PROVE  GoodSub(plan.ops, Closed, sub')
  BY <1>4, SubBreaksStep, SubCloseEventStep
<1>5. ASSUME NEW k \in Sock, ServerTakes(k) \/ SubData(k)
      PROVE  GoodSub(plan.ops, Closed, sub')
  BY <1>5, ServerTakesStep, SubDataStep
<1>6. ASSUME NEW t \in Topic, News(t)
      PROVE  GoodSub(plan.ops, Closed, sub')
  BY <1>6, NewsStep
<1>7. QED
  BY <1>1, <1>2, <1>3, <1>4, <1>5, <1>6 DEF SubNext

LEMMA SubInvStep ==
  ASSUME SubInv, [Next]_vars
  PROVE  SubInv'
<1>1. CASE SubNext /\ UNCHANGED <<plan, life, pool, tx>>
  BY <1>1, SubNextGood DEF SubInv, Closed
<1>2. CASE UNCHANGED <<plan, life, sub>>
  BY <1>2 DEF SubInv, Closed
<1>3. CASE Close
  <2>1. GoodSub(plan.ops, TRUE, sub)
    BY ShutGood DEF SubInv
  <2>2. Closed' = TRUE /\ UNCHANGED <<plan, sub>>
    BY <1>3 DEF Close, Closed
  <2>3. QED
    BY <2>1, <2>2 DEF SubInv
<1>4. CASE CloseEnds
  <2>1. GoodSub(plan.ops, TRUE, sub)
    BY ShutGood DEF SubInv
  <2>2. GoodSub(plan.ops, TRUE, SubClosed(sub))
    BY <2>1, PlanIsProgram, SubClosedGood DEF SubInv, GoodSub
  <2>3. Closed' = TRUE /\ sub' = SubClosed(sub) /\ UNCHANGED plan
    BY <1>4 DEF CloseEnds, Closed
  <2>4. QED
    BY <2>2, <2>3 DEF SubInv
<1>5. QED
  BY <1>1, <1>2, <1>3, <1>4 DEF Next, vars

LEMMA SubSafe ==
  Spec => []SubInv
BY SubInitGood, SubInvStep, PTL DEF Spec

LEMMA SubInvTyped ==
  ASSUME SubInv
  PROVE  SubTypeOK
<1>1. /\ sub \in SubRecord /\ sub.step # "running" /\ Waited(plan.ops, sub)
  BY DEF SubInv, GoodSub, Sound
<1>2. sub.op \in [Op -> [at : {"new", "queued", "running", "over"},
                         told : {"ok", "failed", None}]]
  <2>1. OpState \subseteq [at : {"new", "queued", "running", "over"},
                           told : {"ok", "failed", None}]
    BY DEF OpState
  <2>2. QED
    BY <1>1, <2>1, SubFields
<1>3. sub.step = "idle" => sub.waiter = None \/ sub.waiter.open # None
  BY <1>1 DEF Waited, Expects
<1>4. QED
  BY <1>1, <1>2, <1>3, SubFields DEF SubTypeOK

LEMMA SubInvSubscribed ==
  ASSUME SubInv
  PROVE  Subscribed
<1>1. PICK P : P = plan.ops
  OBVIOUS
<1>2. /\ IsProgram(P) /\ Sound(P, Closed, sub) /\ Untold(sub)
      /\ Covered(sub) /\ Wired(sub) /\ Handled(P, sub)
      /\ Registers(P, Closed, sub)
  BY <1>1, PlanIsProgram DEF SubInv, GoodSub, Sound
<1>3. Usable(sub, sub.cur) /\ sub.opens # sub.cur =>
        \A t \in Registered(sub) :
          \/ t \in sub.sock[sub.cur].subs
          \/ sub.waiter # None /\ sub.waiter.topic = t
  BY <1>2 DEF Usable, Covered
<1>4. \A k \in Sock : Usable(sub, k) => k = sub.cur
  BY <1>2 DEF Usable, Wired
<1>5. ASSUME NEW o \in DOMAIN P, P[o].do = "subscribe"
      PROVE  /\ sub.op[o].told = "failed" => o \notin sub.handlers[P[o].topic]
             /\ sub.op[o].told = "ok" =>
                  \/ o \in sub.handlers[P[o].topic] \/ Closed
                  \/ \E u \in DOMAIN P :
                       /\ P[u].do = "unsubscribe" /\ P[u].of = o
                       /\ sub.op[u].at \in {"running", "over"}
  <2>1. sub.op[o].told = "ok" =>
          \/ o \in sub.handlers[P[o].topic] \/ Closed
          \/ GivenUp(P, sub, o)
    BY <1>2, <1>5 DEF Registers
  <2>2. ASSUME sub.op[o].told = "failed", o \in sub.handlers[P[o].topic]
        PROVE  FALSE
    <3>1. sub.step = "asking" /\ o = Head(sub.queue)
      BY <1>2, <1>5, <2>2 DEF IsProgram, Handled, Registering
    <3>2. QED
      BY <1>2, <2>2, <3>1, SubscriberAssumption DEF Untold
  <2>3. QED
    BY <2>1, <2>2 DEF GivenUp
<1>6. QED
  BY <1>1, <1>3, <1>4, <1>5 DEF Subscribed

(* The subscriber connection carries every channel that has a handler, no  *)
(* other connection lives for the server to send to, and what the callers  *)
(* of subscribe() were told is true of the handlers: whatever the program, *)
(* the deadlines, the refusals of the server and the connections lost.     *)
THEOREM SubscriptionsStay == Spec => []Subscribed
BY SubSafe, SubInvSubscribed, PTL

(* A message published after subscribe() returned is on its way to every   *)
(* handler that has not heard it, until the connection is lost.            *)
THEOREM NoMessageMissed == Spec => []NoneMissed
<1>1. SubInv => NoneMissed
  <2>1. SUFFICES ASSUME SubInv, NEW t \in Topic, NEW o \in sub.handlers[t],
                        NEW n \in sub.owed[o]
                 PROVE  \E i \in DOMAIN sub.sock[sub.cur].told :
                          LET m == sub.sock[sub.cur].told[i]
                          IN  m.cmd = "message" /\ m.n = n
    BY DEF NoneMissed
  <2>2. PICK i \in DOMAIN sub.sock[sub.cur].told :
          sub.sock[sub.cur].told[i] = [cmd |-> "message", topic |-> t, n |-> n]
    BY <2>1 DEF SubInv, GoodSub, Sound, Owing
  <2>3. QED
    BY <2>2
<1>2. QED
  BY <1>1, SubSafe, PTL

-----------------------------------------------------------------------------
(* The transactions.                                                       *)
(*                                                                         *)
(* A transaction is good if it fits together (Placed, Queued), if its      *)
(* connection carries what the running operation waits for and no more     *)
(* (Linked), if a batch is applied only by the EXEC the run waits for      *)
(* (Applied), and if, while a commit is still possible, the writes called  *)
(* so far are in the batch at the server, wait after it or are refused     *)
(* (Content).  An attempt that is given up leaves nothing at the server    *)
(* that a later one could meet (Elsewhere).                                *)

TxOp == [do : {"watch", "get", "exec", "discard"}] \cup [do : {"set"}, n : Nat]

TxCommand == TxOp \cup [do : {"auth", "multi"}]

Reply == {"ok", "error", "array", "nil"}

LineState == [asked : Seq(TxCommand), told : Seq(Reply),
              watched : Nat \cup {None}, multi : BOOLEAN,
              batch : Seq(Nat), failed : BOOLEAN]

TxRecord ==
  [run : {"idle", "watch", "fn", "exec", "over"}, pc : Nat \ {0},
   told : {"committed", "aborted", "failed", None},
   attempt : 0 .. MaxRetries + 1,
   begun : BOOLEAN, finishing : BOOLEAN, done : BOOLEAN, dead : BOOLEAN,
   sock : {"none", "up", "gone"}, queue : Seq(TxOp),
   step : {"idle", "dialing", "auth", "multi", "command"},
   refused : SUBSET Nat, open : SUBSET Tries,
   line : [Tries -> LineState], version : Nat, applied : Seq(Seq(Nat))]

(* The connection of the current attempt.                                  *)
Line(t) == t.line[t.attempt]

(* The running operation is exec() and its EXEC is under way.              *)
Executing(t) == t.step = "command" /\ Head(t.queue).do = "exec"

(* Earlier attempts leave nothing at the server.                           *)
Elsewhere(t) == \A a \in Tries : a # t.attempt => t.line[a] = NoLine

Placed(t) ==
  /\ t.attempt = 0 => t.run \in {"idle", "over"} /\ t.sock = "none"
  /\ t.run = "idle" => t.attempt = 0 /\ t.queue = <<>>
  /\ t.open = IF t.attempt = 0 \/ t.dead THEN {} ELSE {t.attempt}
  /\ t.dead <=> (t.sock = "gone")
  /\ t.done => t.dead /\ t.queue = <<>>
  /\ (t.told = None) <=> (t.run # "over")
  /\ t.run = "over" => t.queue = <<>> /\ (t.attempt = 0 \/ t.dead)

(* What the operations that wait may be.                                   *)
Queued(t) ==
  /\ t.run = "watch" => /\ t.queue = <<[do |-> "watch"]>> /\ ~ t.finishing
                        /\ t.pc = 1 /\ t.refused = {} /\ ~ t.dead
  /\ t.run = "fn" =>
       \A i \in DOMAIN t.queue :
         \/ t.queue[i].do \in {"get", "set"}
         \/ t.queue[i].do = "discard" /\ t.finishing
  /\ t.run = "exec" =>
       /\ t.finishing
       /\ \A i \in DOMAIN t.queue :
            \/ t.queue[i].do \in {"get", "set"}
            \/ t.queue[i].do = "exec" /\ i = Len(t.queue)

Expected(t) == IF t.step = "command" THEN Head(t.queue) ELSE [do |-> t.step]

Fits(p, t, r) ==
  IF Executing(t)
  THEN /\ r # "ok" /\ Line(t) = [NoLine EXCEPT !.told = <<r>>]
       /\ IF r = "array" THEN AppliedOnce(p, t) ELSE t.applied = <<>>
  ELSE r \in {"ok", "error"}

Linked(p, t) ==
  /\ t.attempt = 0 \/ t.dead => t.step = "idle"
  /\ t.dead => Line(t).told = <<>> /\ Len(Line(t).asked) <= 1
  /\ t.attempt # 0 /\ t.sock = "none" =>
       Line(t) = NoLine /\ t.step \in {"idle", "dialing"}
  /\ t.sock = "up" /\ t.step = "idle" =>
       Line(t).asked = <<>> /\ Line(t).told = <<>>
  /\ t.step # "idle" => t.queue # <<>>
  /\ t.sock = "up" /\ t.step # "idle" =>
       /\ t.step # "dialing"
       /\ \/ Line(t).asked = <<Expected(t)>> /\ Line(t).told = <<>>
          \/ /\ Line(t).asked = <<>>
             /\ \E r \in Reply : Line(t).told = <<r>> /\ Fits(p, t, r)

ExecAsked(t) ==
  t.attempt # 0 /\ Line(t).asked # <<>> /\ Line(t).asked[1].do = "exec"

Applied(p, t) ==
  /\ Len(t.applied) <= 1
  /\ t.run \in {"idle", "watch", "fn"} => t.applied = <<>>
  /\ t.run = "exec" /\ t.applied # <<>> => ~ t.dead /\ Line(t).told = <<"array">>
  /\ ExecAsked(t) =>
       /\ t.applied = <<>>
       /\ (t.run = "exec" /\ ~ t.dead) \/ t.told = "failed"
  /\ t.told = "committed" => AppliedOnce(p, t)
  /\ t.told = "aborted" => t.applied = <<>>

(* A commit is still possible.                                             *)
Writing(t) ==
  /\ t.run \in {"watch", "fn", "exec"} /\ ~ t.dead
  /\ t.run = "fn" => ~ t.finishing
  /\ ~ (Executing(t) /\ Line(t).told # <<>>)

(* The first operation whose command the server has not accepted.          *)
Unserved(t) == IF t.step = "command" /\ Line(t).told = <<"ok">> THEN 2 ELSE 1

(* The writes the function has called so far are in the batch b, in their  *)
(* order, or wait after it, or are refused.  W are all it has, s is the    *)
(* queue and u the first operation the server has not accepted.            *)
Called(p, t, b, W, s, u) ==
  /\ t.refused \subseteq 0 .. t.pc - 1
  /\ \A i \in DOMAIN s : s[i].do = "set" =>
       /\ s[i].n \in W \ t.refused
       /\ s[i].n <= t.pc /\ (s[i].n = t.pc => p.awaits)
       /\ \A j \in DOMAIN s : s[j].do = "set" /\ i < j => s[i].n < s[j].n
       /\ i >= u => \A x \in DOMAIN b : b[x] < s[i].n
       /\ i < u => s[i].n \in Range(b)
  /\ \A x \in DOMAIN b :
       /\ b[x] \in W \ t.refused
       /\ b[x] <= t.pc /\ (b[x] = t.pc => p.awaits /\ s # <<>>)
       /\ \A y \in DOMAIN b : x < y => b[x] < b[y]
  /\ \A n \in W : n < t.pc => n \in Range(b) \cup t.refused \cup SetsIn(s)
  /\ t.run = "fn" /\ p.awaits /\ s # <<>> =>
       /\ Len(s) = 1 /\ t.pc \in DOMAIN p.fn
       /\ IF p.fn[t.pc] = "set" THEN s[1] = Set(t.pc) ELSE s[1].do # "set"
  /\ t.run = "exec" => t.pc > Len(p.fn)
  /\ t.run = "watch" => b = <<>>

Content(p, t) ==
  Called(p, t, Line(t).batch, Writes(p.fn), t.queue, Unserved(t))

GoodTx(p, t) ==
  /\ t \in TxRecord /\ Elsewhere(t) /\ Placed(t) /\ Queued(t)
  /\ Linked(p, t) /\ Applied(p, t)
  /\ Writing(t) => Content(p, t)

TxInv == plan \in Plan /\ GoodTx(plan, tx)
-----------------------------------------------------------------------------
(* The types of a transaction.                                             *)

LEMMA TxFields ==
  ASSUME NEW t \in TxRecord
  PROVE  /\ t.run \in {"idle", "watch", "fn", "exec", "over"}
         /\ t.pc \in Nat \ {0} /\ t.pc \in Nat
         /\ t.told \in {"committed", "aborted", "failed", None}
         /\ t.attempt \in 0 .. MaxRetries + 1 /\ t.attempt \in Nat
         /\ t.begun \in BOOLEAN /\ t.finishing \in BOOLEAN
         /\ t.done \in BOOLEAN /\ t.dead \in BOOLEAN
         /\ t.sock \in {"none", "up", "gone"} /\ t.queue \in Seq(TxOp)
         /\ t.step \in {"idle", "dialing", "auth", "multi", "command"}
         /\ t.refused \subseteq Nat /\ t.open \subseteq Tries
         /\ t.line \in [Tries -> LineState] /\ t.version \in Nat
         /\ t.applied \in Seq(Seq(Nat))
         /\ t.attempt # 0 => t.attempt \in Tries /\ Line(t) \in LineState
BY RemoteTransactionAssumption DEF TxRecord, Tries, Line

LEMMA LineFields ==
  ASSUME NEW l \in LineState
  PROVE  /\ l.asked \in Seq(TxCommand) /\ l.told \in Seq(Reply)
         /\ l.watched \in Nat \cup {None} /\ l.multi \in BOOLEAN
         /\ l.batch \in Seq(Nat) /\ l.failed \in BOOLEAN
BY DEF LineState

LEMMA NoLineType ==
  /\ NoLine \in LineState
  /\ NoLine.asked = <<>> /\ NoLine.told = <<>> /\ NoLine.batch = <<>>
BY DEF NoLine, LineState

LEMMA SetsInNumbers ==
  ASSUME NEW q \in Seq(TxOp)
  PROVE  /\ SetsIn(q) \subseteq Nat
         /\ \A n : n \in SetsIn(q) <=>
              \E i \in DOMAIN q : q[i].do = "set" /\ q[i].n = n
<1>1. \A i \in DOMAIN q : q[i] \in TxOp
  OBVIOUS
<1>2. \A i \in DOMAIN q : q[i].do = "set" => q[i].n \in Nat
  BY <1>1 DEF TxOp
<1>3. QED
  BY <1>2 DEF SetsIn

LEMMA WritesNumbers ==
  ASSUME NEW p \in Plan
  PROVE  /\ Len(p.fn) \in Nat /\ DOMAIN p.fn = 1 .. Len(p.fn)
         /\ \A n \in Writes(p.fn) : n \in Nat /\ 1 <= n /\ n <= Len(p.fn)
         /\ \A n : n \in Writes(p.fn) <=> n \in DOMAIN p.fn /\ p.fn[n] = "set"
<1>1. PICK f \in Seq({"get", "set", "discard", "close", "throw"}) : f = p.fn
  BY FunctionAssumption
<1>2. Len(f) \in Nat /\ DOMAIN f = 1 .. Len(f)
  OBVIOUS
<1>3. QED
  BY <1>1, <1>2 DEF Writes

LEMMA SetsInNothing ==
  SetsIn(<<>>) = {}
BY DEF SetsIn

-----------------------------------------------------------------------------
(* A transaction that dies.                                                *)

(* It can be taken down in the course of a run.                            *)
Mortal(t) ==
  /\ t \in TxRecord /\ Elsewhere(t)
  /\ t.attempt # 0 /\ t.run \in {"watch", "fn", "exec"} /\ t.told = None
  /\ t.open \subseteq {t.attempt}
  /\ Len(Line(t).asked) <= 1 /\ Len(t.applied) <= 1
  /\ t.run # "exec" => t.applied = <<>> /\ ~ ExecAsked(t)
  /\ ExecAsked(t) => t.applied = <<>>

(* It has been, and the run goes on without it or is over.                 *)
Parted(p, t) ==
  /\ t \in TxRecord /\ Elsewhere(t)
  /\ t.attempt # 0 /\ t.dead /\ t.sock = "gone" /\ t.step = "idle"
  /\ t.queue = <<>> /\ t.open = {} /\ t.run \in {"fn", "over"}
  /\ (t.told = None) <=> (t.run # "over")
  /\ Len(Line(t).asked) <= 1 /\ Line(t).told = <<>> /\ Len(t.applied) <= 1
  /\ t.run = "fn" => t.applied = <<>>
  /\ ExecAsked(t) => t.applied = <<>> /\ t.told = "failed"
  /\ t.told = "committed" => AppliedOnce(p, t)
  /\ t.told = "aborted" => t.applied = <<>>

LEMMA PartedGood ==
  ASSUME NEW p, NEW t, Parted(p, t)
  PROVE  GoodTx(p, t)
<1>1. /\ t \in TxRecord /\ Elsewhere(t) /\ t.attempt # 0 /\ t.dead
      /\ t.sock = "gone" /\ t.step = "idle" /\ t.queue = <<>> /\ t.open = {}
      /\ t.run \in {"fn", "over"} /\ (t.told = None) <=> (t.run # "over")
  BY DEF Parted
<1>2. Placed(t)
  BY <1>1 DEF Placed
<1>3. Queued(t)
  BY <1>1 DEF Queued
<1>4. Linked(p, t)
  BY <1>1 DEF Linked, Parted
<1>5. Applied(p, t)
  BY <1>1 DEF Applied, Parted
<1>6. ~ Writing(t)
  BY <1>1 DEF Writing
<1>7. QED
  BY <1>1, <1>2, <1>3, <1>4, <1>5, <1>6 DEF GoodTx

(* What Dies() leaves as it was, and what not.                             *)
DiedFrom(t, q) ==
  /\ q \in TxRecord /\ q.run = t.run /\ q.pc = t.pc /\ q.told = t.told
  /\ q.attempt = t.attempt /\ q.dead /\ q.sock = "gone" /\ q.queue = <<>>
  /\ q.step = "idle" /\ q.refused = t.refused \cup SetsIn(t.queue)
  /\ q.open = t.open \ {t.attempt} /\ q.applied = t.applied
  /\ Line(q) = [Line(t) EXCEPT !.told = <<>>]
  /\ \A a \in Tries : a # t.attempt => q.line[a] = t.line[a]

LEMMA DiesFields ==
  ASSUME NEW t \in TxRecord, t.attempt # 0, NEW d \in BOOLEAN
  PROVE  DiedFrom(t, Dies(t, d))
<1>1. PICK q : q = Dies(t, d)
  OBVIOUS
<1>2. PICK a : a = t.attempt
  OBVIOUS
<1>3. PICK l : l = [t.line EXCEPT ![a] = [@ EXCEPT !.told = <<>>]]
  OBVIOUS
<1>4. PICK r : r = t.refused \cup SetsIn(t.queue)
  OBVIOUS
<1>5. PICK o : o = t.open \ {a}
  OBVIOUS
<1>6. PICK e \in BOOLEAN : e = (t.done \/ d)
  BY TxFields
<1>7. q = [t EXCEPT !.dead = TRUE, !.done = e, !.sock = "gone", !.open = o,
                    !.step = "idle", !.queue = <<>>, !.refused = r, !.line = l]
  BY <1>1, <1>2, <1>3, <1>4, <1>5, <1>6 DEF Dies
<1>8. a \in Tries /\ t.line \in [Tries -> LineState] /\ t.queue \in Seq(TxOp)
  BY <1>2, TxFields
<1>9. [t.line[a] EXCEPT !.told = <<>>] \in LineState
  <2>1. t.line[a] \in LineState /\ <<>> \in Seq(Reply)
    BY <1>8
  <2>2. QED
    BY <2>1 DEF LineState
<1>10. /\ l \in [Tries -> LineState] /\ l[a] = [t.line[a] EXCEPT !.told = <<>>]
       /\ \A b \in Tries : b # a => l[b] = t.line[b]
  BY <1>3, <1>8, <1>9
<1>11. r \subseteq Nat /\ o \subseteq Tries /\ <<>> \in Seq(TxOp)
  BY <1>4, <1>5, <1>8, TxFields, SetsInNumbers
<1>12. q \in TxRecord
  BY <1>6, <1>7, <1>10, <1>11 DEF TxRecord
<1>13. /\ q.run = t.run /\ q.pc = t.pc /\ q.told = t.told
       /\ q.attempt = a /\ q.dead /\ q.sock = "gone" /\ q.queue = <<>>
       /\ q.step = "idle" /\ q.refused = r /\ q.open = o
       /\ q.applied = t.applied /\ q.line = l
  BY <1>2, <1>7 DEF TxRecord
<1>14. QED
  BY <1>1, <1>2, <1>4, <1>5, <1>10, <1>12, <1>13 DEF DiedFrom, Line

LEMMA RunOverFields ==
  ASSUME NEW t \in TxRecord, NEW what \in {"committed", "aborted", "failed"},
         NEW q, q = RunOver(t, what)
  PROVE  /\ q \in TxRecord /\ q.run = "over" /\ q.told = what
         /\ q.attempt = t.attempt /\ q.dead = t.dead /\ q.done = t.done
         /\ q.sock = t.sock /\ q.queue = t.queue /\ q.step = t.step
         /\ q.refused = t.refused /\ q.open = t.open /\ q.applied = t.applied
         /\ q.line = t.line
BY DEF RunOver, TxRecord

LEMMA DiesMortal ==
  ASSUME NEW t, Mortal(t), NEW d \in BOOLEAN
  PROVE  Mortal(Dies(t, d))
<1>1. PICK q : q = Dies(t, d)
  OBVIOUS
<1>2. t \in TxRecord /\ t.attempt # 0
  BY DEF Mortal
<1>3. DiedFrom(t, q)
  BY <1>1, <1>2, DiesFields
<1>4. Line(t) \in LineState
  BY <1>2, TxFields
<1>5. Line(q).asked = Line(t).asked
  BY <1>3, <1>4 DEF DiedFrom, LineState
<1>6. ExecAsked(q) = ExecAsked(t)
  BY <1>3, <1>5 DEF DiedFrom, ExecAsked
<1>7. Elsewhere(q)
  BY <1>3 DEF Mortal, Elsewhere, DiedFrom
<1>8. QED
  BY <1>1, <1>3, <1>5, <1>6, <1>7 DEF Mortal, DiedFrom

LEMMA DiesParted ==
  ASSUME NEW p, NEW t, Mortal(t), t.run = "fn", NEW d \in BOOLEAN
  PROVE  Parted(p, Dies(t, d))
<1>1. PICK q : q = Dies(t, d)
  OBVIOUS
<1>2. t \in TxRecord /\ t.attempt # 0
  BY DEF Mortal
<1>3. DiedFrom(t, q) /\ Mortal(q)
  BY <1>1, <1>2, DiesFields, DiesMortal
<1>4. Line(t) \in LineState
  BY <1>2, TxFields
<1>5. Line(q).told = <<>>
  BY <1>3, <1>4 DEF DiedFrom, LineState
<1>6. q.open = {} /\ q.told = None /\ q.run = "fn" /\ q.attempt # 0
  BY <1>2, <1>3 DEF DiedFrom, Mortal
<1>7. q.told # "committed" /\ q.told # "aborted"
  BY <1>6, RemoteTransactionAssumption
<1>8. QED
  BY <1>1, <1>3, <1>5, <1>6, <1>7 DEF Mortal, DiedFrom, Parted

LEMMA RunThrowsParted ==
  ASSUME NEW p, NEW t, Mortal(t)
  PROVE  Parted(p, RunThrows(t))
<1>1. PICK d : d = Dies(t, TRUE)
  OBVIOUS
<1>2. t \in TxRecord /\ t.attempt # 0
  BY DEF Mortal
<1>3. DiedFrom(t, d) /\ Mortal(d)
  BY <1>1, <1>2, DiesFields, DiesMortal
<1>4. Line(t) \in LineState
  BY <1>2, TxFields
<1>5. Line(d).told = <<>>
  BY <1>3, <1>4 DEF DiedFrom, LineState
<1>6. d.open = {} /\ d.attempt # 0
  BY <1>2, <1>3 DEF DiedFrom, Mortal
<1>7. PICK q : q = RunOver(d, "failed")
  OBVIOUS
<1>8. /\ q \in TxRecord /\ q.run = "over" /\ q.told = "failed"
      /\ q.attempt = d.attempt /\ q.dead = d.dead /\ q.done = d.done
      /\ q.sock = d.sock /\ q.queue = d.queue /\ q.step = d.step
      /\ q.refused = d.refused /\ q.open = d.open /\ q.applied = d.applied
      /\ q.line = d.line
  BY <1>3, <1>7, RunOverFields DEF Mortal
<1>9. Line(q) = Line(d) /\ ExecAsked(q) = ExecAsked(d) /\ (Elsewhere(d) => Elsewhere(q))
  BY <1>8 DEF Line, ExecAsked, Elsewhere
<1>10. q.told # None
  BY <1>8, RemoteTransactionAssumption
<1>11. Parted(p, q)
  BY <1>3, <1>5, <1>6, <1>8, <1>9, <1>10 DEF Mortal, DiedFrom, Parted
<1>12. QED
  BY <1>1, <1>7, <1>11 DEF RunThrows

LEMMA KilledGood ==
  ASSUME NEW p, NEW t, Mortal(t), NEW d \in BOOLEAN
  PROVE  GoodTx(p, Killed(t, d))
<1>1. CASE Awaits(t)
  BY <1>1, RunThrowsParted, PartedGood DEF Killed
<1>2. CASE ~ Awaits(t)
  <2>1. t.run = "fn"
    BY <1>2 DEF Awaits, Mortal
  <2>2. QED
    BY <1>2, <2>1, DiesParted, PartedGood DEF Killed
<1>3. QED
  BY <1>1, <1>2

LEMMA GoodMortal ==
  ASSUME NEW p, NEW t, GoodTx(p, t), t.run \in {"watch", "fn", "exec"}
  PROVE  Mortal(t)
<1>1. /\ t \in TxRecord /\ Elsewhere(t) /\ Placed(t) /\ Queued(t)
      /\ Linked(p, t) /\ Applied(p, t)
  BY DEF GoodTx
<1>2. t.attempt # 0 /\ t.told = None /\ t.open \subseteq {t.attempt}
  BY <1>1 DEF Placed
<1>3. Len(Line(t).asked) <= 1
  <2>1. Line(t) \in LineState /\ t.sock \in {"none", "up", "gone"}
    BY <1>1, <1>2, TxFields
  <2>2. CASE t.sock = "gone"
    BY <1>1, <2>2 DEF Linked, Placed
  <2>3. CASE t.sock = "none"
    BY <1>1, <1>2, <2>3, NoLineType DEF Linked
  <2>4. CASE t.sock = "up"
    <3>1. PICK l, c : l = Line(t).asked /\ c = Expected(t)
      OBVIOUS
    <3>2. l = <<>> \/ l = <<c>>
      BY <1>1, <2>4, <3>1 DEF Linked
    <3>3. Len(<<>>) = 0 /\ Len(<<c>>) = 1
      OBVIOUS
    <3>4. Len(l) \in {0, 1}
      BY <3>2, <3>3
    <3>5. \A n \in {0, 1} : n <= 1
      OBVIOUS
    <3>6. QED
      BY <3>1, <3>4, <3>5
  <2>5. QED
    BY <2>1, <2>2, <2>3, <2>4
<1>4. /\ Len(t.applied) <= 1
      /\ t.run # "exec" => t.applied = <<>> /\ ~ ExecAsked(t)
      /\ ExecAsked(t) => t.applied = <<>>
  BY <1>1, <1>2, RemoteTransactionAssumption DEF Applied
<1>5. QED
  BY <1>1, <1>2, <1>3, <1>4 DEF Mortal

-----------------------------------------------------------------------------
(* A new attempt, and the end of the last one.                             *)

(* Nothing of an earlier attempt is left.                                  *)
Fresh(t) ==
  /\ t \in TxRecord /\ t.attempt \in 0 .. MaxRetries
  /\ \A a \in Tries : t.line[a] = NoLine
  /\ t.applied = <<>> /\ t.told = None /\ t.open = {}
  /\ t.queue = <<>> /\ t.step = "idle"
  /\ \/ t.attempt = 0 /\ t.sock = "none" /\ ~ t.dead /\ ~ t.done
     \/ t.attempt # 0 /\ t.sock = "gone" /\ t.dead

LEMMA NextAttemptGood ==
  ASSUME NEW p \in Plan, NEW t, Fresh(t)
  PROVE  GoodTx(p, NextAttempt(t))
<1>1. PICK q : q = NextAttempt(t)
  OBVIOUS
<1>2. /\ t \in TxRecord /\ t.attempt \in 0 .. MaxRetries /\ t.attempt \in Nat
      /\ \A a \in Tries : t.line[a] = NoLine
      /\ t.applied = <<>> /\ t.told = None /\ t.open = {}
      /\ t.queue = <<>> /\ t.step = "idle"
  BY RemoteTransactionAssumption DEF Fresh
<1>3. CASE Closed \/ Cardinality(t.open) >= MaxTransactions
  <2>1. q = RunOver(t, "failed")
    BY <1>1, <1>3 DEF NextAttempt
  <2>2. /\ q \in TxRecord /\ q.run = "over" /\ q.told = "failed"
        /\ q.attempt = t.attempt /\ q.dead = t.dead /\ q.done = t.done
        /\ q.sock = t.sock /\ q.queue = t.queue /\ q.step = t.step
        /\ q.open = t.open /\ q.applied = t.applied /\ q.line = t.line
    BY <1>2, <2>1, RunOverFields
  <2>3. Elsewhere(q)
    BY <1>2, <2>2 DEF Elsewhere
  <2>4. q.told # None
    BY <2>2, RemoteTransactionAssumption
  <2>5. Placed(q)
    BY <1>2, <2>2, <2>4, TxFields DEF Placed, Fresh
  <2>6. q.attempt # 0 => Line(q) = NoLine
    BY <1>2, <2>2, TxFields DEF Line
  <2>7. Queued(q)
    BY <2>2 DEF Queued
  <2>9. CASE q.attempt # 0
    <3>1. Line(q).asked = <<>> /\ Line(q).told = <<>> /\ Len(Line(q).asked) <= 1
      BY <2>6, <2>9, NoLineType
    <3>2. q.sock = "gone" /\ q.dead
      BY <2>2, <2>9 DEF Fresh
    <3>3. Linked(p, q)
      BY <1>2, <2>2, <3>1, <3>2 DEF Linked
    <3>4. Applied(p, q)
      BY <1>2, <2>2, <3>1 DEF Applied, ExecAsked
    <3>5. QED
      BY <1>1, <2>2, <2>3, <2>5, <2>7, <3>3, <3>4 DEF GoodTx, Writing
  <2>10. CASE q.attempt = 0
    <3>1. Applied(p, q)
      BY <1>2, <2>2, <2>10 DEF Applied, ExecAsked
    <3>2. q.sock = "none" /\ ~ q.dead
      BY <2>2, <2>10 DEF Fresh
    <3>3. Linked(p, q)
      BY <1>2, <2>2, <2>10, <3>2 DEF Linked
    <3>4. QED
      BY <1>1, <2>2, <2>3, <2>5, <2>7, <3>1, <3>3 DEF GoodTx, Writing
  <2>11. QED
    BY <1>1, <2>9, <2>10
<1>4. CASE ~ (Closed \/ Cardinality(t.open) >= MaxTransactions)
  <2>1. PICK a : a = t.attempt + 1
    OBVIOUS
  <2>2. a \in Tries /\ a \in Nat /\ a # 0 /\ a \in 0 .. MaxRetries + 1
    BY <1>2, <2>1, RemoteTransactionAssumption DEF Tries
  <2>3. PICK w : w = <<[do |-> "watch"]>>
    OBVIOUS
  <2>4. w \in Seq(TxOp) /\ w # <<>>
    BY <2>3 DEF TxOp
  <2>5. PICK o : o = {a}
    OBVIOUS
  <2>6. q = [t EXCEPT !.run = "watch", !.attempt = a, !.open = o,
                      !.pc = 1, !.begun = FALSE, !.finishing = FALSE,
                      !.done = FALSE, !.dead = FALSE, !.sock = "none",
                      !.step = "idle", !.refused = {}, !.queue = w]
    BY <1>1, <1>2, <1>4, <2>1, <2>3, <2>5 DEF NextAttempt, TxRecord
  <2>7. /\ q \in TxRecord /\ q.run = "watch" /\ q.attempt = a /\ q.open = o
        /\ q.pc = 1 /\ ~ q.finishing /\ ~ q.done /\ ~ q.dead /\ q.sock = "none"
        /\ q.step = "idle" /\ q.refused = {} /\ q.queue = w
        /\ q.told = t.told /\ q.applied = t.applied /\ q.line = t.line
    <3>1. 1 \in Nat \ {0} /\ {} \in SUBSET Nat /\ o \in SUBSET Tries
      BY <2>2, <2>5
    <3>2. QED
      BY <1>2, <2>2, <2>4, <2>6, <3>1 DEF TxRecord
  <2>8. Line(q) = NoLine /\ Line(q).asked = <<>> /\ Line(q).told = <<>>
        /\ Line(q).batch = <<>>
    BY <1>2, <2>2, <2>7, NoLineType DEF Line
  <2>9. Elsewhere(q)
    BY <1>2, <2>7 DEF Elsewhere
  <2>10. Placed(q)
    BY <1>2, <2>2, <2>5, <2>7 DEF Placed
  <2>11. Queued(q)
    BY <2>3, <2>7 DEF Queued
  <2>12. Linked(p, q)
    BY <2>2, <2>7, <2>8 DEF Linked
  <2>13. Applied(p, q)
    BY <1>2, <2>7, <2>8, RemoteTransactionAssumption DEF Applied, ExecAsked
  <2>14. Content(p, q)
    <3>1. \A i \in DOMAIN q.queue : q.queue[i].do # "set"
      BY <2>3, <2>7
    <3>2. \A n \in Writes(p.fn) : ~ (n < q.pc)
      <4>1. \A n \in Nat : 1 <= n => ~ (n < 1)
        OBVIOUS
      <4>2. \A n \in Writes(p.fn) : ~ (n < 1)
        BY <4>1, WritesNumbers
      <4>3. QED
        BY <2>7, <4>2
    <3>3. DOMAIN Line(q).batch = {}
      BY <2>8
    <3>4. QED
      BY <2>7, <2>8, <3>1, <3>2, <3>3 DEF Content, Called
  <2>15. QED
    BY <1>1, <2>7, <2>9, <2>10, <2>11, <2>12, <2>13, <2>14 DEF GoodTx
<1>5. QED
  BY <1>3, <1>4

-----------------------------------------------------------------------------
(* A live transaction with nothing under way.                              *)

Calm(p, t) ==
  /\ t \in TxRecord /\ Elsewhere(t) /\ Placed(t) /\ Queued(t) /\ Applied(p, t)
  /\ t.attempt # 0 /\ t.sock # "gone" /\ (t.sock = "none" => Line(t) = NoLine)
  /\ Line(t).asked = <<>> /\ Line(t).told = <<>>
  /\ Writing(t) => Content(p, t)

LEMMA ContentKept ==
  ASSUME NEW p, NEW t, NEW q, Content(p, t),
         q.run = t.run, q.pc = t.pc, q.queue = t.queue, q.refused = t.refused,
         Line(q).batch = Line(t).batch, Unserved(q) = Unserved(t)
  PROVE  Content(p, q)
BY DEF Content, Called

LEMMA CalmIsGood ==
  ASSUME NEW p, NEW t, Calm(p, t), t.step = "idle"
  PROVE  GoodTx(p, t)
<1>1. Linked(p, t)
  BY DEF Calm, Linked, Placed
<1>2. QED
  BY <1>1 DEF Calm, GoodTx

SentTo(t, cmd, step, q) ==
  /\ q \in TxRecord /\ q.run = t.run /\ q.pc = t.pc /\ q.told = t.told
  /\ q.attempt = t.attempt /\ q.begun = t.begun /\ q.finishing = t.finishing
  /\ q.done = t.done /\ q.dead = t.dead /\ q.sock = t.sock
  /\ q.queue = t.queue /\ q.step = step /\ q.refused = t.refused
  /\ q.open = t.open /\ q.applied = t.applied
  /\ Line(q) \in LineState /\ Line(q).asked = Append(Line(t).asked, cmd)
  /\ Line(q).told = Line(t).told /\ Line(q).batch = Line(t).batch
  /\ \A a \in Tries : a # t.attempt => q.line[a] = t.line[a]

LEMMA SentFields ==
  ASSUME NEW t \in TxRecord, t.attempt # 0, NEW cmd \in TxCommand,
         NEW step \in {"auth", "multi", "command"}
  PROVE  SentTo(t, cmd, step, Sent(t, cmd, step))
<1>1. PICK q, a : q = Sent(t, cmd, step) /\ a = t.attempt
  OBVIOUS
<1>2. a \in Tries /\ t.line \in [Tries -> LineState] /\ t.line[a] \in LineState
  BY <1>1, TxFields
<1>3. PICK k : k = t.line[a]
  OBVIOUS
<1>4. PICK n : n = Append(k.asked, cmd)
  OBVIOUS
<1>5. PICK m : m = [k EXCEPT !.asked = n]
  OBVIOUS
<1>6. n \in Seq(TxCommand)
  BY <1>2, <1>3, <1>4, LineFields, AppendProperties
<1>7. /\ m \in LineState /\ m.asked = n /\ m.told = k.told
      /\ m.batch = k.batch
  BY <1>2, <1>3, <1>5, <1>6 DEF LineState
<1>8. PICK l : l = [t.line EXCEPT ![a] = m]
  OBVIOUS
<1>9. /\ l \in [Tries -> LineState] /\ l[a] = m
      /\ \A b \in Tries : b # a => l[b] = t.line[b]
  BY <1>2, <1>7, <1>8
<1>10. q = [t EXCEPT !.step = step, !.line[a].asked = n]
  BY <1>1, <1>3, <1>4 DEF Sent
<1>11. q = [t EXCEPT !.step = step, !.line = l]
  BY <1>3, <1>5, <1>8, <1>10
<1>12. /\ q \in TxRecord /\ q.run = t.run /\ q.pc = t.pc /\ q.told = t.told
       /\ q.attempt = a /\ q.begun = t.begun
       /\ q.finishing = t.finishing /\ q.done = t.done /\ q.dead = t.dead
       /\ q.sock = t.sock /\ q.queue = t.queue /\ q.step = step
       /\ q.refused = t.refused /\ q.open = t.open /\ q.applied = t.applied
       /\ q.line = l
  BY <1>1, <1>9, <1>11 DEF TxRecord
<1>13. QED
  BY <1>1, <1>3, <1>4, <1>7, <1>9, <1>12 DEF SentTo, Line

LEMMA SentGood ==
  ASSUME NEW p, NEW t, Calm(p, t), t.sock = "up", t.queue # <<>>,
         NEW step \in {"auth", "multi", "command"}, NEW cmd \in TxCommand,
         cmd = IF step = "command" THEN Head(t.queue) ELSE [do |-> step]
  PROVE  GoodTx(p, Sent(t, cmd, step))
<1>1. PICK q : q = Sent(t, cmd, step)
  OBVIOUS
<1>2. /\ t \in TxRecord /\ Elsewhere(t) /\ Placed(t) /\ Queued(t)
      /\ Applied(p, t) /\ t.attempt # 0 /\ t.sock = "up"
      /\ Line(t).asked = <<>> /\ Line(t).told = <<>>
  BY DEF Calm
<1>3. SentTo(t, cmd, step, q)
  BY <1>1, <1>2, SentFields
<1>4. t.run \in {"watch", "fn", "exec"} /\ ~ t.dead
  BY <1>2, TxFields DEF Placed
<1>5. Line(q).asked = <<cmd>> /\ Line(q).told = <<>>
  BY <1>2, <1>3 DEF SentTo
<1>6. Elsewhere(q)
  BY <1>2, <1>3 DEF Elsewhere, SentTo
<1>7. Placed(q)
  BY <1>2, <1>3 DEF Placed, SentTo
<1>8. Queued(q)
  BY <1>2, <1>3 DEF Queued, SentTo
<1>9. Linked(p, q)
  <2>1. Expected(q) = cmd
    BY <1>3 DEF Expected, SentTo
  <2>2. q.attempt # 0 /\ q.sock = "up" /\ ~ q.dead /\ q.queue # <<>>
        /\ q.step # "idle" /\ q.step # "dialing"
    BY <1>2, <1>3, <1>4 DEF SentTo
  <2>3. QED
    BY <1>5, <2>1, <2>2 DEF Linked
<1>10. Applied(p, q)
  <2>1. t.applied = <<>>
    BY <1>2, <1>4 DEF Applied
  <2>2. q.applied = <<>> /\ q.told = None /\ q.run = t.run /\ ~ q.dead
    BY <1>2, <1>3, <1>4, <2>1 DEF SentTo, Placed
  <2>3. ASSUME ExecAsked(q)
        PROVE  q.run = "exec"
    <3>1. cmd.do = "exec"
      BY <1>5, <2>3 DEF ExecAsked
    <3>2. step = "command" /\ Head(t.queue).do = "exec"
      BY <3>1
    <3>3. 1 \in DOMAIN t.queue /\ t.queue[1].do = "exec"
      BY <1>2, <3>2, TxFields
    <3>4. t.run # "fn"
      BY <1>2, <3>3 DEF Queued
    <3>5. t.run # "watch"
      BY <1>2, <3>3 DEF Queued
    <3>6. QED
      BY <1>4, <2>2, <3>4, <3>5
  <2>4. QED
    BY <2>2, <2>3, RemoteTransactionAssumption DEF Applied
<1>11. ASSUME Writing(q)
       PROVE  Content(p, q)
  <2>1. Writing(t)
    BY <1>2, <1>3, <1>11 DEF Writing, SentTo
  <2>2. Content(p, t)
    BY <2>1 DEF Calm
  <2>3. Unserved(q) = 1 /\ Unserved(t) = 1
    BY <1>2, <1>5 DEF Unserved
  <2>4. QED
    BY <1>3, <2>2, <2>3, ContentKept DEF SentTo
<1>12. QED
  BY <1>1, <1>3, <1>6, <1>7, <1>8, <1>9, <1>10, <1>11 DEF GoodTx, SentTo

LEMMA ProceedGood ==
  ASSUME NEW p, NEW t, Calm(p, t), t.sock = "up", t.queue # <<>>
  PROVE  GoodTx(p, Proceed(t, Head(t.queue)))
<1>1. t.queue \in Seq(TxOp)
  BY TxFields DEF Calm
<1>2. Head(t.queue) \in TxCommand
  BY <1>1, HeadTailProperties DEF TxCommand
<1>3. [do |-> "multi"] \in TxCommand
  BY DEF TxCommand
<1>4. GoodTx(p, Sent(t, Head(t.queue), "command"))
  BY <1>2, SentGood
<1>5. GoodTx(p, Sent(t, [do |-> "multi"], "multi"))
  BY <1>3, SentGood
<1>6. QED
  BY <1>4, <1>5 DEF Proceed

LEMMA GoodCalm ==
  ASSUME NEW p, NEW t, GoodTx(p, t), t.step \in {"idle", "dialing"},
         t.attempt # 0, ~ t.dead
  PROVE  Calm(p, t)
<1>1. t.sock # "gone"
  BY DEF GoodTx, Placed
<1>2. /\ Line(t).asked = <<>> /\ Line(t).told = <<>>
      /\ t.sock = "none" => Line(t) = NoLine
  <2>1. t.sock \in {"none", "up"}
    BY <1>1, TxFields DEF GoodTx
  <2>2. t.sock = "none" => Line(t) = NoLine
    BY DEF GoodTx, Linked
  <2>3. t.sock = "up" => Line(t).asked = <<>> /\ Line(t).told = <<>>
    BY DEF GoodTx, Linked
  <2>4. QED
    BY <2>1, <2>2, <2>3, NoLineType
<1>3. QED
  BY <1>1, <1>2 DEF GoodTx, Calm

(* The running operation is over, without a change of the connection.      *)
PassedTo(t, q) ==
  /\ q \in TxRecord /\ q.run = (IF t.run = "watch" THEN "fn" ELSE t.run)
  /\ q.pc = (IF t.run = "fn" /\ plan.awaits THEN t.pc + 1 ELSE t.pc)
  /\ q.told = t.told /\ q.attempt = t.attempt /\ q.finishing = t.finishing
  /\ q.done = t.done /\ q.dead = t.dead /\ q.sock = t.sock
  /\ q.queue = Tail(t.queue) /\ q.step = "idle" /\ q.refused = t.refused
  /\ q.open = t.open /\ q.applied = t.applied /\ q.line = t.line

LEMMA PassedFields ==
  ASSUME NEW t \in TxRecord, t.queue # <<>>
  PROVE  PassedTo(t, Passed(t))
<1>1. PICK q, w : q = Passed(t) /\ w = Tail(t.queue)
  OBVIOUS
<1>2. t.queue \in Seq(TxOp) /\ t.pc \in Nat \ {0} /\ t.pc + 1 \in Nat \ {0}
  BY TxFields
<1>3. w \in Seq(TxOp)
  BY <1>1, <1>2, HeadTailProperties
<1>4. PICK r : r = [t EXCEPT !.step = "idle", !.queue = w]
  OBVIOUS
<1>5. /\ r \in TxRecord /\ r.pc = t.pc /\ r.told = t.told /\ r.run = t.run
      /\ r.attempt = t.attempt /\ r.finishing = t.finishing /\ r.done = t.done
      /\ r.dead = t.dead /\ r.sock = t.sock /\ r.queue = w /\ r.step = "idle"
      /\ r.refused = t.refused /\ r.open = t.open /\ r.applied = t.applied
      /\ r.line = t.line
  BY <1>3, <1>4 DEF TxRecord
<1>6. q = IF t.run = "watch" THEN [r EXCEPT !.run = "fn"]
          ELSE IF t.run = "fn" /\ plan.awaits THEN [r EXCEPT !.pc = @ + 1] ELSE r
  BY <1>1, <1>4 DEF Passed
<1>7. CASE t.run = "watch"
  <2>1. q = [r EXCEPT !.run = "fn"]
    BY <1>6, <1>7
  <2>2. /\ q \in TxRecord /\ q.pc = r.pc /\ q.told = r.told /\ q.run = "fn"
        /\ q.attempt = r.attempt /\ q.finishing = r.finishing
        /\ q.done = r.done /\ q.dead = r.dead /\ q.sock = r.sock
        /\ q.queue = r.queue /\ q.step = r.step /\ q.refused = r.refused
        /\ q.open = r.open /\ q.applied = r.applied /\ q.line = r.line
    BY <1>5, <2>1 DEF TxRecord
  <2>3. QED
    BY <1>1, <1>5, <1>7, <2>2 DEF PassedTo
<1>8. CASE t.run = "fn" /\ plan.awaits
  <2>1. PICK c : c = t.pc + 1
    OBVIOUS
  <2>2. q = [r EXCEPT !.pc = c]
    BY <1>5, <1>6, <1>8, <2>1
  <2>3. /\ q \in TxRecord /\ q.pc = c /\ q.told = r.told /\ q.run = r.run
        /\ q.attempt = r.attempt /\ q.finishing = r.finishing
        /\ q.done = r.done /\ q.dead = r.dead /\ q.sock = r.sock
        /\ q.queue = r.queue /\ q.step = r.step /\ q.refused = r.refused
        /\ q.open = r.open /\ q.applied = r.applied /\ q.line = r.line
    BY <1>2, <1>5, <2>1, <2>2 DEF TxRecord
  <2>4. QED
    BY <1>1, <1>5, <1>8, <2>1, <2>3 DEF PassedTo
<1>9. CASE t.run # "watch" /\ ~ (t.run = "fn" /\ plan.awaits)
  <2>1. q = r
    BY <1>6, <1>9
  <2>2. QED
    BY <1>1, <1>5, <1>9, <2>1 DEF PassedTo
<1>10. QED
  BY <1>7, <1>8, <1>9

LEMMA PassedMortal ==
  ASSUME NEW t, Mortal(t), t.queue # <<>>
  PROVE  Mortal(Passed(t))
<1>1. PICK q : q = Passed(t)
  OBVIOUS
<1>2. PassedTo(t, q)
  BY <1>1, PassedFields DEF Mortal
<1>3. /\ Line(q) = Line(t) /\ ExecAsked(q) = ExecAsked(t)
      /\ (Elsewhere(t) => Elsewhere(q))
  BY <1>2 DEF PassedTo, Line, ExecAsked, Elsewhere
<1>4. QED
  BY <1>1, <1>2, <1>3 DEF PassedTo, Mortal

LEMMA TailOf ==
  ASSUME NEW S, NEW q \in Seq(S), q # <<>>
  PROVE  /\ Tail(q) \in Seq(S) /\ Len(Tail(q)) = Len(q) - 1 /\ Len(q) \in Nat
         /\ 1 \in DOMAIN q /\ Head(q) = q[1]
         /\ \A i \in DOMAIN Tail(q) :
              i \in Nat /\ 1 <= i /\ i + 1 \in DOMAIN q /\ Tail(q)[i] = q[i + 1]
         /\ \A i \in DOMAIN q : i = 1 \/
              \E j \in DOMAIN Tail(q) : i = j + 1
<1>1. /\ Tail(q) \in Seq(S) /\ Len(Tail(q)) = Len(q) - 1
      /\ \A i \in 1 .. Len(Tail(q)) : Tail(q)[i] = q[i + 1]
  BY HeadTailProperties
<1>2. /\ Len(q) \in Nat /\ DOMAIN q = 1 .. Len(q)
      /\ DOMAIN Tail(q) = 1 .. Len(q) - 1 /\ Len(q) # 0
  BY <1>1
<1>3. ASSUME NEW i \in DOMAIN q, i # 1
      PROVE  \E j \in DOMAIN Tail(q) : i = j + 1
  <2>1. i - 1 \in DOMAIN Tail(q) /\ i = (i - 1) + 1
    BY <1>2, <1>3
  <2>2. QED
    BY <2>1
<1>4. QED
  BY <1>1, <1>2, <1>3


LEMMA PassedContent ==
  ASSUME NEW p \in Plan, NEW t \in TxRecord, NEW q \in TxRecord,
         Content(p, t), Queued(t), t.queue # <<>>, Unserved(t) = 2,
         t.run \in {"watch", "fn", "exec"},
         q.run = (IF t.run = "watch" THEN "fn" ELSE t.run),
         q.pc = (IF t.run = "fn" /\ p.awaits THEN t.pc + 1 ELSE t.pc),
         q.queue = Tail(t.queue), q.refused = t.refused,
         Line(q).batch = Line(t).batch, q.step = "idle",
         q.attempt # 0
  PROVE  Content(p, q)
<1>1. PICK b, W, s, r : /\ b = Line(t).batch /\ W = Writes(p.fn)
                        /\ s = t.queue /\ r = q.queue
  OBVIOUS
<1>2. /\ s \in Seq(TxOp) /\ t.pc \in Nat /\ q.pc \in Nat /\ t.refused \subseteq Nat
      /\ b \in Seq(Nat)
  <2>1. Line(q) \in LineState
    BY TxFields
  <2>2. QED
    BY <1>1, <2>1, TxFields, LineFields
<1>3. /\ r \in Seq(TxOp) /\ Len(r) = Len(s) - 1 /\ Len(s) \in Nat
      /\ 1 \in DOMAIN s
      /\ \A i \in DOMAIN r : i \in Nat /\ 1 <= i /\ i + 1 \in DOMAIN s /\ r[i] = s[i + 1]
      /\ \A i \in DOMAIN s : i = 1 \/ \E j \in DOMAIN r : i = j + 1
      /\ Len(s) = 1 => r = <<>>
  <2>1. r = Tail(s) /\ s # <<>>
    BY <1>1
  <2>2. r \in Seq(TxOp) /\ Len(r) = Len(s) - 1 /\ Len(s) \in Nat
    BY <1>2, <2>1, TailOf
  <2>3. Len(s) = 1 => r = <<>>
    BY <2>2
  <2>4. QED
    BY <1>2, <2>1, <2>3, TailOf
<1>4. Unserved(q) = 1
  BY DEF Unserved
<1>5. /\ Len(p.fn) \in Nat
      /\ \A n \in W : n \in Nat /\ 1 <= n /\ n <= Len(p.fn)
      /\ \A n : n \in W <=> n \in DOMAIN p.fn /\ p.fn[n] = "set"
  BY <1>1, WritesNumbers
<1>6. Called(p, t, b, W, s, 2)
  BY <1>1 DEF Content
<1>7. /\ t.refused \subseteq 0 .. t.pc - 1
      /\ \A i \in DOMAIN s : s[i].do = "set" =>
           /\ s[i].n \in W \ t.refused
           /\ s[i].n <= t.pc /\ (s[i].n = t.pc => p.awaits)
           /\ \A j \in DOMAIN s : s[j].do = "set" /\ i < j => s[i].n < s[j].n
           /\ i >= 2 => \A x \in DOMAIN b : b[x] < s[i].n
           /\ i < 2 => s[i].n \in Range(b)
  BY <1>6 DEF Called
<1>8. /\ \A x \in DOMAIN b :
           /\ b[x] \in W \ t.refused
           /\ b[x] <= t.pc /\ (b[x] = t.pc => p.awaits /\ s # <<>>)
           /\ \A y \in DOMAIN b : x < y => b[x] < b[y]
      /\ \A n \in W : n < t.pc => n \in Range(b) \cup t.refused \cup SetsIn(s)
  BY <1>6 DEF Called
<1>9. /\ t.run = "fn" /\ p.awaits =>
           /\ Len(s) = 1 /\ t.pc \in DOMAIN p.fn
           /\ IF p.fn[t.pc] = "set" THEN s[1] = Set(t.pc) ELSE s[1].do # "set"
      /\ t.run = "exec" => t.pc > Len(p.fn)
      /\ t.run = "watch" => b = <<>>
  BY <1>1, <1>6 DEF Called
<1>10. t.pc <= q.pc /\ (q.pc = t.pc \/ (q.pc = t.pc + 1 /\ p.awaits))
  BY <1>2
<1>11. q.refused \subseteq 0 .. q.pc - 1
  BY <1>2, <1>7, <1>10
<1>12. ASSUME NEW i \in DOMAIN r, r[i].do = "set"
       PROVE  /\ r[i].n \in W \ q.refused
              /\ r[i].n <= q.pc /\ (r[i].n = q.pc => p.awaits)
              /\ \A j \in DOMAIN r : r[j].do = "set" /\ i < j => r[i].n < r[j].n
              /\ \A x \in DOMAIN b : b[x] < r[i].n
              /\ ~ (i < 1)
  <2>1. PICK k : k = i + 1
    OBVIOUS
  <2>2. k \in DOMAIN s /\ r[i] = s[k] /\ k >= 2 /\ i \in Nat /\ ~ (i < 1)
    BY <1>3, <2>1
  <2>3. s[k].n \in W \ t.refused /\ s[k].n <= t.pc /\ (s[k].n = t.pc => p.awaits)
        /\ \A x \in DOMAIN b : b[x] < s[k].n
    BY <1>7, <1>12, <2>2
  <2>4. s[k].n \in Nat
    BY <1>5, <2>3
  <2>5. s[k].n <= q.pc /\ (s[k].n = q.pc => p.awaits)
    BY <1>2, <1>10, <2>3, <2>4
  <2>6. ASSUME NEW j \in DOMAIN r, r[j].do = "set", i < j
        PROVE  r[i].n < r[j].n
    <3>1. PICK m : m = j + 1
      OBVIOUS
    <3>2. m \in DOMAIN s /\ r[j] = s[m] /\ k < m
      BY <1>3, <2>1, <2>2, <2>6, <3>1
    <3>3. QED
      BY <1>7, <1>12, <2>2, <2>6, <3>2
  <2>7. QED
    BY <2>2, <2>3, <2>5, <2>6
<1>13. ASSUME NEW x \in DOMAIN b
       PROVE  /\ b[x] \in W \ q.refused /\ b[x] < q.pc
              /\ \A y \in DOMAIN b : x < y => b[x] < b[y]
  <2>1. b[x] \in W \ t.refused /\ b[x] <= t.pc /\ (b[x] = t.pc => p.awaits)
        /\ \A y \in DOMAIN b : x < y => b[x] < b[y]
    BY <1>8
  <2>2. b[x] \in Nat /\ b[x] <= Len(p.fn)
    BY <1>5, <2>1
  <2>3. t.run # "watch"
    BY <1>9
  <2>4. CASE t.run = "exec"
    BY <1>2, <1>5, <1>9, <1>10, <2>1, <2>2, <2>4
  <2>5. CASE t.run = "fn" /\ p.awaits
    BY <1>2, <2>1, <2>2, <2>5
  <2>6. CASE t.run = "fn" /\ ~ p.awaits
    BY <1>2, <1>10, <2>1, <2>2, <2>6
  <2>7. QED
    BY <2>3, <2>4, <2>5, <2>6
<1>14. ASSUME NEW n \in W, n < q.pc
       PROVE  n \in Range(b) \cup q.refused \cup SetsIn(r)
  <2>1. CASE n < t.pc
    <3>1. n \in Range(b) \cup t.refused \/ n \in SetsIn(s)
      BY <1>8, <2>1
    <3>2. CASE n \in SetsIn(s)
      <4>1. PICK i \in DOMAIN s : s[i].do = "set" /\ s[i].n = n
        BY <1>2, <3>2, SetsInNumbers
      <4>2. CASE i = 1
        BY <1>7, <4>1, <4>2
      <4>3. CASE i # 1
        <5>1. PICK j \in DOMAIN r : i = j + 1
          BY <1>3, <4>3
        <5>2. r[j].do = "set" /\ r[j].n = n
          BY <1>3, <4>1, <5>1
        <5>3. QED
          BY <1>3, <5>2, SetsInNumbers
      <4>4. QED
        BY <4>2, <4>3
    <3>3. QED
      BY <3>1, <3>2
  <2>2. CASE ~ (n < t.pc)
    <3>1. n = t.pc /\ t.run = "fn" /\ p.awaits
      BY <1>2, <1>5, <1>14, <2>2
    <3>2. s[1] = Set(n)
      BY <1>5, <1>9, <1>14, <3>1
    <3>3. s[1].do = "set" /\ s[1].n = n
      BY <3>2 DEF Set
    <3>4. QED
      BY <1>3, <1>7, <3>3
  <2>3. QED
    BY <2>1, <2>2
<1>15. ~ (q.run = "fn" /\ p.awaits /\ r # <<>>)
  <2>1. CASE t.run = "watch"
    <3>1. Len(s) = 1
      BY <1>1, <2>1 DEF Queued
    <3>2. QED
      BY <1>3, <3>1
  <2>2. CASE t.run = "fn" /\ p.awaits
    BY <1>3, <1>9, <2>2
  <2>3. QED
    BY <2>1, <2>2
<1>16. q.run = "exec" => q.pc > Len(p.fn)
  BY <1>9
<1>17. q.run # "watch"
  OBVIOUS
<1>18. Line(q).batch = b /\ W = Writes(p.fn) /\ q.queue = r
  BY <1>1
<1>19. \A i \in DOMAIN q.queue : q.queue[i].do = "set" =>
         /\ q.queue[i].n \in Writes(p.fn) \ q.refused
         /\ q.queue[i].n <= q.pc /\ (q.queue[i].n = q.pc => p.awaits)
         /\ \A j \in DOMAIN q.queue :
              q.queue[j].do = "set" /\ i < j => q.queue[i].n < q.queue[j].n
         /\ i >= Unserved(q) => \A x \in DOMAIN b : b[x] < q.queue[i].n
         /\ i < Unserved(q) => q.queue[i].n \in Range(b)
  BY <1>4, <1>12, <1>18
<1>20. \A x \in DOMAIN b :
         /\ b[x] \in Writes(p.fn) \ q.refused
         /\ b[x] <= q.pc /\ (b[x] = q.pc => p.awaits /\ q.queue # <<>>)
         /\ \A y \in DOMAIN b : x < y => b[x] < b[y]
  <2>1. \A m, n \in Nat : m < n => m <= n /\ m # n
    OBVIOUS
  <2>2. \A x \in DOMAIN b : b[x] \in Nat
    BY <1>2
  <2>3. QED
    BY <1>2, <1>13, <1>18, <2>1, <2>2
<1>21. QED
  BY <1>11, <1>14, <1>15, <1>16, <1>17, <1>18, <1>19, <1>20 DEF Content, Called

(* The running operation failed; if it is a write it is refused.           *)
FailedContent(t, q) ==
  /\ q.run = t.run /\ q.pc = t.pc /\ q.queue = Tail(t.queue)
  /\ q.refused = t.refused \cup SetsIn(<<Head(t.queue)>>)
  /\ q.step = "idle" /\ q.attempt = t.attempt
  /\ Line(q).batch = Line(t).batch

LEMMA SetsInOne ==
  ASSUME NEW op \in TxOp
  PROVE  \A n : n \in SetsIn(<<op>>) <=> op.do = "set" /\ op.n = n
<1>1. PICK q : q = <<op>>
  OBVIOUS
<1>2. q \in Seq(TxOp) /\ DOMAIN q = {1} /\ q[1] = op
  BY <1>1
<1>3. \A n : n \in SetsIn(q) <=> \E i \in DOMAIN q : q[i].do = "set" /\ q[i].n = n
  BY <1>2, SetsInNumbers
<1>4. \A n : n \in SetsIn(q) <=> op.do = "set" /\ op.n = n
  BY <1>2, <1>3
<1>5. QED
  BY <1>1, <1>4

LEMMA FailedKeepsContent ==
  ASSUME NEW p \in Plan, NEW t \in TxRecord, NEW q \in TxRecord,
         Content(p, t), t.queue # <<>>, Unserved(t) = 1,
         t.run = "exec" \/ (t.run = "fn" /\ ~ p.awaits),
         t.attempt # 0, FailedContent(t, q)
  PROVE  Content(p, q)
<1>1. PICK b, W, s, r, op : /\ b = Line(t).batch /\ W = Writes(p.fn)
                            /\ s = t.queue /\ r = q.queue /\ op = Head(s)
  OBVIOUS
<1>2. /\ s \in Seq(TxOp) /\ t.pc \in Nat /\ t.refused \subseteq Nat
      /\ b \in Seq(Nat)
  <2>1. Line(t) \in LineState
    BY TxFields
  <2>2. QED
    BY <1>1, <2>1, TxFields, LineFields
<1>3. /\ r \in Seq(TxOp) /\ Len(r) = Len(s) - 1 /\ Len(s) \in Nat
      /\ 1 \in DOMAIN s /\ op = s[1] /\ op \in TxOp
      /\ \A i \in DOMAIN r : i \in Nat /\ 1 <= i /\ i + 1 \in DOMAIN s /\ r[i] = s[i + 1]
      /\ \A i \in DOMAIN s : i = 1 \/ \E j \in DOMAIN r : i = j + 1
  <2>1. r = Tail(s) /\ s # <<>>
    BY <1>1 DEF FailedContent
  <2>2. s[1] \in TxOp
    BY <1>2, <2>1
  <2>3. QED
    BY <1>1, <1>2, <2>1, <2>2, TailOf
<1>4. /\ q.run = t.run /\ q.pc = t.pc
      /\ Line(q).batch = b /\ Unserved(q) = 1
      /\ \A n : n \in q.refused <=> n \in t.refused \/ (op.do = "set" /\ op.n = n)
  BY <1>1, <1>3, SetsInOne DEF FailedContent, Unserved
<1>5. /\ Len(p.fn) \in Nat
      /\ \A n \in W : n \in Nat /\ 1 <= n /\ n <= Len(p.fn)
  BY <1>1, WritesNumbers
<1>6. Called(p, t, b, W, s, 1)
  BY <1>1 DEF Content
<1>7. /\ t.refused \subseteq 0 .. t.pc - 1
      /\ \A i \in DOMAIN s : s[i].do = "set" =>
           /\ s[i].n \in W \ t.refused
           /\ s[i].n <= t.pc /\ (s[i].n = t.pc => p.awaits)
           /\ \A j \in DOMAIN s : s[j].do = "set" /\ i < j => s[i].n < s[j].n
           /\ i >= 1 => \A x \in DOMAIN b : b[x] < s[i].n
  BY <1>6 DEF Called
<1>8. /\ \A x \in DOMAIN b :
           /\ b[x] \in W \ t.refused
           /\ b[x] <= t.pc /\ (b[x] = t.pc => p.awaits /\ s # <<>>)
           /\ \A y \in DOMAIN b : x < y => b[x] < b[y]
      /\ \A n \in W : n < t.pc => n \in Range(b) \cup t.refused \cup SetsIn(s)
      /\ t.run = "exec" => t.pc > Len(p.fn)
  BY <1>6 DEF Called
<1>9. \A n \in W : n <= t.pc /\ (n = t.pc => p.awaits) => n < t.pc
  <2>1. ASSUME NEW n \in W, n <= t.pc, n = t.pc => p.awaits
        PROVE  n < t.pc
    <3>1. n \in Nat /\ n <= Len(p.fn)
      BY <1>5
    <3>2. CASE t.run = "exec"
      BY <1>2, <1>5, <1>8, <3>1, <3>2
    <3>3. CASE t.run = "fn" /\ ~ p.awaits
      BY <1>2, <2>1, <3>1, <3>3
    <3>4. QED
      BY <3>2, <3>3
  <2>2. QED
    BY <2>1
<1>10. q.refused \subseteq 0 .. q.pc - 1
  <2>1. \A n \in W : n < t.pc => n \in 0 .. t.pc - 1
    BY <1>2, <1>5
  <2>2. op.do = "set" => op.n \in 0 .. t.pc - 1
    BY <1>3, <1>7, <1>9, <2>1
  <2>3. QED
    BY <1>4, <1>7, <2>2
<1>11. ASSUME NEW i \in DOMAIN r, r[i].do = "set"
       PROVE  /\ r[i].n \in W \ q.refused
              /\ r[i].n <= q.pc /\ (r[i].n = q.pc => p.awaits)
              /\ \A j \in DOMAIN r : r[j].do = "set" /\ i < j => r[i].n < r[j].n
              /\ \A x \in DOMAIN b : b[x] < r[i].n
              /\ ~ (i < 1)
  <2>1. PICK k : k = i + 1
    OBVIOUS
  <2>2. k \in DOMAIN s /\ r[i] = s[k] /\ k >= 1 /\ 1 < k /\ i \in Nat /\ ~ (i < 1)
    BY <1>3, <2>1
  <2>3. /\ s[k].n \in W \ t.refused /\ s[k].n <= t.pc
        /\ (s[k].n = t.pc => p.awaits) /\ \A x \in DOMAIN b : b[x] < s[k].n
    BY <1>7, <1>11, <2>2
  <2>4. ~ (op.do = "set" /\ op.n = s[k].n)
    <3>1. op.do = "set" => op.n < s[k].n /\ op.n \in Nat
      BY <1>3, <1>5, <1>7, <1>11, <2>2
    <3>2. \A m \in Nat : ~ (m < m)
      OBVIOUS
    <3>3. QED
      BY <3>1, <3>2
  <2>5. ASSUME NEW j \in DOMAIN r, r[j].do = "set", i < j
        PROVE  r[i].n < r[j].n
    <3>1. PICK m : m = j + 1
      OBVIOUS
    <3>2. m \in DOMAIN s /\ r[j] = s[m] /\ k < m
      BY <1>3, <2>1, <2>2, <2>5, <3>1
    <3>3. QED
      BY <1>7, <1>11, <2>2, <2>5, <3>2
  <2>6. QED
    BY <1>4, <2>2, <2>3, <2>4, <2>5
<1>12. ASSUME NEW x \in DOMAIN b
       PROVE  /\ b[x] \in W \ q.refused
              /\ b[x] <= q.pc /\ (b[x] = q.pc => p.awaits /\ r # <<>>)
              /\ \A y \in DOMAIN b : x < y => b[x] < b[y]
  <2>1. b[x] \in W \ t.refused /\ b[x] <= t.pc /\ (b[x] = t.pc => p.awaits)
        /\ \A y \in DOMAIN b : x < y => b[x] < b[y]
    BY <1>8
  <2>2. b[x] < t.pc /\ b[x] \in Nat
    BY <1>5, <1>9, <2>1
  <2>3. b[x] # t.pc
    BY <1>2, <2>2
  <2>4. ~ (op.do = "set" /\ op.n = b[x])
    <3>1. op.do = "set" => b[x] < op.n
      BY <1>3, <1>7
    <3>2. QED
      BY <2>2, <3>1
  <2>5. QED
    BY <1>4, <2>1, <2>3, <2>4
<1>13. ASSUME NEW n \in W, n < q.pc
       PROVE  n \in Range(b) \cup q.refused \cup SetsIn(r)
  <2>1. n \in Range(b) \cup t.refused \/ n \in SetsIn(s)
    BY <1>4, <1>8, <1>13
  <2>2. CASE n \in SetsIn(s)
    <3>1. PICK i \in DOMAIN s : s[i].do = "set" /\ s[i].n = n
      BY <1>2, <2>2, SetsInNumbers
    <3>2. CASE i = 1
      BY <1>3, <1>4, <3>1, <3>2
    <3>3. CASE i # 1
      <4>1. PICK j \in DOMAIN r : i = j + 1
        BY <1>3, <3>3
      <4>2. r[j].do = "set" /\ r[j].n = n
        BY <1>3, <3>1, <4>1
      <4>3. QED
        BY <1>3, <4>2, SetsInNumbers
    <3>4. QED
      BY <3>2, <3>3
  <2>3. QED
    BY <1>4, <2>1, <2>2
<1>14. /\ ~ (q.run = "fn" /\ p.awaits) /\ q.run # "watch"
       /\ q.run = "exec" => q.pc > Len(p.fn)
  BY <1>4, <1>8
<1>15. \A i \in DOMAIN r : r[i].do = "set" =>
         /\ r[i].n \in W \ q.refused
         /\ r[i].n <= q.pc /\ (r[i].n = q.pc => p.awaits)
         /\ \A j \in DOMAIN r : r[j].do = "set" /\ i < j => r[i].n < r[j].n
         /\ i >= 1 => \A x \in DOMAIN b : b[x] < r[i].n
         /\ i < 1 => r[i].n \in Range(b)
  BY <1>11
<1>16. Called(p, q, b, W, r, 1)
  BY <1>10, <1>12, <1>13, <1>14, <1>15 DEF Called
<1>17. QED
  BY <1>1, <1>4, <1>16 DEF Content

LEMMA QueuedTail ==
  ASSUME NEW t \in TxRecord, NEW q, Queued(t), t.queue # <<>>,
         t.run \in {"watch", "fn", "exec"},
         q.run = (IF t.run = "watch" THEN "fn" ELSE t.run) \/
           (q.run = t.run /\ t.run # "watch"),
         q.queue = Tail(t.queue), q.finishing = t.finishing
  PROVE  Queued(q)
<1>1. PICK s, r : s = t.queue /\ r = q.queue
  OBVIOUS
<1>2. /\ r \in Seq(TxOp) /\ Len(r) = Len(s) - 1 /\ Len(s) \in Nat
      /\ \A i \in DOMAIN r : i \in Nat /\ i + 1 \in DOMAIN s /\ r[i] = s[i + 1]
  <2>1. s \in Seq(TxOp) /\ s # <<>> /\ r = Tail(s)
    BY <1>1, TxFields
  <2>2. QED
    BY <2>1, TailOf
<1>3. CASE t.run = "watch"
  <2>1. Len(s) = 1
    BY <1>1, <1>3 DEF Queued
  <2>2. DOMAIN r = {}
    BY <1>2, <2>1
  <2>3. QED
    BY <1>1, <1>3, <2>2 DEF Queued
<1>4. CASE t.run = "fn"
  <2>1. \A i \in DOMAIN s : \/ s[i].do \in {"get", "set"}
                            \/ s[i].do = "discard" /\ t.finishing
    BY <1>1, <1>4 DEF Queued
  <2>2. \A i \in DOMAIN r : \/ r[i].do \in {"get", "set"}
                            \/ r[i].do = "discard" /\ q.finishing
    BY <1>2, <2>1
  <2>3. QED
    BY <1>1, <1>4, <2>2 DEF Queued
<1>5. CASE t.run = "exec"
  <2>1. /\ t.finishing
        /\ \A i \in DOMAIN s : \/ s[i].do \in {"get", "set"}
                               \/ s[i].do = "exec" /\ i = Len(s)
    BY <1>1, <1>5 DEF Queued
  <2>2. \A i \in DOMAIN r : i + 1 = Len(s) => i = Len(r)
    BY <1>2
  <2>3. \A i \in DOMAIN r : \/ r[i].do \in {"get", "set"}
                            \/ r[i].do = "exec" /\ i = Len(r)
    BY <1>2, <2>1, <2>2
  <2>4. QED
    BY <1>1, <1>5, <2>1, <2>3 DEF Queued
<1>6. QED
  BY <1>3, <1>4, <1>5

(* The client has taken a reply from the connection.                       *)
TakenTo(t, q) ==
  /\ q \in TxRecord /\ q.run = t.run /\ q.pc = t.pc /\ q.told = t.told
  /\ q.attempt = t.attempt /\ q.begun = t.begun /\ q.finishing = t.finishing
  /\ q.done = t.done /\ q.dead = t.dead /\ q.sock = t.sock
  /\ q.queue = t.queue /\ q.step = t.step /\ q.refused = t.refused
  /\ q.open = t.open /\ q.applied = t.applied
  /\ Line(q) = [Line(t) EXCEPT !.told = <<>>]
  /\ Line(q).asked = Line(t).asked /\ Line(q).told = <<>>
  /\ Line(q).batch = Line(t).batch
  /\ \A a \in Tries : a # t.attempt => q.line[a] = t.line[a]

LEMMA TakenFields ==
  ASSUME NEW t \in TxRecord, t.attempt # 0, NEW r, Line(t).told = <<r>>
  PROVE  TakenTo(t, [t EXCEPT !.line[t.attempt].told = Tail(@)])
<1>1. PICK q, a : /\ q = [t EXCEPT !.line[t.attempt].told = Tail(@)]
                  /\ a = t.attempt
  OBVIOUS
<1>2. a \in Tries /\ t.line \in [Tries -> LineState] /\ t.line[a] \in LineState
  BY <1>1, TxFields
<1>3. Tail(t.line[a].told) = <<>>
  <2>1. Tail(<<r>>) = <<>>
    OBVIOUS
  <2>2. t.line[a].told = <<r>>
    BY <1>1 DEF Line
  <2>3. QED
    BY <2>1, <2>2
<1>4. q = [t EXCEPT !.line[a].told = <<>>]
  BY <1>1, <1>3
<1>5. PICK m : m = [t.line[a] EXCEPT !.told = <<>>]
  OBVIOUS
<1>6. /\ m \in LineState /\ m.asked = t.line[a].asked /\ m.told = <<>>
      /\ m.batch = t.line[a].batch
  <2>1. <<>> \in Seq(Reply)
    OBVIOUS
  <2>2. QED
    BY <1>2, <1>5, <2>1 DEF LineState
<1>7. PICK l : l = [t.line EXCEPT ![a] = m]
  OBVIOUS
<1>8. /\ l \in [Tries -> LineState] /\ l[a] = m
      /\ \A b \in Tries : b # a => l[b] = t.line[b]
  BY <1>2, <1>6, <1>7
<1>9. q = [t EXCEPT !.line = l]
  BY <1>4, <1>5, <1>7
<1>10. /\ q \in TxRecord /\ q.run = t.run /\ q.pc = t.pc /\ q.told = t.told
       /\ q.attempt = a /\ q.begun = t.begun
       /\ q.finishing = t.finishing /\ q.done = t.done /\ q.dead = t.dead
       /\ q.sock = t.sock /\ q.queue = t.queue /\ q.step = t.step
       /\ q.refused = t.refused /\ q.open = t.open /\ q.applied = t.applied
       /\ q.line = l
  BY <1>1, <1>8, <1>9 DEF TxRecord
<1>11. QED
  BY <1>1, <1>5, <1>6, <1>8, <1>10 DEF TakenTo, Line

LEMMA TakenMortal ==
  ASSUME NEW t, NEW q, Mortal(t), TakenTo(t, q)
  PROVE  Mortal(q)
<1>1. ExecAsked(q) = ExecAsked(t) /\ (Elsewhere(t) => Elsewhere(q))
  BY DEF TakenTo, ExecAsked, Elsewhere
<1>2. QED
  BY <1>1 DEF TakenTo, Mortal

(* A reply came, and not that to an EXEC.                                  *)
Replying(p, t, r) ==
  /\ GoodTx(p, t) /\ t.attempt # 0 /\ t.sock = "up" /\ t.step # "idle"
  /\ t.queue # <<>> /\ Line(t).asked = <<>> /\ Line(t).told = <<r>>
  /\ r \in {"ok", "error"} /\ ~ Executing(t)

LEMMA ReplyingLive ==
  ASSUME NEW p, NEW t, NEW r, Replying(p, t, r)
  PROVE  /\ t \in TxRecord /\ Elsewhere(t) /\ Placed(t) /\ Queued(t)
         /\ t.run \in {"watch", "fn", "exec"} /\ ~ t.dead /\ t.told = None
         /\ t.applied = <<>> /\ Mortal(t)
         /\ (t.run = "fn" => ~ t.finishing) => Content(p, t)
<1>1. /\ t \in TxRecord /\ Elsewhere(t) /\ Placed(t) /\ Queued(t) /\ Applied(p, t)
  BY DEF Replying, GoodTx
<1>2. t.run \in {"watch", "fn", "exec"} /\ ~ t.dead /\ t.told = None
  BY <1>1, TxFields DEF Placed, Replying
<1>3. t.applied = <<>>
  <2>1. <<r>> # <<"array">>
    BY DEF Replying
  <2>2. QED
    BY <1>1, <1>2, <2>1 DEF Applied, Replying
<1>4. Mortal(t)
  BY <1>2, GoodMortal DEF Replying
<1>5. (t.run = "fn" => ~ t.finishing) => Content(p, t)
  BY <1>2 DEF Replying, GoodTx, Writing
<1>6. QED
  BY <1>1, <1>2, <1>3, <1>4, <1>5

LEMMA CalmApplied ==
  ASSUME NEW p, NEW t, t.applied = <<>>, t.told = None,
         t.run \in {"watch", "fn", "exec"}, ~ ExecAsked(t)
  PROVE  Applied(p, t)
BY RemoteTransactionAssumption DEF Applied

LEMMA TakenCalm ==
  ASSUME NEW p, NEW t, NEW r, Replying(p, t, r), r # "ok" \/ t.step # "command",
         NEW q, TakenTo(t, q)
  PROVE  Calm(p, q) /\ q.queue # <<>> /\ Mortal(q)
<1>1. /\ t \in TxRecord /\ Elsewhere(t) /\ Placed(t) /\ Queued(t)
      /\ t.run \in {"watch", "fn", "exec"} /\ ~ t.dead /\ t.told = None
      /\ t.applied = <<>> /\ Mortal(t)
      /\ (t.run = "fn" => ~ t.finishing) => Content(p, t)
  BY ReplyingLive
<1>2. q \in TxRecord /\ Elsewhere(q) /\ Placed(q) /\ Queued(q)
  BY <1>1 DEF TakenTo, Elsewhere, Placed, Queued
<1>3. /\ Line(q).asked = <<>> /\ Line(q).told = <<>> /\ q.sock = "up"
      /\ q.attempt # 0 /\ q.queue # <<>>
  BY DEF TakenTo, Replying
<1>4. Applied(p, q)
  BY <1>1, <1>3, CalmApplied DEF TakenTo, ExecAsked
<1>5. ASSUME Writing(q)
      PROVE  Content(p, q)
  <2>1. Content(p, t)
    BY <1>1, <1>5 DEF Writing, TakenTo
  <2>2. Unserved(t) = 1 /\ Unserved(q) = 1
    <3>1. <<r>> = <<"ok">> => r = "ok"
      OBVIOUS
    <3>2. QED
      BY <1>3, <3>1 DEF Unserved, TakenTo, Replying
  <2>3. QED
    BY <2>1, <2>2, ContentKept, ZenonT(60) DEF TakenTo
<1>6. QED
  BY <1>1, <1>2, <1>3, <1>4, <1>5, TakenMortal DEF Calm

LEMMA PassedCalm ==
  ASSUME plan \in Plan, NEW t, Replying(plan, t, "ok"), t.step = "command",
         NEW u, TakenTo(t, u)
  PROVE  GoodTx(plan, Passed(u))
<1>1. /\ t \in TxRecord /\ Elsewhere(t) /\ Placed(t) /\ Queued(t)
      /\ t.run \in {"watch", "fn", "exec"} /\ ~ t.dead /\ t.told = None
      /\ t.applied = <<>>
      /\ (t.run = "fn" => ~ t.finishing) => Content(plan, t)
  BY ReplyingLive
<1>2. PICK q : q = Passed(u)
  OBVIOUS
<1>3. PassedTo(u, q)
  BY <1>2, PassedFields DEF TakenTo, Replying
<1>4. /\ q \in TxRecord /\ q.run = (IF t.run = "watch" THEN "fn" ELSE t.run)
      /\ q.pc = (IF t.run = "fn" /\ plan.awaits THEN t.pc + 1 ELSE t.pc)
      /\ q.told = t.told /\ q.attempt = t.attempt /\ q.finishing = t.finishing
      /\ q.done = t.done /\ q.dead = t.dead /\ q.sock = t.sock
      /\ q.queue = Tail(t.queue) /\ q.step = "idle" /\ q.refused = t.refused
      /\ q.open = t.open /\ q.applied = t.applied
  BY <1>3 DEF PassedTo, TakenTo
<1>5. /\ Line(q).asked = <<>> /\ Line(q).told = <<>>
      /\ Line(q).batch = Line(t).batch /\ Elsewhere(q)
  BY <1>1, <1>3 DEF PassedTo, TakenTo, Line, Replying, Elsewhere
<1>6. Placed(q)
  <2>1. Tail(t.queue) = <<>> \/ ~ t.done
    BY <1>1 DEF Placed
  <2>2. q.run \in {"fn", "exec"} /\ q.attempt # 0 /\ ~ q.done
    BY <1>1, <1>4 DEF Placed, Replying
  <2>3. q.open = {q.attempt} /\ q.sock = "up" /\ ~ q.dead
    BY <1>1, <1>4 DEF Placed, Replying
  <2>4. QED
    BY <1>1, <1>4, <2>2, <2>3 DEF Placed
<1>7. Queued(q)
  BY <1>1, <1>4, QueuedTail DEF Replying
<1>8. Applied(plan, q)
  <2>1. ~ ExecAsked(q)
    BY <1>5 DEF ExecAsked
  <2>2. QED
    BY <1>1, <1>4, <2>1, CalmApplied
<1>9. ASSUME Writing(q)
      PROVE  Content(plan, q)
  <2>1. t.run = "fn" => ~ t.finishing
    BY <1>4, <1>9 DEF Writing
  <2>2. Unserved(t) = 2
    BY DEF Unserved, Replying
  <2>3. q.attempt # 0 /\ t.queue # <<>>
    BY <1>4 DEF Replying
  <2>4. QED
    BY <1>1, <1>4, <1>5, <2>1, <2>2, <2>3, PassedContent
<1>10. Calm(plan, q)
  BY <1>4, <1>5, <1>6, <1>7, <1>8, <1>9 DEF Calm, Replying
<1>11. QED
  BY <1>2, <1>4, <1>10, CalmIsGood

FailedTo(t, q) ==
  /\ q \in TxRecord /\ q.run = t.run /\ q.pc = t.pc /\ q.told = t.told
  /\ q.attempt = t.attempt /\ q.finishing = t.finishing
  /\ q.done = t.done /\ q.dead = t.dead /\ q.sock = t.sock
  /\ q.queue = Tail(t.queue) /\ q.step = "idle"
  /\ q.refused = t.refused \cup SetsIn(<<Head(t.queue)>>)
  /\ q.open = t.open /\ q.applied = t.applied /\ q.line = t.line

LEMMA FailedFields ==
  ASSUME NEW t \in TxRecord, t.queue # <<>>, NEW q,
         q = [t EXCEPT !.step = "idle", !.queue = Tail(@),
                       !.refused = @ \cup SetsIn(<<Head(t.queue)>>)]
  PROVE  FailedTo(t, q)
<1>1. PICK w, r : /\ w = Tail(t.queue)
                  /\ r = t.refused \cup SetsIn(<<Head(t.queue)>>)
  OBVIOUS
<1>2. t.queue \in Seq(TxOp) /\ t.refused \subseteq Nat
  BY TxFields
<1>3. w \in Seq(TxOp) /\ Head(t.queue) \in TxOp
  BY <1>1, <1>2, HeadTailProperties
<1>4. r \subseteq Nat
  <2>1. <<Head(t.queue)>> \in Seq(TxOp)
    BY <1>3
  <2>2. QED
    BY <1>1, <1>2, <2>1, SetsInNumbers
<1>5. q = [t EXCEPT !.step = "idle", !.queue = w, !.refused = r]
  BY <1>1
<1>6. /\ q \in TxRecord /\ q.run = t.run /\ q.pc = t.pc /\ q.told = t.told
      /\ q.attempt = t.attempt /\ q.finishing = t.finishing
      /\ q.done = t.done /\ q.dead = t.dead /\ q.sock = t.sock
      /\ q.queue = w /\ q.step = "idle" /\ q.refused = r
      /\ q.open = t.open /\ q.applied = t.applied /\ q.line = t.line
  BY <1>3, <1>4, <1>5 DEF TxRecord
<1>7. QED
  BY <1>1, <1>6 DEF FailedTo

LEMMA FailingGood ==
  ASSUME plan \in Plan, NEW t, Calm(plan, t), Mortal(t), t.queue # <<>>
  PROVE  GoodTx(plan, Failing(t))
<1>1. PICK q : q = [t EXCEPT !.step = "idle", !.queue = Tail(@),
                             !.refused = @ \cup SetsIn(<<Head(t.queue)>>)]
  OBVIOUS
<1>2. /\ t \in TxRecord /\ Elsewhere(t) /\ Placed(t) /\ Queued(t)
      /\ t.attempt # 0 /\ t.sock # "gone" /\ (t.sock = "none" => Line(t) = NoLine)
      /\ Line(t).asked = <<>> /\ Line(t).told = <<>> /\ Applied(plan, t)
  BY DEF Calm
<1>3. t.run \in {"watch", "fn", "exec"} /\ t.told = None
  BY DEF Mortal
<1>4. FailedTo(t, q)
  BY <1>1, <1>2, FailedFields
<1>5. Line(q) = Line(t) /\ Elsewhere(q) /\ ExecAsked(q) = ExecAsked(t)
  BY <1>2, <1>4 DEF FailedTo, Line, Elsewhere, ExecAsked
<1>6. Mortal(q)
  BY <1>4, <1>5 DEF Mortal, FailedTo
<1>7. CASE t.run = "watch" \/ (t.run = "fn" /\ plan.awaits) \/ Head(t.queue).do = "exec"
  <2>1. Failing(t) = RunThrows(q)
    BY <1>1, <1>7 DEF Failing
  <2>2. QED
    BY <1>6, <2>1, RunThrowsParted, PartedGood
<1>8. CASE ~ (t.run = "watch" \/ (t.run = "fn" /\ plan.awaits)
              \/ Head(t.queue).do = "exec")
  <2>1. Failing(t) = q
    BY <1>1, <1>8 DEF Failing
  <2>2. t.run = "exec" \/ (t.run = "fn" /\ ~ plan.awaits)
    BY <1>3, <1>8
  <2>3. ~ t.dead /\ ~ t.done /\ t.open = {t.attempt}
    BY <1>2 DEF Placed
  <2>4. Placed(q)
    BY <1>2, <1>3, <1>4, <2>3 DEF Placed, FailedTo
  <2>5. Queued(q)
    BY <1>2, <1>3, <1>4, <2>2, QueuedTail DEF FailedTo
  <2>6. t.applied = <<>>
    BY <1>2, <1>3 DEF Applied
  <2>7. Applied(plan, q)
    <3>1. ~ ExecAsked(q)
      BY <1>2, <1>5 DEF ExecAsked
    <3>2. QED
      BY <1>3, <1>4, <2>6, <3>1, CalmApplied DEF FailedTo
  <2>8. ASSUME Writing(q)
        PROVE  Content(plan, q)
    <3>1. Writing(t)
      BY <1>2, <1>4, <2>8 DEF Writing, FailedTo
    <3>2. Content(plan, t)
      BY <3>1 DEF Calm
    <3>3. Unserved(t) = 1
      BY <1>2 DEF Unserved
    <3>4. FailedContent(t, q)
      BY <1>4, <1>5 DEF FailedContent, FailedTo
    <3>5. q \in TxRecord
      BY <1>4 DEF FailedTo
    <3>6. QED
      BY <1>2, <2>2, <3>2, <3>3, <3>4, <3>5, FailedKeepsContent
  <2>9. Calm(plan, q)
    BY <1>2, <1>4, <1>5, <2>4, <2>5, <2>7, <2>8 DEF Calm, FailedTo
  <2>10. QED
    BY <1>4, <2>1, <2>9, CalmIsGood DEF FailedTo
<1>9. QED
  BY <1>7, <1>8

LEMMA BegunCalm ==
  ASSUME NEW p, NEW t, Calm(p, t)
  PROVE  /\ Calm(p, [t EXCEPT !.begun = TRUE])
         /\ [t EXCEPT !.begun = TRUE].queue = t.queue
         /\ [t EXCEPT !.begun = TRUE].sock = t.sock
<1>1. PICK q : q = [t EXCEPT !.begun = TRUE]
  OBVIOUS
<1>2. /\ t \in TxRecord /\ Elsewhere(t) /\ Placed(t) /\ Queued(t)
      /\ t.attempt # 0 /\ t.sock # "gone" /\ (t.sock = "none" => Line(t) = NoLine)
      /\ Line(t).asked = <<>> /\ Line(t).told = <<>> /\ Applied(p, t)
  BY DEF Calm
<1>3. /\ q \in TxRecord /\ q.run = t.run /\ q.pc = t.pc /\ q.told = t.told
      /\ q.attempt = t.attempt /\ q.finishing = t.finishing
      /\ q.done = t.done /\ q.dead = t.dead /\ q.sock = t.sock
      /\ q.queue = t.queue /\ q.step = t.step /\ q.refused = t.refused
      /\ q.open = t.open /\ q.applied = t.applied /\ q.line = t.line
  BY <1>1, <1>2 DEF TxRecord
<1>4. Line(q) = Line(t) /\ Elsewhere(q)
  BY <1>2, <1>3 DEF Line, Elsewhere
<1>5. Placed(q)
  BY <1>2, <1>3 DEF Placed
<1>6. Queued(q)
  BY <1>2, <1>3 DEF Queued
<1>7. Applied(p, q)
  BY <1>2, <1>3, <1>4 DEF Applied, ExecAsked, AppliedOnce
<1>8. Writing(q) => Content(p, q)
  <2>1. Writing(q) => Content(p, t)
    BY <1>3, <1>4 DEF Writing, Executing, Calm
  <2>2. Unserved(q) = Unserved(t)
    BY <1>3, <1>4 DEF Unserved
  <2>3. QED
    BY <1>3, <1>4, <2>1, <2>2, ContentKept
<1>9. QED
  BY <1>1, <1>2, <1>3, <1>4, <1>5, <1>6, <1>7, <1>8 DEF Calm

LEMMA OverGoodTx ==
  ASSUME NEW p, NEW d, Mortal(d), NEW t, DiedFrom(t, d), ~ ExecAsked(d),
         Line(d).told = <<>>, NEW what \in {"committed", "aborted"},
         IF what = "committed" THEN AppliedOnce(p, d) ELSE d.applied = <<>>
  PROVE  GoodTx(p, RunOver(d, what))
<1>1. PICK q : q = RunOver(d, what)
  OBVIOUS
<1>2. /\ q \in TxRecord /\ q.run = "over" /\ q.told = what
      /\ q.attempt = d.attempt /\ q.dead = d.dead /\ q.done = d.done
      /\ q.sock = d.sock /\ q.queue = d.queue /\ q.step = d.step
      /\ q.refused = d.refused /\ q.open = d.open /\ q.applied = d.applied
      /\ q.line = d.line
  BY <1>1, RunOverFields DEF Mortal
<1>3. /\ Line(q) = Line(d) /\ ExecAsked(q) = ExecAsked(d)
      /\ (Elsewhere(d) => Elsewhere(q))
  BY <1>2 DEF Line, ExecAsked, Elsewhere
<1>4. q.told # None /\ q.open = {}
  <2>1. d.open = {}
    BY DEF Mortal, DiedFrom
  <2>2. QED
    BY <1>2, <2>1, RemoteTransactionAssumption
<1>5. AppliedOnce(p, d) => AppliedOnce(p, q)
  BY <1>2 DEF AppliedOnce
<1>6. Parted(p, q)
  BY <1>2, <1>3, <1>4, <1>5 DEF Parted, Mortal, DiedFrom
<1>7. QED
  BY <1>1, <1>6, PartedGood

LEMMA ExecutedGood ==
  ASSUME plan \in Plan, NEW t, GoodTx(plan, t), t.attempt # 0, t.sock = "up",
         t.step # "idle", t.queue # <<>>, NEW r \in Reply, Executing(t),
         Fits(plan, t, r), NEW u, TakenTo(t, u)
  PROVE  GoodTx(plan, Executed(Dies([u EXCEPT !.queue = <<>>], TRUE), r))
<1>1. PICK v, d : v = [u EXCEPT !.queue = <<>>] /\ d = Dies(v, TRUE)
  OBVIOUS
<1>2. /\ t \in TxRecord /\ Elsewhere(t) /\ Placed(t) /\ Queued(t)
  BY DEF GoodTx
<1>3. t.run \in {"watch", "fn", "exec"}
  BY <1>2, TxFields DEF Placed
<1>4. Mortal(t) /\ Mortal(u) /\ u \in TxRecord
  BY <1>3, GoodMortal, TakenMortal DEF Mortal
<1>5. /\ v \in TxRecord /\ v.run = u.run /\ v.told = u.told
      /\ v.attempt = u.attempt /\ v.queue = <<>> /\ v.refused = u.refused
      /\ v.open = u.open /\ v.applied = u.applied /\ v.line = u.line
  <2>1. <<>> \in Seq(TxOp)
    OBVIOUS
  <2>2. QED
    BY <1>1, <1>4, <2>1 DEF TxRecord
<1>6. /\ Line(v) = Line(u) /\ ExecAsked(v) = ExecAsked(u)
      /\ (Elsewhere(u) => Elsewhere(v))
  BY <1>5 DEF Line, ExecAsked, Elsewhere
<1>7. Mortal(v)
  BY <1>4, <1>5, <1>6 DEF Mortal
<1>8. DiedFrom(v, d) /\ Mortal(d)
  BY <1>1, <1>7, DiesFields, DiesMortal DEF Mortal
<1>9. Line(u) = NoLine
  <2>1. /\ Line(t) = [NoLine EXCEPT !.told = <<r>>]
        /\ Line(u) = [Line(t) EXCEPT !.told = <<>>]
    BY DEF Fits, TakenTo
  <2>2. QED
    BY <2>1 DEF NoLine
<1>10. Line(d) = NoLine /\ Line(d).told = <<>> /\ ~ ExecAsked(d)
  <2>1. Line(d) = [NoLine EXCEPT !.told = <<>>]
    BY <1>6, <1>8, <1>9 DEF DiedFrom
  <2>2. Line(d) = NoLine
    BY <2>1 DEF NoLine
  <2>3. QED
    BY <2>2, NoLineType DEF ExecAsked
<1>11. d.refused = t.refused /\ d.applied = t.applied
  BY <1>5, <1>8, SetsInNothing DEF DiedFrom, TakenTo
<1>12. \A a \in Tries : d.line[a] = NoLine
  BY <1>8, <1>10 DEF Mortal, Elsewhere, Line
<1>13. CASE r = "array"
  <2>1. AppliedOnce(plan, d)
    BY <1>11, <1>13 DEF Fits, AppliedOnce
  <2>2. GoodTx(plan, RunOver(d, "committed"))
    BY <1>8, <1>10, <2>1, OverGoodTx
  <2>3. QED
    BY <1>1, <1>13, <2>2 DEF Executed
<1>14. CASE r = "nil"
  <2>1. d.applied = <<>>
    BY <1>11, <1>14 DEF Fits
  <2>2. CASE d.attempt > MaxRetries
    <3>1. GoodTx(plan, RunOver(d, "aborted"))
      BY <1>8, <1>10, <2>1, OverGoodTx
    <3>2. QED
      BY <1>1, <1>14, <2>2, <3>1 DEF Executed, Conflicted
  <2>3. CASE ~ (d.attempt > MaxRetries)
    <3>1. d \in TxRecord
      BY <1>8 DEF DiedFrom
    <3>2. d.attempt \in Nat
      BY <3>1, TxFields
    <3>3. d.attempt \in 0 .. MaxRetries
      BY <2>3, <3>2, RemoteTransactionAssumption
    <3>4. d.open = {} /\ d.told = None /\ d.attempt # 0
      BY <1>8 DEF Mortal, DiedFrom
    <3>5. Fresh(d)
      BY <1>8, <1>12, <2>1, <3>1, <3>3, <3>4 DEF Fresh, DiedFrom
    <3>6. QED
      BY <1>1, <1>14, <2>3, <3>5, NextAttemptGood DEF Executed, Conflicted
  <2>4. QED
    BY <2>2, <2>3
<1>15. CASE r = "error"
  BY <1>1, <1>8, <1>15, RunThrowsParted, PartedGood DEF Executed
<1>16. QED
  BY <1>13, <1>14, <1>15 DEF Fits, Reply

LEMMA DiscardedGood ==
  ASSUME plan \in Plan, NEW t, Mortal(t), Queued(t), t.queue # <<>>,
         Head(t.queue).do = "discard", NEW u, Mortal(u),
         u.queue = t.queue, u.run = t.run
  PROVE  GoodTx(plan, Dies(Passed(u), TRUE))
<1>1. 1 \in DOMAIN t.queue /\ t.queue[1].do = "discard"
  BY TxFields DEF Mortal
<1>2. t.run = "fn"
  <2>1. t.run # "watch"
    BY <1>1 DEF Queued
  <2>2. t.run # "exec"
    BY <1>1 DEF Queued
  <2>3. QED
    BY <2>1, <2>2 DEF Mortal
<1>3. Mortal(Passed(u))
  BY PassedMortal
<1>4. PassedTo(u, Passed(u))
  BY PassedFields DEF Mortal
<1>5. Passed(u).run = "fn"
  BY <1>2, <1>4 DEF PassedTo
<1>6. QED
  BY <1>3, <1>5, DiesParted, PartedGood

LEMMA TxDataStep ==
  ASSUME TxInv, TxData
  PROVE  GoodTx(plan, tx')
<1>1. PICK t : t = tx
  OBVIOUS
<1>2. plan \in Plan /\ GoodTx(plan, t)
  BY <1>1 DEF TxInv
<1>3. /\ t \in TxRecord /\ Elsewhere(t) /\ Placed(t) /\ Queued(t) /\ Linked(plan, t)
  BY <1>2 DEF GoodTx
<1>4. t.sock = "up" /\ Line(t).told # <<>>
  BY <1>1 DEF TxData, Line
<1>5. t.attempt # 0
  BY <1>3, <1>4 DEF Placed
<1>6. t.step # "idle" /\ t.step # "dialing" /\ t.queue # <<>>
  BY <1>3, <1>4 DEF Linked
<1>7. PICK r \in Reply : /\ Line(t).asked = <<>> /\ Line(t).told = <<r>>
                         /\ Fits(plan, t, r)
  BY <1>3, <1>4, <1>6 DEF Linked
<1>8. PICK u : u = [t EXCEPT !.line[t.attempt].told = Tail(@)]
  OBVIOUS
<1>9. TakenTo(t, u)
  BY <1>3, <1>5, <1>7, <1>8, TakenFields
<1>10. tx' = Answered(u, r)
  <2>1. Head(<<r>>) = r
    OBVIOUS
  <2>2. Head(tx.line[tx.attempt].told) = r
    BY <1>1, <1>7, <2>1 DEF Line
  <2>3. QED
    BY <1>1, <1>8, <2>2 DEF TxData
<1>11. u.step = t.step /\ u.queue = t.queue /\ u.run = t.run /\ u.sock = t.sock
  BY <1>9 DEF TakenTo
<1>12. CASE Executing(t)
  <2>1. GoodTx(plan, Executed(Dies([u EXCEPT !.queue = <<>>], TRUE), r))
    BY <1>2, <1>4, <1>5, <1>6, <1>7, <1>9, <1>12, ExecutedGood
  <2>2. Answered(u, r) = Executed(Dies([u EXCEPT !.queue = <<>>], TRUE), r)
    BY <1>11, <1>12 DEF Answered, Ended, Executing
  <2>3. QED
    BY <1>10, <2>1, <2>2
<1>13. CASE ~ Executing(t)
  <2>1. r \in {"ok", "error"}
    BY <1>7, <1>13 DEF Fits
  <2>2. Replying(plan, t, r)
    BY <1>2, <1>4, <1>5, <1>6, <1>7, <1>13, <2>1 DEF Replying
  <2>3. Mortal(t) /\ Mortal(u)
    BY <1>9, <2>2, ReplyingLive, TakenMortal
  <2>4. r # "ok" \/ t.step # "command" => Calm(plan, u) /\ u.queue # <<>>
    BY <1>9, <2>2, TakenCalm
  <2>5. CASE t.step = "auth"
    <3>1. CASE r = "error"
      <4>1. Answered(u, r) = Killed(u, FALSE)
        BY <1>11, <2>5, <3>1 DEF Answered
      <4>2. QED
        BY <1>10, <2>3, <4>1, KilledGood
    <3>2. CASE r = "ok"
      <4>1. Answered(u, r) = Proceed(u, Head(u.queue))
        BY <1>11, <2>5, <3>2 DEF Answered
      <4>2. QED
        BY <1>4, <1>10, <1>11, <2>4, <2>5, <4>1, ProceedGood
    <3>3. QED
      BY <2>1, <3>1, <3>2
  <2>6. CASE t.step = "multi"
    <3>1. CASE r = "error"
      <4>1. Answered(u, r) = Failing(u)
        BY <1>11, <2>6, <3>1 DEF Answered
      <4>2. QED
        BY <1>2, <1>10, <2>3, <2>4, <2>6, <4>1, FailingGood
    <3>2. CASE r = "ok"
      <4>1. PICK w : w = [u EXCEPT !.begun = TRUE]
        OBVIOUS
      <4>2. Answered(u, r) = Proceed(w, Head(u.queue))
        BY <1>11, <2>6, <3>2, <4>1 DEF Answered
      <4>3. Calm(plan, w) /\ w.queue = u.queue /\ w.sock = u.sock
        BY <2>4, <2>6, <4>1, BegunCalm
      <4>4. GoodTx(plan, Proceed(w, Head(w.queue)))
        BY <1>4, <1>11, <2>4, <2>6, <4>3, ProceedGood
      <4>5. QED
        BY <1>10, <4>2, <4>3, <4>4
    <3>3. QED
      BY <2>1, <3>1, <3>2
  <2>7. CASE t.step = "command"
    <3>1. PICK op : op = Head(u.queue)
      OBVIOUS
    <3>2. op.do # "exec" /\ Answered(u, r) = Ended(u, op, r)
      BY <1>11, <1>13, <2>7, <3>1 DEF Answered, Executing
    <3>3. CASE op.do = "discard"
      <4>1. CASE r = "error"
        <5>1. Ended(u, op, r) = Killed(u, TRUE)
          BY <3>3, <4>1 DEF Ended
        <5>2. QED
          BY <1>10, <2>3, <3>2, <5>1, KilledGood
      <4>2. CASE r = "ok"
        <5>1. Ended(u, op, r) = Dies(Passed(u), TRUE)
          BY <3>3, <4>2 DEF Ended
        <5>2. QED
          BY <1>2, <1>3, <1>6, <1>10, <1>11, <2>3, <3>1, <3>2, <3>3, <5>1,
             DiscardedGood
      <4>3. QED
        BY <2>1, <4>1, <4>2
    <3>4. CASE op.do # "discard"
      <4>1. CASE r = "error"
        <5>1. Ended(u, op, r) = Failing(u)
          BY <3>2, <3>4, <4>1 DEF Ended
        <5>2. QED
          BY <1>2, <1>10, <2>3, <2>4, <3>2, <4>1, <5>1, FailingGood
      <4>2. CASE r = "ok"
        <5>1. Ended(u, op, r) = Passed(u)
          BY <3>2, <3>4, <4>2 DEF Ended
        <5>2. QED
          BY <1>2, <1>9, <1>10, <2>2, <2>7, <3>2, <4>2, <5>1, PassedCalm
      <4>3. QED
        BY <2>1, <4>1, <4>2
    <3>5. QED
      BY <3>3, <3>4
  <2>8. QED
    BY <1>3, <1>6, <2>5, <2>6, <2>7, TxFields
<1>14. QED
  BY <1>12, <1>13

-----------------------------------------------------------------------------
(* The server answers.                                                     *)

LEMMA AnswerFacts ==
  ASSUME NEW l \in LineState, NEW cmd \in TxCommand, NEW version \in Nat,
         NEW refuse \in BOOLEAN, NEW r, r = Answer(l, cmd, version, refuse)
  PROVE  /\ r.line \in LineState /\ r.reply \in Reply
         /\ IF cmd.do = "exec" THEN r.line = NoLine /\ r.reply # "ok"
            ELSE r.reply \in {"ok", "error"}
         /\ cmd.do \in {"auth", "get", "watch", "multi"} => r.line.batch = l.batch
         /\ cmd.do = "set" =>
              \/ r.reply = "error" /\ r.line.batch = l.batch
              \/ r.reply = "ok" /\ r.line.batch = Append(l.batch, cmd.n)
<1>1. cmd.do \in {"auth", "get", "watch", "multi", "set", "discard", "exec"}
  BY DEF TxCommand, TxOp
<1>2. CASE cmd.do \in {"auth", "get"}
  BY <1>2 DEF Answer, Reply
<1>3. CASE cmd.do = "watch"
  <2>1. PICK m : m = [l EXCEPT !.watched = version]
    OBVIOUS
  <2>2. m \in LineState /\ m.batch = l.batch
    BY <2>1 DEF LineState
  <2>3. r = [line |-> m, reply |-> "ok"]
    BY <1>3, <2>1 DEF Answer
  <2>4. r.line = m /\ r.reply = "ok"
    BY <2>3
  <2>5. QED
    BY <1>3, <2>2, <2>4 DEF Reply
<1>4. CASE cmd.do = "multi"
  <2>1. PICK y, m : /\ y = (IF l.multi THEN "error" ELSE "ok")
                    /\ m = [l EXCEPT !.multi = TRUE]
    OBVIOUS
  <2>2. m \in LineState /\ m.batch = l.batch
    BY <2>1 DEF LineState
  <2>3. r = [line |-> m, reply |-> y]
    BY <1>4, <2>1 DEF Answer
  <2>4. r.line = m /\ r.reply = y /\ y \in {"ok", "error"}
    BY <2>1, <2>3
  <2>5. QED
    BY <1>4, <2>2, <2>4 DEF Reply
<1>5. CASE cmd.do = "set" /\ refuse
  <2>1. PICK m : m = [l EXCEPT !.failed = TRUE]
    OBVIOUS
  <2>2. m \in LineState /\ m.batch = l.batch
    BY <2>1 DEF LineState
  <2>3. r = [line |-> m, reply |-> "error"]
    BY <1>5, <2>1 DEF Answer
  <2>4. r.line = m /\ r.reply = "error"
    BY <2>3
  <2>5. QED
    BY <1>5, <2>2, <2>4 DEF Reply
<1>6. CASE cmd.do = "set" /\ ~ refuse
  <2>1. PICK b : b = Append(l.batch, cmd.n)
    OBVIOUS
  <2>2. cmd.n \in Nat
    BY <1>6 DEF TxCommand, TxOp
  <2>3. b \in Seq(Nat)
    BY <2>1, <2>2, LineFields, AppendProperties
  <2>4. PICK m : m = [l EXCEPT !.batch = b]
    OBVIOUS
  <2>5. m \in LineState /\ m.batch = b
    BY <2>3, <2>4 DEF LineState
  <2>6. r = [line |-> m, reply |-> "ok"]
    BY <1>6, <2>1, <2>4 DEF Answer
  <2>7. r.line = m /\ r.reply = "ok"
    BY <2>6
  <2>8. QED
    BY <1>6, <2>1, <2>5, <2>7 DEF Reply
<1>7. CASE cmd.do = "discard"
  <2>1. r = [line |-> NoLine, reply |-> "ok"]
    BY <1>7 DEF Answer
  <2>2. r.line = NoLine /\ r.reply = "ok"
    BY <2>1
  <2>3. QED
    BY <1>7, <2>2, NoLineType DEF Reply
<1>8. CASE cmd.do = "exec"
  <2>1. PICK y : y = IF refuse \/ ~ l.multi \/ l.failed THEN "error"
                     ELSE IF l.watched \notin {None, version} THEN "nil" ELSE "array"
    OBVIOUS
  <2>2. r = [line |-> NoLine, reply |-> y]
    BY <1>8, <2>1 DEF Answer
  <2>3. r.line = NoLine /\ r.reply = y /\ y \in {"error", "nil", "array"}
    BY <2>1, <2>2
  <2>4. QED
    BY <1>8, <2>3, NoLineType DEF Reply
<1>9. QED
  BY <1>1, <1>2, <1>3, <1>4, <1>5, <1>6, <1>7, <1>8

LEMMA BatchGrows ==
  ASSUME NEW p \in Plan, NEW t \in TxRecord, t.run # "watch",
         NEW b \in Seq(Nat), NEW W, W = Writes(p.fn),
         NEW s \in Seq(TxOp), s # <<>>, s[1].do = "set",
         Called(p, t, b, W, s, 1)
  PROVE  Called(p, t, Append(b, s[1].n), W, s, 2)
<1>1. PICK n, c : n = s[1].n /\ c = Append(b, n)
  OBVIOUS
<1>2. /\ t.refused \subseteq 0 .. t.pc - 1
      /\ \A i \in DOMAIN s : s[i].do = "set" =>
           /\ s[i].n \in W \ t.refused
           /\ s[i].n <= t.pc /\ (s[i].n = t.pc => p.awaits)
           /\ \A j \in DOMAIN s : s[j].do = "set" /\ i < j => s[i].n < s[j].n
           /\ i >= 1 => \A x \in DOMAIN b : b[x] < s[i].n
  BY DEF Called
<1>3. /\ \A x \in DOMAIN b :
           /\ b[x] \in W \ t.refused
           /\ b[x] <= t.pc /\ (b[x] = t.pc => p.awaits /\ s # <<>>)
           /\ \A y \in DOMAIN b : x < y => b[x] < b[y]
      /\ \A m \in W : m < t.pc => m \in Range(b) \cup t.refused \cup SetsIn(s)
      /\ t.run = "fn" /\ p.awaits /\ s # <<>> =>
           /\ Len(s) = 1 /\ t.pc \in DOMAIN p.fn
           /\ IF p.fn[t.pc] = "set" THEN s[1] = Set(t.pc) ELSE s[1].do # "set"
      /\ t.run = "exec" => t.pc > Len(p.fn)
  BY DEF Called
<1>4. /\ \A m \in W : m \in Nat
  BY WritesNumbers
<1>5. /\ 1 \in DOMAIN s /\ \A i \in DOMAIN s : i \in Nat /\ i >= 1
  <2>1. Len(s) \in Nat /\ Len(s) # 0 /\ DOMAIN s = 1 .. Len(s)
    OBVIOUS
  <2>2. QED
    BY <2>1
<1>6. /\ n \in W \ t.refused /\ n <= t.pc /\ (n = t.pc => p.awaits) /\ n \in Nat
      /\ \A x \in DOMAIN b : b[x] < n
  BY <1>1, <1>2, <1>4, <1>5
<1>7. /\ c \in Seq(Nat) /\ Len(b) \in Nat
      /\ DOMAIN b = 1 .. Len(b) /\ DOMAIN c = 1 .. Len(b) + 1
      /\ \A x \in DOMAIN b : x \in DOMAIN c /\ c[x] = b[x]
      /\ c[Len(b) + 1] = n
  BY <1>1, <1>6, AppendProperties
<1>8. \A x \in DOMAIN c : x \in DOMAIN b \/ x = Len(b) + 1
  BY <1>7
<1>9. ASSUME NEW i \in DOMAIN s, s[i].do = "set"
      PROVE  /\ i >= 2 => \A x \in DOMAIN c : c[x] < s[i].n
             /\ i < 2 => s[i].n \in Range(c)
  <2>1. ASSUME i >= 2, NEW x \in DOMAIN c
        PROVE  c[x] < s[i].n
    <3>1. 1 < i
      BY <1>5, <2>1
    <3>2. n < s[i].n
      BY <1>1, <1>2, <1>5, <1>9, <3>1
    <3>3. \A y \in DOMAIN b : b[y] < s[i].n
      BY <1>2, <1>5, <1>9
    <3>4. QED
      BY <1>7, <1>8, <3>2, <3>3
  <2>2. ASSUME i < 2
        PROVE  s[i].n \in Range(c)
    <3>1. i = 1
      BY <1>5, <2>2
    <3>2. Len(b) + 1 \in DOMAIN c
      BY <1>7
    <3>3. QED
      BY <1>1, <1>7, <3>1, <3>2 DEF Range
  <2>3. QED
    BY <2>1, <2>2
<1>10. ASSUME NEW x \in DOMAIN c
       PROVE  /\ c[x] \in W \ t.refused
              /\ c[x] <= t.pc /\ (c[x] = t.pc => p.awaits /\ s # <<>>)
              /\ \A y \in DOMAIN c : x < y => c[x] < c[y]
  <2>1. CASE x \in DOMAIN b
    <3>1. c[x] = b[x]
      BY <1>7, <2>1
    <3>2. ASSUME NEW y \in DOMAIN c, x < y
          PROVE  c[x] < c[y]
      <4>1. CASE y \in DOMAIN b
        BY <1>3, <1>7, <2>1, <3>2, <4>1
      <4>2. CASE y = Len(b) + 1
        BY <1>6, <1>7, <2>1, <4>2
      <4>3. QED
        BY <1>8, <4>1, <4>2
    <3>3. QED
      BY <1>3, <2>1, <3>1, <3>2
  <2>2. CASE x = Len(b) + 1
    <3>1. c[x] = n
      BY <1>7, <2>2
    <3>2. \A y \in DOMAIN c : ~ (x < y)
      BY <1>7, <2>2
    <3>3. QED
      BY <1>6, <3>1, <3>2
  <2>3. QED
    BY <1>8, <2>1, <2>2
<1>11. Range(b) \subseteq Range(c)
  <2>1. ASSUME NEW x \in DOMAIN b
        PROVE  b[x] \in Range(c)
    <3>1. x \in DOMAIN c /\ c[x] = b[x]
      BY <1>7
    <3>2. QED
      BY <3>1 DEF Range
  <2>2. QED
    BY <2>1 DEF Range
<1>12. Called(p, t, c, W, s, 2)
  BY <1>2, <1>3, <1>9, <1>10, <1>11 DEF Called
<1>13. QED
  BY <1>1, <1>12

LEMMA CommitIsRight ==
  ASSUME NEW p \in Plan, NEW t \in TxRecord, NEW b \in Seq(Nat), Queued(t),
         t.run = "exec", t.queue # <<>>, Head(t.queue).do = "exec",
         Called(p, t, b, Writes(p.fn), t.queue, 1),
         NEW q, q.applied = <<b>>, q.refused = t.refused
  PROVE  AppliedOnce(p, q)
<1>1. PICK W, s : W = Writes(p.fn) /\ s = t.queue
  OBVIOUS
<1>2. s \in Seq(TxOp) /\ s # <<>>
  BY <1>1, TxFields
<1>3. DOMAIN s = {1} /\ s[1].do = "exec"
  <2>1. 1 \in DOMAIN s /\ s[1].do = "exec" /\ Len(s) \in Nat /\ DOMAIN s = 1 .. Len(s)
    BY <1>1, <1>2
  <2>2. 1 = Len(s)
    BY <1>1, <2>1 DEF Queued
  <2>3. 1 .. 1 = {1}
    OBVIOUS
  <2>4. QED
    BY <2>1, <2>2, <2>3
<1>4. SetsIn(s) = {}
  BY <1>2, <1>3, SetsInNumbers
<1>5. Called(p, t, b, W, s, 1)
  BY <1>1
<1>6. /\ \A x \in DOMAIN b :
           /\ b[x] \in W \ t.refused
           /\ \A y \in DOMAIN b : x < y => b[x] < b[y]
      /\ \A m \in W : m < t.pc => m \in Range(b) \cup t.refused \cup SetsIn(s)
      /\ t.pc > Len(p.fn)
  BY <1>5 DEF Called
<1>7. \A m \in W : m < t.pc
  <2>1. t.pc \in Nat /\ Len(p.fn) \in Nat /\ \A m \in W : m \in Nat /\ m <= Len(p.fn)
    BY <1>1, TxFields, WritesNumbers
  <2>2. QED
    BY <1>6, <2>1
<1>8. Range(b) = W \ t.refused
  BY <1>4, <1>6, <1>7 DEF Range
<1>9. PICK z : z = q.applied
  OBVIOUS
<1>10. z = <<b>> /\ Len(z) = 1 /\ z[1] = b
  BY <1>9
<1>11. QED
  BY <1>1, <1>6, <1>8, <1>9, <1>10 DEF AppliedOnce

(* The server and the network change the connection of an attempt only.    *)
ServedTo(t, a, l, g, q) ==
  /\ q \in TxRecord /\ q.run = t.run /\ q.pc = t.pc /\ q.told = t.told
  /\ q.attempt = t.attempt /\ q.begun = t.begun /\ q.finishing = t.finishing
  /\ q.done = t.done /\ q.dead = t.dead /\ q.sock = t.sock
  /\ q.queue = t.queue /\ q.step = t.step /\ q.refused = t.refused
  /\ q.open = t.open /\ q.applied = g /\ q.line[a] = l
  /\ \A b \in Tries : b # a => q.line[b] = t.line[b]

LEMMA ServedFields ==
  ASSUME NEW t \in TxRecord, NEW a \in Tries, NEW l \in LineState,
         NEW g \in Seq(Seq(Nat)), NEW v \in Nat, NEW q,
         q = [t EXCEPT !.line[a] = l, !.applied = g, !.version = v]
  PROVE  ServedTo(t, a, l, g, q)
<1>1. t.line \in [Tries -> LineState]
  BY TxFields
<1>2. PICK m : m = [t.line EXCEPT ![a] = l]
  OBVIOUS
<1>3. /\ m \in [Tries -> LineState] /\ m[a] = l
      /\ \A b \in Tries : b # a => m[b] = t.line[b]
  BY <1>1, <1>2
<1>4. q = [t EXCEPT !.line = m, !.applied = g, !.version = v]
  BY <1>2
<1>5. /\ q \in TxRecord /\ q.run = t.run /\ q.pc = t.pc /\ q.told = t.told
      /\ q.attempt = t.attempt /\ q.begun = t.begun /\ q.finishing = t.finishing
      /\ q.done = t.done /\ q.dead = t.dead /\ q.sock = t.sock
      /\ q.queue = t.queue /\ q.step = t.step /\ q.refused = t.refused
      /\ q.open = t.open /\ q.applied = g /\ q.line = m
  BY <1>3, <1>4 DEF TxRecord
<1>6. QED
  BY <1>3, <1>5 DEF ServedTo

(* What a dead transaction had sent is served or lost.                     *)
LEMMA DeadServedGood ==
  ASSUME NEW p, NEW t, GoodTx(p, t), t.attempt # 0, t.dead, NEW l \in LineState,
         l.asked = <<>>, l.told = <<>>, NEW g,
         g = t.applied \/ (ExecAsked(t) /\ \E b : g = Append(t.applied, b)),
         NEW q, ServedTo(t, t.attempt, l, g, q)
  PROVE  GoodTx(p, q)
<1>1. /\ t \in TxRecord /\ Elsewhere(t) /\ Placed(t) /\ Queued(t)
      /\ Linked(p, t) /\ Applied(p, t)
  BY DEF GoodTx
<1>2. q \in TxRecord /\ Elsewhere(q)
  BY <1>1 DEF ServedTo, Elsewhere
<1>3. Line(q) = l /\ Len(<<>>) = 0
  BY DEF ServedTo, Line
<1>4. Placed(q)
  BY <1>1 DEF ServedTo, Placed
<1>5. Queued(q)
  BY <1>1 DEF ServedTo, Queued
<1>6. Linked(p, q)
  <2>1. t.step = "idle" /\ t.sock = "gone"
    BY <1>1 DEF Linked, Placed
  <2>2. q.step = "idle" /\ q.sock = "gone" /\ q.attempt # 0
    BY <2>1 DEF ServedTo
  <2>3. Len(Line(q).asked) <= 1 /\ Line(q).told = <<>>
    BY <1>3
  <2>4. QED
    BY <2>2, <2>3 DEF Linked
<1>7. ~ ExecAsked(q)
  BY <1>3 DEF ExecAsked
<1>8. Applied(p, q)
  <2>1. CASE g = t.applied
    <3>1. q.applied = t.applied /\ q.told = t.told /\ q.run = t.run
          /\ q.refused = t.refused /\ q.dead
      BY <2>1 DEF ServedTo
    <3>2. AppliedOnce(p, t) => AppliedOnce(p, q)
      BY <3>1 DEF AppliedOnce
    <3>3. QED
      BY <1>1, <1>7, <3>1, <3>2 DEF Applied
  <2>2. CASE ExecAsked(t) /\ \E b : g = Append(t.applied, b)
    <3>1. PICK b : g = Append(t.applied, b)
      BY <2>2
    <3>2. t.applied = <<>> /\ t.told = "failed"
      BY <1>1, <2>2 DEF Applied
    <3>3. Append(<<>>, b) = <<b>> /\ Len(<<b>>) = 1
      OBVIOUS
    <3>4. Len(q.applied) <= 1
      BY <3>1, <3>2, <3>3 DEF ServedTo
    <3>5. t.run = "over"
      BY <1>1, <3>2, RemoteTransactionAssumption DEF Placed
    <3>6. q.told = "failed" /\ q.run = "over"
      BY <3>2, <3>5 DEF ServedTo
    <3>7. QED
      BY <1>7, <3>4, <3>6 DEF Applied
  <2>3. QED
    BY <2>1, <2>2
<1>9. ~ Writing(q)
  BY DEF Writing, ServedTo
<1>10. QED
  BY <1>2, <1>4, <1>5, <1>6, <1>8, <1>9 DEF GoodTx

LEMMA HeadNoSet ==
  ASSUME NEW p, NEW t, NEW b, NEW W, NEW s \in Seq(TxOp),
         s # <<>> => s[1].do # "set", Called(p, t, b, W, s, 1)
  PROVE  Called(p, t, b, W, s, 2)
<1>1. \A i \in DOMAIN s : i \in Nat /\ i >= 1 /\ (i < 2 => i = 1 /\ s # <<>>)
  <2>1. Len(s) \in Nat /\ DOMAIN s = 1 .. Len(s) /\ (s = <<>> => Len(s) = 0)
    OBVIOUS
  <2>2. QED
    BY <2>1
<1>2. \A i \in DOMAIN s : s[i].do = "set" => ~ (i < 2)
  BY <1>1
<1>3. QED
  BY <1>1, <1>2 DEF Called

LEMMA AskedLive ==
  ASSUME NEW p, NEW t, GoodTx(p, t), t.attempt # 0, ~ t.dead,
         Line(t).asked # <<>>
  PROVE  /\ t \in TxRecord /\ Elsewhere(t) /\ Placed(t) /\ Queued(t)
         /\ t.sock = "up" /\ t.queue # <<>> /\ t.step \in {"auth", "multi", "command"}
         /\ t.run \in {"watch", "fn", "exec"} /\ t.told = None
         /\ Line(t).asked = <<Expected(t)>> /\ Line(t).told = <<>>
         /\ Expected(t) \in TxCommand
         /\ t.applied = <<>>
         /\ (t.run = "fn" => ~ t.finishing) => Content(p, t)
<1>1. /\ t \in TxRecord /\ Elsewhere(t) /\ Placed(t) /\ Queued(t)
      /\ Linked(p, t) /\ Applied(p, t)
  BY DEF GoodTx
<1>2. t.sock = "up"
  BY <1>1, TxFields, NoLineType DEF Linked, Placed
<1>3. t.step # "idle"
  BY <1>1, <1>2 DEF Linked
<1>4. /\ t.queue # <<>> /\ t.step # "dialing"
      /\ Line(t).asked = <<Expected(t)>> /\ Line(t).told = <<>>
  BY <1>1, <1>2, <1>3 DEF Linked
<1>5. t.step \in {"auth", "multi", "command"}
  BY <1>1, <1>3, <1>4, TxFields
<1>6. t.run \in {"watch", "fn", "exec"} /\ t.told = None
  BY <1>1, <1>4, TxFields DEF Placed
<1>7. Expected(t) \in TxCommand
  <2>1. PICK c : c = Expected(t)
    OBVIOUS
  <2>2. <<c>> \in Seq(TxCommand)
    BY <1>1, <1>4, <2>1, TxFields, LineFields
  <2>3. 1 \in DOMAIN <<c>> /\ <<c>>[1] = c
    OBVIOUS
  <2>4. c \in TxCommand
    BY <2>2, <2>3
  <2>5. QED
    BY <2>1, <2>4
<1>8. t.applied = <<>>
  <2>1. <<>> # <<"array">>
    OBVIOUS
  <2>2. QED
    BY <1>1, <1>4, <1>6, <2>1 DEF Applied
<1>9. ASSUME t.run = "fn" => ~ t.finishing
      PROVE  Content(p, t)
  BY <1>4, <1>6, <1>9 DEF GoodTx, Writing
<1>10. QED
  BY <1>1, <1>2, <1>4, <1>5, <1>6, <1>7, <1>8, <1>9

(* What is the same whatever the server answers.                           *)
LEMMA ServedSame ==
  ASSUME NEW t, NEW l, NEW g, NEW q, ServedTo(t, t.attempt, l, g, q),
         Elsewhere(t), Placed(t), Queued(t)
  PROVE  Elsewhere(q) /\ Placed(q) /\ Queued(q) /\ Line(q) = l
<1>1. Elsewhere(q) /\ Line(q) = l
  BY DEF ServedTo, Elsewhere, Line
<1>2. Placed(q)
  BY DEF ServedTo, Placed
<1>3. Queued(q)
  BY DEF ServedTo, Queued
<1>4. QED
  BY <1>1, <1>2, <1>3


LEMMA ExecServed ==
  ASSUME NEW p \in Plan, NEW t, GoodTx(p, t), t.attempt # 0, ~ t.dead,
         Line(t).asked # <<>>, Executing(t),
         NEW y \in Reply, y # "ok", NEW l, l = [NoLine EXCEPT !.told = <<y>>],
         NEW g, g = (IF y = "array" THEN Append(t.applied, Line(t).batch)
                     ELSE t.applied),
         NEW q, ServedTo(t, t.attempt, l, g, q)
  PROVE  GoodTx(p, q)
<1>1. /\ t \in TxRecord /\ Elsewhere(t) /\ Placed(t) /\ Queued(t)
      /\ t.sock = "up" /\ t.queue # <<>> /\ t.step \in {"auth", "multi", "command"}
      /\ t.run \in {"watch", "fn", "exec"} /\ t.told = None
      /\ Line(t).told = <<>> /\ t.applied = <<>>
      /\ (t.run = "fn" => ~ t.finishing) => Content(p, t)
  BY AskedLive
<1>2. q \in TxRecord /\ Elsewhere(q) /\ Placed(q) /\ Queued(q) /\ Line(q) = l
  BY <1>1, ServedSame DEF ServedTo
<1>3. l.asked = <<>> /\ l.told = <<y>>
  BY DEF NoLine
<1>4. t.run = "exec"
  <2>1. 1 \in DOMAIN t.queue /\ t.queue[1].do = "exec"
    BY <1>1, TxFields DEF Executing
  <2>2. t.run # "watch"
    BY <1>1, <2>1 DEF Queued
  <2>3. t.run # "fn"
    BY <1>1, <2>1 DEF Queued
  <2>4. QED
    BY <1>1, <2>2, <2>3
<1>5. y = "array" => AppliedOnce(p, q) /\ Len(q.applied) = 1
  <2>1. PICK b : b = Line(t).batch
    OBVIOUS
  <2>2. b \in Seq(Nat)
    BY <1>1, <2>1, TxFields, LineFields
  <2>3. Append(<<>>, b) = <<b>> /\ Len(<<b>>) = 1
    OBVIOUS
  <2>4. Unserved(t) = 1
    BY <1>1 DEF Unserved
  <2>5. Called(p, t, b, Writes(p.fn), t.queue, 1)
    BY <1>1, <1>4, <2>1, <2>4 DEF Content
  <2>6. ASSUME y = "array"
        PROVE  q.applied = <<b>>
    BY <1>1, <2>1, <2>3, <2>6 DEF ServedTo
  <2>7. Head(t.queue).do = "exec" /\ q.refused = t.refused
    BY DEF Executing, ServedTo
  <2>8. QED
    BY <1>1, <1>4, <2>2, <2>3, <2>5, <2>6, <2>7, CommitIsRight
<1>6. y # "array" => q.applied = <<>>
  BY <1>1 DEF ServedTo
<1>7. /\ q.run = "exec" /\ q.told = None /\ ~ q.dead /\ q.sock = "up"
      /\ q.step = "command" /\ q.step = t.step /\ q.queue = t.queue
      /\ q.attempt # 0
  BY <1>1, <1>4 DEF ServedTo, Executing
<1>8. Executing(q)
  BY <1>7 DEF Executing
<1>9. Fits(p, q, y)
  BY <1>2, <1>5, <1>6, <1>8 DEF Fits
<1>10. Linked(p, q)
  <2>1. Line(q).asked = <<>> /\ Line(q).told = <<y>>
    BY <1>2, <1>3
  <2>2. QED
    BY <1>1, <1>7, <1>9, <2>1 DEF Linked
<1>11. Applied(p, q)
  <2>1. ~ ExecAsked(q)
    BY <1>2, <1>3 DEF ExecAsked
  <2>2. Len(q.applied) <= 1
    <3>1. Len(<<>>) = 0
      OBVIOUS
    <3>2. Len(q.applied) \in {0, 1}
      BY <1>5, <1>6, <3>1
    <3>3. \A n \in {0, 1} : n <= 1
      OBVIOUS
    <3>4. QED
      BY <3>2, <3>3
  <2>3. q.applied # <<>> => Line(q).told = <<"array">>
    BY <1>2, <1>3, <1>6
  <2>4. QED
    BY <1>7, <2>1, <2>2, <2>3, RemoteTransactionAssumption DEF Applied
<1>12. ~ Writing(q)
  <2>1. <<y>> # <<>>
    OBVIOUS
  <2>2. QED
    BY <1>2, <1>3, <1>8, <2>1 DEF Writing
<1>13. QED
  BY <1>2, <1>10, <1>11, <1>12 DEF GoodTx

LEMMA CommandServed ==
  ASSUME NEW p \in Plan, NEW t, GoodTx(p, t), t.attempt # 0, ~ t.dead,
         Line(t).asked # <<>>, ~ Executing(t), NEW c, c = Expected(t),
         NEW y \in {"ok", "error"}, NEW l \in LineState,
         l.asked = <<>>, l.told = <<y>>,
         c.do \in {"auth", "get", "watch", "multi"} => l.batch = Line(t).batch,
         c.do = "set" =>
              \/ y = "error" /\ l.batch = Line(t).batch
              \/ y = "ok" /\ l.batch = Append(Line(t).batch, c.n),
         NEW q, ServedTo(t, t.attempt, l, t.applied, q)
  PROVE  GoodTx(p, q)
<1>1. /\ t \in TxRecord /\ Elsewhere(t) /\ Placed(t) /\ Queued(t)
      /\ t.sock = "up" /\ t.queue # <<>> /\ t.step \in {"auth", "multi", "command"}
      /\ t.run \in {"watch", "fn", "exec"} /\ t.told = None
      /\ Line(t).told = <<>> /\ t.applied = <<>> /\ c \in TxCommand
      /\ (t.run = "fn" => ~ t.finishing) => Content(p, t)
  BY AskedLive
<1>2. q \in TxRecord /\ Elsewhere(q) /\ Placed(q) /\ Queued(q) /\ Line(q) = l
  BY <1>1, ServedSame DEF ServedTo
<1>3. /\ q.run = t.run /\ q.pc = t.pc /\ q.told = None /\ ~ q.dead
      /\ q.sock = "up" /\ q.finishing = t.finishing /\ q.refused = t.refused
      /\ q.step = t.step /\ q.queue = t.queue /\ q.attempt # 0
      /\ q.applied = <<>>
  BY <1>1 DEF ServedTo
<1>4. ~ Executing(q)
  BY <1>3 DEF Executing
<1>5. Linked(p, q)
  <2>1. y \in Reply /\ Fits(p, q, y)
    BY <1>4 DEF Fits, Reply
  <2>2. Line(q).asked = <<>> /\ Line(q).told = <<y>>
    BY <1>2
  <2>3. QED
    BY <1>1, <1>3, <2>1, <2>2 DEF Linked
<1>6. Applied(p, q)
  <2>1. ~ ExecAsked(q)
    BY <1>2 DEF ExecAsked
  <2>2. QED
    BY <1>1, <1>3, <2>1, CalmApplied
<1>7. ASSUME Writing(q)
      PROVE  Content(p, q)
  <2>1. PICK b, W, s, m : /\ b = Line(t).batch /\ W = Writes(p.fn)
                          /\ s = t.queue /\ m = l.batch
    OBVIOUS
  <2>2. s \in Seq(TxOp) /\ s # <<>> /\ b \in Seq(Nat) /\ Head(s) = s[1]
    BY <1>1, <2>1, TxFields, LineFields
  <2>3. t.run = "fn" => ~ t.finishing
    BY <1>3, <1>7 DEF Writing
  <2>4. Unserved(t) = 1
    BY <1>1 DEF Unserved
  <2>5. Called(p, t, b, W, s, 1)
    BY <1>1, <2>1, <2>3, <2>4 DEF Content
  <2>6. Unserved(q) = IF t.step = "command" /\ y = "ok" THEN 2 ELSE 1
    <3>1. <<y>> = <<"ok">> <=> y = "ok"
      OBVIOUS
    <3>2. QED
      BY <1>2, <1>3, <3>1 DEF Unserved
  <2>7. c.do # "exec" /\ c.do # "discard"
    <3>1. CASE t.step = "command"
      <4>1. c = s[1]
        BY <2>1, <2>2, <3>1 DEF Expected
      <4>2. c.do # "exec"
        BY <2>1, <2>2, <3>1, <4>1 DEF Executing
      <4>3. 1 \in DOMAIN s
        BY <2>2
      <4>4. t.run = "watch" => s[1].do = "watch"
        BY <1>1, <2>1 DEF Queued
      <4>5. t.run = "fn" => s[1].do # "discard"
        BY <1>1, <2>1, <2>3, <4>3 DEF Queued
      <4>6. t.run = "exec" => s[1].do # "discard"
        BY <1>1, <2>1, <4>3 DEF Queued
      <4>7. QED
        BY <1>1, <4>1, <4>2, <4>4, <4>5, <4>6
    <3>2. CASE t.step # "command"
      BY <1>1, <3>2 DEF Expected
    <3>3. QED
      BY <3>1, <3>2
  <2>8. c.do \in {"auth", "get", "watch", "multi", "set"}
    BY <1>1, <2>7 DEF TxCommand, TxOp
  <2>9. Called(p, t, m, W, s, Unserved(q))
    <3>1. CASE c.do = "set"
      <4>1. t.step = "command" /\ c = s[1]
        BY <1>1, <2>1, <2>2, <3>1 DEF Expected
      <4>2. CASE y = "error" /\ m = b
        BY <2>5, <2>6, <4>2
      <4>3. CASE y = "ok" /\ m = Append(b, c.n)
        <5>1. t.run # "watch"
          BY <1>1, <2>1, <2>2, <3>1, <4>1 DEF Queued
        <5>2. Called(p, t, Append(b, s[1].n), W, s, 2)
          BY <1>1, <2>1, <2>2, <2>5, <3>1, <4>1, <5>1, BatchGrows
        <5>3. QED
          BY <2>6, <4>1, <4>3, <5>2
      <4>4. QED
        BY <2>1, <3>1, <4>2, <4>3
    <3>2. CASE c.do # "set"
      <4>1. m = b
        BY <2>1, <2>8, <3>2
      <4>2. CASE Unserved(q) = 1
        BY <2>5, <4>1, <4>2
      <4>3. CASE Unserved(q) # 1
        <5>1. t.step = "command" /\ Unserved(q) = 2
          BY <2>6, <4>3
        <5>2. s[1].do # "set"
          BY <2>1, <2>2, <3>2, <5>1 DEF Expected
        <5>3. Called(p, t, b, W, s, 2)
          BY <2>2, <2>5, <5>2, HeadNoSet
        <5>4. QED
          BY <4>1, <5>1, <5>3
      <4>4. QED
        BY <4>2, <4>3
    <3>3. QED
      BY <3>1, <3>2
  <2>10. Called(p, q, m, W, s, Unserved(q))
    BY <1>3, <2>9 DEF Called
  <2>11. QED
    BY <1>2, <1>3, <2>1, <2>10 DEF Content
<1>8. QED
  BY <1>2, <1>5, <1>6, <1>7 DEF GoodTx


LEMMA AskedHere ==
  ASSUME NEW t, Elsewhere(t), NEW a \in Tries, t.line[a].asked # <<>>
  PROVE  a = t.attempt /\ t.attempt # 0 /\ Line(t) = t.line[a]
<1>1. a = t.attempt
  BY NoLineType DEF Elsewhere
<1>2. a # 0
  BY RemoteTransactionAssumption DEF Tries
<1>3. QED
  BY <1>1, <1>2 DEF Line

ToldNext(a, k, y) == IF Gone(a) THEN <<>> ELSE Append(k.told, y)
AppliedNext(t, k, y) ==
  IF Head(k.asked).do = "exec" /\ y = "array" THEN Append(t.applied, k.batch)
  ELSE t.applied
RepliedLine(r, n, m) == [r.line EXCEPT !.asked = n, !.told = m]

RepliedAs(a, r, k, n, m, l, g, q) ==
  /\ r.line \in LineState /\ r.reply \in Reply
  /\ k = tx.line[a] /\ k.asked # <<>> /\ n = Tail(k.asked)
  /\ m = ToldNext(a, k, r.reply) /\ l = RepliedLine(r, n, m)
  /\ g = AppliedNext(tx, k, r.reply) /\ q = Replied(a, r, k)

LEMMA RepliedFields ==
  ASSUME tx \in TxRecord, NEW a \in Tries, NEW r, NEW k, NEW n, NEW m, NEW l,
         NEW g, NEW q, RepliedAs(a, r, k, n, m, l, g, q)
  PROVE  /\ l \in LineState /\ l.asked = n /\ l.told = m
         /\ l.batch = r.line.batch
         /\ ServedTo(tx, a, l, g, q)
<1>1. PICK t : t = tx
  OBVIOUS
<1>2. /\ r.line \in LineState /\ r.reply \in Reply /\ t \in TxRecord
      /\ k = t.line[a] /\ k.asked # <<>> /\ n = Tail(k.asked)
      /\ m = ToldNext(a, k, r.reply) /\ l = RepliedLine(r, n, m)
      /\ g = AppliedNext(t, k, r.reply) /\ q = Replied(a, r, k)
  BY <1>1 DEF RepliedAs
<1>3. k \in LineState /\ t.applied \in Seq(Seq(Nat)) /\ t.version \in Nat
  BY <1>2, TxFields
<1>4. /\ k.asked \in Seq(TxCommand) /\ k.told \in Seq(Reply)
      /\ k.batch \in Seq(Nat)
  BY <1>3, LineFields
<1>5. n \in Seq(TxCommand)
  BY <1>2, <1>4, HeadTailProperties
<1>6. m \in Seq(Reply)
  <2>1. Append(k.told, r.reply) \in Seq(Reply) /\ <<>> \in Seq(Reply)
    BY <1>2, <1>4, AppendProperties
  <2>2. QED
    BY <1>2, <2>1 DEF ToldNext
<1>7. l \in LineState /\ l.asked = n /\ l.told = m /\ l.batch = r.line.batch
  BY <1>2, <1>5, <1>6 DEF LineState, RepliedLine
<1>8. g \in Seq(Seq(Nat))
  <2>1. Append(t.applied, k.batch) \in Seq(Seq(Nat))
    BY <1>3, <1>4, AppendProperties
  <2>2. QED
    BY <1>2, <1>3, <2>1 DEF AppliedNext
<1>9. PICK v : v = IF /\ Head(k.asked).do = "exec" /\ r.reply = "array"
                      /\ k.batch # <<>>
                   THEN t.version + 1 ELSE t.version
  OBVIOUS
<1>10. v \in Nat
  BY <1>3, <1>9
<1>11. q = [t EXCEPT !.line[a] = l, !.applied = g, !.version = v]
  BY <1>1, <1>2, <1>9 DEF Replied, RepliedLine, ToldNext, AppliedNext
<1>12. ServedTo(t, a, l, g, q)
  BY <1>2, <1>7, <1>8, <1>10, <1>11, ServedFields
<1>13. QED
  BY <1>1, <1>7, <1>12

LEMMA TxServesStep ==
  ASSUME TxInv, NEW a \in Tries, TxServes(a)
  PROVE  GoodTx(plan, tx')
<1>1. PICK t : t = tx
  OBVIOUS
<1>2. plan \in Plan /\ GoodTx(plan, t) /\ t \in TxRecord /\ Elsewhere(t)
  BY <1>1 DEF TxInv, GoodTx
<1>3. t.line[a].asked # <<>>
  BY <1>1 DEF TxServes
<1>4. a = t.attempt /\ t.attempt # 0 /\ Line(t) = t.line[a]
  BY <1>2, <1>3, AskedHere
<1>5. PICK k, c : k = Line(t) /\ c = Head(k.asked)
  OBVIOUS
<1>6. k \in LineState /\ k.asked \in Seq(TxCommand) /\ k.asked # <<>>
  BY <1>2, <1>3, <1>4, <1>5, TxFields, LineFields
<1>7. c \in TxCommand /\ c = k.asked[1]
  BY <1>5, <1>6, HeadTailProperties
<1>8. PICK refuse \in BOOLEAN :
        tx' = Replied(a, Answer(k, c, t.version, refuse), k)
  BY <1>1, <1>4, <1>5 DEF TxServes
<1>9. PICK r : r = Answer(k, c, t.version, refuse)
  OBVIOUS
<1>10. t.version \in Nat
  BY <1>2, TxFields
<1>11. /\ r.line \in LineState /\ r.reply \in Reply
       /\ IF c.do = "exec" THEN r.line = NoLine /\ r.reply # "ok"
          ELSE r.reply \in {"ok", "error"}
       /\ c.do \in {"auth", "get", "watch", "multi"} => r.line.batch = k.batch
       /\ c.do = "set" =>
            \/ r.reply = "error" /\ r.line.batch = k.batch
            \/ r.reply = "ok" /\ r.line.batch = Append(k.batch, c.n)
  BY <1>6, <1>7, <1>9, <1>10, AnswerFacts
<1>12. PICK n, m, y : /\ n = Tail(k.asked) /\ y = r.reply
                      /\ m = ToldNext(a, k, y)
  OBVIOUS
<1>13. PICK l, g : /\ l = RepliedLine(r, n, m)
                   /\ g = AppliedNext(t, k, y)
  OBVIOUS
<1>14. PICK q : q = Replied(a, r, k)
  OBVIOUS
<1>15. /\ l \in LineState /\ l.asked = n /\ l.told = m
       /\ l.batch = r.line.batch /\ ServedTo(t, a, l, g, q)
  <2>1. RepliedAs(a, r, k, n, m, l, g, q)
    BY <1>1, <1>4, <1>5, <1>6, <1>11, <1>12, <1>13, <1>14 DEF RepliedAs
  <2>2. QED
    BY <1>1, <1>2, <2>1, RepliedFields
<1>16. tx' = q
  BY <1>8, <1>9, <1>14
<1>17. CASE t.dead
  <2>1. Gone(a)
    BY <1>1, <1>2, <1>17 DEF Gone, GoodTx, Placed
  <2>2. Len(k.asked) <= 1
    BY <1>2, <1>5, <1>17 DEF GoodTx, Linked
  <2>3. n = <<>>
    <3>1. Len(n) = Len(k.asked) - 1 /\ Len(k.asked) \in Nat /\ n \in Seq(TxCommand)
          /\ Len(n) \in Nat
      BY <1>6, <1>12, HeadTailProperties
    <3>2. \A i, j \in Nat : i = j - 1 /\ j <= 1 => i = 0
      OBVIOUS
    <3>3. Len(n) = 0
      BY <2>2, <3>1, <3>2
    <3>4. QED
      BY <3>1, <3>3
  <2>4. m = <<>>
    BY <1>12, <2>1 DEF ToldNext
  <2>5. g = t.applied \/ (ExecAsked(t) /\ \E b : g = Append(t.applied, b))
    BY <1>4, <1>5, <1>6, <1>7, <1>13 DEF ExecAsked, AppliedNext
  <2>6. GoodTx(plan, q)
    BY <1>2, <1>4, <1>15, <1>17, <2>3, <2>4, <2>5, DeadServedGood
  <2>7. QED
    BY <1>16, <2>6
<1>18. CASE ~ t.dead
  <2>1. /\ t.sock = "up" /\ t.queue # <<>> /\ k.asked = <<Expected(t)>>
        /\ k.told = <<>> /\ t.step \in {"auth", "multi", "command"}
    BY <1>2, <1>4, <1>5, <1>6, <1>18, AskedLive
  <2>2. c = Expected(t) /\ n = <<>>
    <3>1. \A e : Head(<<e>>) = e /\ Tail(<<e>>) = <<>>
      OBVIOUS
    <3>2. QED
      BY <1>5, <1>12, <2>1, <3>1
  <2>3. m = <<y>>
    <3>1. ~ Gone(a)
      BY <1>1, <1>4, <2>1 DEF Gone
    <3>2. Append(<<>>, y) = <<y>>
      OBVIOUS
    <3>3. QED
      BY <1>12, <2>1, <3>1, <3>2 DEF ToldNext
  <2>4. c.do = "exec" <=> Executing(t)
    BY <2>1, <2>2 DEF Expected, Executing
  <2>5. CASE Executing(t)
    <3>1. r.line = NoLine /\ y # "ok" /\ y \in Reply
      BY <1>11, <1>12, <2>4, <2>5
    <3>2. l = [NoLine EXCEPT !.told = <<y>>]
      <4>1. PICK o : o = NoLine
        OBVIOUS
      <4>2. l = [o EXCEPT !.asked = <<>>, !.told = <<y>>]
        BY <1>13, <2>2, <2>3, <3>1, <4>1 DEF RepliedLine
      <4>3. o \in LineState /\ o.asked = <<>>
        BY <4>1, NoLineType
      <4>4. l = [o EXCEPT !.told = <<y>>]
        BY <4>2, <4>3 DEF LineState
      <4>5. QED
        BY <4>1, <4>4
    <3>3. g = IF y = "array" THEN Append(t.applied, Line(t).batch) ELSE t.applied
      BY <1>5, <1>13, <2>4, <2>5 DEF AppliedNext
    <3>4. Line(t).asked # <<>>
      BY <1>5, <1>6
    <3>5. GoodTx(plan, q)
      BY <1>2, <1>4, <1>15, <1>18, <2>5, <3>1, <3>2, <3>3, <3>4, ExecServed
    <3>6. QED
      BY <1>16, <3>5
  <2>6. CASE ~ Executing(t)
    <3>1. y \in {"ok", "error"} /\ g = t.applied
      BY <1>5, <1>11, <1>12, <1>13, <2>4, <2>6 DEF AppliedNext
    <3>2. Line(t).asked # <<>>
      BY <1>5, <1>6
    <3>3. ServedTo(t, t.attempt, l, t.applied, q)
      BY <1>4, <1>15, <3>1
    <3>4. l.asked = <<>> /\ l.told = <<y>>
      BY <1>15, <2>2, <2>3
    <3>5. /\ c.do \in {"auth", "get", "watch", "multi"} => l.batch = Line(t).batch
          /\ c.do = "set" =>
               \/ y = "error" /\ l.batch = Line(t).batch
               \/ y = "ok" /\ l.batch = Append(Line(t).batch, c.n)
      BY <1>5, <1>11, <1>12, <1>15
    <3>6. GoodTx(plan, q)
      BY <1>2, <1>4, <1>15, <1>18, <2>2, <2>6, <3>1, <3>2, <3>3, <3>4, <3>5,
         CommandServed
    <3>7. QED
      BY <1>16, <3>6
  <2>7. QED
    BY <2>5, <2>6
<1>19. QED
  BY <1>17, <1>18

LEMMA TxDroppedStep ==
  ASSUME TxInv, NEW a \in Tries, TxDropped(a)
  PROVE  GoodTx(plan, tx')
<1>1. PICK t : t = tx
  OBVIOUS
<1>2. /\ GoodTx(plan, t) /\ t \in TxRecord /\ Elsewhere(t) /\ Placed(t)
      /\ Linked(plan, t)
  BY <1>1 DEF TxInv, GoodTx
<1>3. t.line[a].asked # <<>> /\ (a # t.attempt \/ t.sock # "up")
  BY <1>1 DEF TxDropped, Gone
<1>4. a = t.attempt /\ t.attempt # 0 /\ Line(t) = t.line[a]
  BY <1>2, <1>3, AskedHere
<1>5. t.dead
  <2>1. t.sock # "none"
    BY <1>2, <1>3, <1>4, NoLineType DEF Linked
  <2>2. t.sock = "gone"
    BY <1>2, <1>3, <1>4, <2>1, TxFields
  <2>3. QED
    BY <1>2, <2>2 DEF Placed
<1>6. tx' = [t EXCEPT !.line[a] = NoLine]
  BY <1>1 DEF TxDropped
<1>7. PICK q : q = [t EXCEPT !.line[a] = NoLine, !.applied = t.applied,
                             !.version = t.version]
  OBVIOUS
<1>8. t.applied \in Seq(Seq(Nat)) /\ t.version \in Nat
  BY <1>2, TxFields
<1>9. tx' = q
  BY <1>2, <1>6, <1>7 DEF TxRecord
<1>10. ServedTo(t, t.attempt, NoLine, t.applied, q)
  BY <1>2, <1>4, <1>7, <1>8, NoLineType, ServedFields
<1>11. GoodTx(plan, q)
  BY <1>2, <1>4, <1>5, <1>10, NoLineType, DeadServedGood
<1>12. QED
  BY <1>9, <1>11

LEMMA OtherWritesStep ==
  ASSUME TxInv, OtherWrites
  PROVE  GoodTx(plan, tx')
<1>1. PICK t, q : t = tx /\ q = tx'
  OBVIOUS
<1>2. /\ t \in TxRecord /\ Elsewhere(t) /\ Placed(t) /\ Queued(t)
      /\ Linked(plan, t) /\ Applied(plan, t) /\ (Writing(t) => Content(plan, t))
  BY <1>1 DEF TxInv, GoodTx
<1>3. q = [t EXCEPT !.version = t.version + 1] /\ t.version + 1 \in Nat
  BY <1>1, <1>2, TxFields DEF OtherWrites
<1>4. /\ q \in TxRecord /\ q.run = t.run /\ q.pc = t.pc /\ q.told = t.told
      /\ q.attempt = t.attempt /\ q.begun = t.begun /\ q.finishing = t.finishing
      /\ q.done = t.done /\ q.dead = t.dead /\ q.sock = t.sock
      /\ q.queue = t.queue /\ q.step = t.step /\ q.refused = t.refused
      /\ q.open = t.open /\ q.applied = t.applied /\ q.line = t.line
  BY <1>2, <1>3 DEF TxRecord
<1>5. Line(q) = Line(t) /\ Elsewhere(q)
  BY <1>2, <1>4 DEF Line, Elsewhere
<1>6. Placed(q) /\ Queued(q)
  <2>1. Placed(q)
    BY <1>2, <1>4 DEF Placed
  <2>2. Queued(q)
    BY <1>2, <1>4 DEF Queued
  <2>3. QED
    BY <2>1, <2>2
<1>7. Executing(q) = Executing(t) /\ Expected(q) = Expected(t)
      /\ (AppliedOnce(plan, t) => AppliedOnce(plan, q))
      /\ Unserved(q) = Unserved(t) /\ ExecAsked(q) = ExecAsked(t)
  BY <1>4, <1>5 DEF Executing, Expected, AppliedOnce, Unserved, ExecAsked
<1>8. \A r : Fits(plan, t, r) => Fits(plan, q, r)
  BY <1>4, <1>5, <1>7 DEF Fits
<1>9. Linked(plan, q)
  BY <1>2, <1>4, <1>5, <1>7, <1>8 DEF Linked
<1>10. Applied(plan, q)
  BY <1>2, <1>4, <1>5, <1>7 DEF Applied
<1>11. Writing(q) => Content(plan, q)
  <2>1. Writing(q) => Writing(t)
    BY <1>4, <1>5, <1>7 DEF Writing
  <2>2. QED
    BY <1>2, <1>4, <1>5, <1>7, <2>1, ContentKept
<1>12. QED
  BY <1>1, <1>4, <1>5, <1>6, <1>9, <1>10, <1>11 DEF GoodTx


-----------------------------------------------------------------------------
(* The steps of runTransaction() and its YasdTransaction.                  *)

LEMMA BusyRuns ==
  ASSUME TxInv, tx.queue # <<>> \/ tx.step # "idle" \/ tx.sock = "up"
  PROVE  /\ tx.run \in {"watch", "fn", "exec"} /\ tx.attempt # 0 /\ Mortal(tx)
         /\ tx.step # "idle" => tx.queue # <<>> /\ ~ tx.dead
<1>1. PICK t : t = tx
  OBVIOUS
<1>2. GoodTx(plan, t) /\ t \in TxRecord /\ Placed(t) /\ Linked(plan, t)
  BY <1>1 DEF TxInv, GoodTx
<1>3. t.step # "idle" => t.queue # <<>> /\ ~ t.dead
  BY <1>2 DEF Linked
<1>4. t.run # "idle" /\ t.run # "over"
  BY <1>1, <1>2, <1>3 DEF Placed
<1>5. t.run \in {"watch", "fn", "exec"}
  BY <1>2, <1>4, TxFields
<1>6. t.attempt # 0
  BY <1>2, <1>5 DEF Placed
<1>7. Mortal(t)
  BY <1>2, <1>5, GoodMortal
<1>8. QED
  BY <1>1, <1>3, <1>5, <1>6, <1>7

Dialing(t, sock, step) == [t EXCEPT !.sock = sock, !.step = step]

LEMMA CalmMoved ==
  ASSUME NEW p, NEW t, Calm(p, t), NEW sock \in {"none", "up"},
         sock = "none" => t.sock = "none",
         NEW step \in {"idle", "dialing"}, t.step \in {"idle", "dialing"},
         NEW q, q = Dialing(t, sock, step)
  PROVE  Calm(p, q) /\ q.queue = t.queue /\ q.sock = sock /\ q.step = step
<1>1. /\ t \in TxRecord /\ Elsewhere(t) /\ Placed(t) /\ Queued(t)
      /\ t.attempt # 0 /\ t.sock # "gone" /\ (t.sock = "none" => Line(t) = NoLine)
      /\ Line(t).asked = <<>> /\ Line(t).told = <<>> /\ Applied(p, t)
  BY DEF Calm
<1>2. /\ q \in TxRecord /\ q.run = t.run /\ q.pc = t.pc /\ q.told = t.told
      /\ q.attempt = t.attempt /\ q.finishing = t.finishing
      /\ q.done = t.done /\ q.dead = t.dead /\ q.sock = sock
      /\ q.queue = t.queue /\ q.step = step /\ q.refused = t.refused
      /\ q.open = t.open /\ q.applied = t.applied /\ q.line = t.line
  BY <1>1 DEF TxRecord, Dialing
<1>3. Line(q) = Line(t) /\ Elsewhere(q)
  BY <1>1, <1>2 DEF Line, Elsewhere
<1>4. Placed(q)
  BY <1>1, <1>2 DEF Placed
<1>5. Queued(q)
  BY <1>1, <1>2 DEF Queued
<1>6. Applied(p, q)
  BY <1>1, <1>2, <1>3 DEF Applied, ExecAsked, AppliedOnce
<1>7. Writing(q) => Content(p, q)
  <2>1. Writing(q) => Content(p, t)
    BY <1>2 DEF Writing, Executing, Calm
  <2>2. Unserved(q) = Unserved(t)
    BY <1>2 DEF Unserved
  <2>3. QED
    BY <1>2, <1>3, <2>1, <2>2, ContentKept
<1>8. QED
  BY <1>1, <1>2, <1>3, <1>4, <1>5, <1>6, <1>7 DEF Calm

LEMMA StartOpStep ==
  ASSUME TxInv, StartOp
  PROVE  GoodTx(plan, tx')
<1>1. PICK t, op : t = tx /\ op = Head(t.queue)
  OBVIOUS
<1>2. plan \in Plan /\ GoodTx(plan, t) /\ t \in TxRecord /\ Queued(t)
  BY <1>1 DEF TxInv, GoodTx
<1>3. t.queue # <<>> /\ t.step = "idle"
  BY <1>1 DEF StartOp
<1>4. t.attempt # 0 /\ Mortal(t)
  BY <1>1, <1>3, BusyRuns
<1>5. CASE op.do = "discard" /\ ~ t.begun
  <2>1. tx' = Dies(Passed(t), TRUE)
    BY <1>1, <1>5 DEF StartOp
  <2>2. QED
    BY <1>1, <1>2, <1>3, <1>4, <1>5, <2>1, DiscardedGood
<1>6. CASE ~ (op.do = "discard" /\ ~ t.begun) /\ t.dead
  <2>1. tx' = Killed(t, op.do \in {"exec", "discard"})
    BY <1>1, <1>6 DEF StartOp
  <2>2. (op.do \in {"exec", "discard"}) \in BOOLEAN
    OBVIOUS
  <2>3. QED
    BY <1>4, <2>1, <2>2, KilledGood
<1>7. CASE ~ (op.do = "discard" /\ ~ t.begun) /\ ~ t.dead
  <2>1. Calm(plan, t)
    BY <1>2, <1>3, <1>4, <1>7, GoodCalm
  <2>2. CASE TooLate(t, op)
    <3>1. tx' = Failing(t)
      BY <1>1, <1>7, <2>2 DEF StartOp
    <3>2. QED
      BY <1>2, <1>3, <1>4, <2>1, <3>1, FailingGood
  <2>3. CASE ~ TooLate(t, op) /\ t.sock = "none"
    <3>1. tx' = [t EXCEPT !.step = "dialing"]
      BY <1>1, <1>7, <2>3 DEF StartOp
    <3>2. PICK q, k, z : /\ k = "none" /\ z = "dialing"
                         /\ q = Dialing(t, k, z)
      OBVIOUS
    <3>3. tx' = q
      BY <1>2, <2>3, <3>1, <3>2 DEF TxRecord, Dialing
    <3>4. Calm(plan, q) /\ q.queue = t.queue /\ q.sock = "none" /\ q.step = "dialing"
      <4>1. /\ k \in {"none", "up"} /\ z \in {"idle", "dialing"}
            /\ t.sock = "none" /\ t.step \in {"idle", "dialing"}
        BY <1>3, <2>3, <3>2
      <4>2. Calm(plan, q) /\ q.queue = t.queue /\ q.sock = k /\ q.step = z
        BY <2>1, <3>2, <4>1, CalmMoved
      <4>3. QED
        BY <3>2, <4>2
    <3>5. Linked(plan, q)
      BY <1>3, <3>4 DEF Linked, Calm, Placed
    <3>6. QED
      BY <3>3, <3>4, <3>5 DEF Calm, GoodTx
  <2>4. CASE ~ TooLate(t, op) /\ t.sock # "none"
    <3>1. tx' = Proceed(t, op)
      BY <1>1, <1>7, <2>4 DEF StartOp
    <3>2. t.sock = "up"
      BY <1>2, <2>1, <2>4, TxFields DEF Calm
    <3>3. QED
      BY <1>1, <1>3, <2>1, <3>1, <3>2, ProceedGood
  <2>5. QED
    BY <2>2, <2>3, <2>4
<1>8. QED
  BY <1>5, <1>6, <1>7

LEMMA TxDialDoneStep ==
  ASSUME TxInv, TxDialDone
  PROVE  GoodTx(plan, tx')
<1>1. PICK t : t = [tx EXCEPT !.sock = "up"]
  OBVIOUS
<1>2. tx.step = "dialing"
  BY DEF TxDialDone
<1>3. GoodTx(plan, tx) /\ tx \in TxRecord
  BY DEF TxInv, GoodTx
<1>4. tx.attempt # 0 /\ tx.queue # <<>> /\ ~ tx.dead
  BY <1>2, BusyRuns
<1>5. Calm(plan, tx)
  BY <1>2, <1>3, <1>4, GoodCalm
<1>6. PICK q, k, z : /\ k = "up" /\ z = "dialing"
                     /\ q = Dialing(tx, k, z)
  OBVIOUS
<1>7. t = q
  BY <1>1, <1>2, <1>3, <1>6 DEF TxRecord, Dialing
<1>8. Calm(plan, q) /\ q.queue = tx.queue /\ q.sock = "up"
  <2>1. /\ k \in {"none", "up"} /\ z \in {"idle", "dialing"}
        /\ k # "none" /\ tx.step \in {"idle", "dialing"}
    BY <1>2, <1>6
  <2>2. Calm(plan, q) /\ q.queue = tx.queue /\ q.sock = k
    BY <1>5, <1>6, <2>1, CalmMoved
  <2>3. QED
    BY <1>6, <2>2
<1>9. CASE plan.password
  <2>1. tx' = Sent(t, [do |-> "auth"], "auth")
    BY <1>1, <1>9 DEF TxDialDone
  <2>2. [do |-> "auth"] \in TxCommand
    BY DEF TxCommand
  <2>3. QED
    BY <1>4, <1>7, <1>8, <2>1, <2>2, SentGood
<1>10. CASE ~ plan.password
  <2>1. tx' = Proceed(t, Head(tx.queue))
    BY <1>1, <1>10 DEF TxDialDone
  <2>2. QED
    BY <1>4, <1>7, <1>8, <2>1, ProceedGood
<1>11. QED
  BY <1>9, <1>10

(* The transaction is taken down from outside.                             *)
LEMMA TxTakenDown ==
  ASSUME TxInv, TxDialFails \/ TxTimer \/ TxLost \/ TxDeadline
  PROVE  GoodTx(plan, tx')
<1>1. tx.queue # <<>> \/ tx.step # "idle" \/ tx.sock = "up"
  BY DEF TxDialFails, TxTimer, TxLost, TxDeadline
<1>2. Mortal(tx)
  BY <1>1, BusyRuns
<1>3. tx' = Killed(tx, FALSE) \/ tx' = Killed(tx, TRUE)
  BY DEF TxDialFails, TxTimer, TxLost, TxDeadline
<1>4. QED
  BY <1>2, <1>3, KilledGood

LEMMA TxClosedGood ==
  ASSUME TxInv
  PROVE  GoodTx(plan, TxClosed(tx))
<1>1. PICK t : t = tx
  OBVIOUS
<1>2. GoodTx(plan, t) /\ t \in TxRecord /\ Placed(t)
  BY <1>1 DEF TxInv, GoodTx
<1>3. CASE t.attempt \in t.open
  <2>1. t.attempt # 0 /\ ~ t.dead
    BY <1>2, <1>3 DEF Placed
  <2>2. t.run \in {"watch", "fn", "exec"}
    BY <1>2, <2>1, TxFields DEF Placed
  <2>3. Mortal(t)
    BY <1>2, <2>2, GoodMortal
  <2>4. QED
    BY <1>1, <1>3, <2>3, KilledGood DEF TxClosed
<1>4. QED
  BY <1>1, <1>2, <1>3 DEF TxClosed

LEMMA RunTransactionStep ==
  ASSUME TxInv, RunTransaction
  PROVE  GoodTx(plan, tx')
<1>1. PICK t : t = tx
  OBVIOUS
<1>2. /\ plan \in Plan /\ t \in TxRecord /\ Placed(t) /\ Elsewhere(t)
      /\ Linked(plan, t) /\ Applied(plan, t)
  BY <1>1 DEF TxInv, GoodTx
<1>3. t.run = "idle"
  BY <1>1 DEF RunTransaction
<1>4. t.attempt = 0 /\ t.sock = "none" /\ ~ t.dead /\ ~ t.done /\ t.queue = <<>>
      /\ t.told = None /\ t.open = {} /\ t.step = "idle" /\ t.applied = <<>>
  BY <1>2, <1>3 DEF Placed, Linked, Applied
<1>5. \A a \in Tries : t.line[a] = NoLine
  <2>1. \A a \in Tries : a # 0
    BY RemoteTransactionAssumption DEF Tries
  <2>2. QED
    BY <1>2, <1>4, <2>1 DEF Elsewhere
<1>6. 0 \in 0 .. MaxRetries
  BY RemoteTransactionAssumption
<1>7. Fresh(t)
  BY <1>2, <1>4, <1>5, <1>6 DEF Fresh
<1>8. QED
  BY <1>1, <1>2, <1>7, NextAttemptGood DEF RunTransaction


(* The function has gone on, by an operation that waits or is refused.     *)
MovedTo(t, q) ==
  /\ q \in TxRecord /\ q.run \in {"fn", "exec"} /\ q.told = t.told
  /\ q.attempt = t.attempt /\ q.done = t.done /\ q.dead = t.dead
  /\ q.sock = t.sock /\ q.step = t.step /\ q.open = t.open
  /\ q.applied = t.applied /\ q.line = t.line
  /\ q.queue = t.queue \/ (~ t.done /\ \E op : q.queue = Append(t.queue, op))

LEMMA MovedGood ==
  ASSUME NEW p, NEW t, GoodTx(p, t), t.run = "fn", NEW q, MovedTo(t, q),
         Queued(q), Writing(q) => Content(p, q)
  PROVE  GoodTx(p, q)
<1>1. /\ t \in TxRecord /\ Elsewhere(t) /\ Placed(t) /\ Linked(p, t)
      /\ Applied(p, t)
  BY DEF GoodTx
<1>2. t.attempt # 0 /\ t.told = None /\ t.applied = <<>> /\ ~ ExecAsked(t)
  BY <1>1, RemoteTransactionAssumption DEF Placed, Applied
<1>3. q \in TxRecord /\ Elsewhere(q) /\ Line(q) = Line(t)
  BY <1>1 DEF MovedTo, Elsewhere, Line
<1>4. Placed(q)
  BY <1>1, <1>2 DEF MovedTo, Placed
<1>5. Applied(p, q)
  <2>1. ~ ExecAsked(q)
    BY <1>2, <1>3 DEF ExecAsked, MovedTo
  <2>2. q.applied = <<>> /\ q.told = None /\ q.run \in {"watch", "fn", "exec"}
    BY <1>2 DEF MovedTo
  <2>3. QED
    BY <2>1, <2>2, CalmApplied
<1>6. t.queue # <<>> => q.queue # <<>> /\ Head(q.queue) = Head(t.queue)
  <2>1. PICK s, r : s = t.queue /\ r = q.queue
    OBVIOUS
  <2>2. s \in Seq(TxOp) /\ r \in Seq(TxOp)
    BY <1>1, <1>3, <2>1, TxFields
  <2>3. r = s \/ \E op : r = Append(s, op)
    BY <2>1 DEF MovedTo
  <2>4. ASSUME s # <<>>, NEW op, r = Append(s, op)
        PROVE  r # <<>> /\ Head(r) = Head(s)
    BY <2>2, <2>4
  <2>5. QED
    BY <2>1, <2>3, <2>4
<1>7. /\ q.step = t.step /\ q.sock = t.sock /\ q.attempt = t.attempt
      /\ q.dead = t.dead /\ q.applied = t.applied
  BY DEF MovedTo
<1>8. t.step # "idle" => Expected(q) = Expected(t) /\ Executing(q) = Executing(t)
  BY <1>1, <1>6, <1>7 DEF Expected, Executing, Linked
<1>9. ~ Executing(t)
  <2>1. t.queue # <<>> => t.queue[1].do # "exec" /\ Head(t.queue) = t.queue[1]
    <3>1. t.queue # <<>> => 1 \in DOMAIN t.queue /\ Head(t.queue) = t.queue[1]
      BY <1>1, TxFields
    <3>2. QED
      BY <3>1 DEF GoodTx, Queued
  <2>2. QED
    BY <1>1, <2>1 DEF Executing, Linked
<1>10. \A r : t.step # "idle" /\ Fits(p, t, r) => Fits(p, q, r)
  BY <1>8, <1>9 DEF Fits
<1>11. Linked(p, q)
  BY <1>1, <1>3, <1>6, <1>7, <1>8, <1>10 DEF Linked
<1>12. QED
  BY <1>3, <1>4, <1>5, <1>11 DEF GoodTx

AppendedTo(s, op, r) ==
  /\ r \in Seq(TxOp) /\ Len(s) \in Nat /\ Len(s) + 1 \in DOMAIN r
  /\ r[Len(s) + 1] = op
  /\ \A i \in DOMAIN s : i \in DOMAIN r /\ r[i] = s[i] /\ i <= Len(s)
  /\ \A i \in DOMAIN r : i \in DOMAIN s \/ i = Len(s) + 1
  /\ SetsIn(s) \subseteq SetsIn(r)
  /\ op.do = "set" => op.n \in SetsIn(r)

LEMMA SetsInAppend ==
  ASSUME NEW s \in Seq(TxOp), NEW op \in TxOp, NEW r, r = Append(s, op)
  PROVE  AppendedTo(s, op, r)
<1>1. /\ r \in Seq(TxOp) /\ Len(s) \in Nat /\ DOMAIN s = 1 .. Len(s)
      /\ DOMAIN r = 1 .. Len(s) + 1 /\ r[Len(s) + 1] = op
      /\ \A i \in 1 .. Len(s) : r[i] = s[i]
  BY AppendProperties
<1>2. /\ Len(s) + 1 \in DOMAIN r
      /\ \A i \in DOMAIN s : i \in DOMAIN r /\ r[i] = s[i] /\ i <= Len(s)
      /\ \A i \in DOMAIN r : i \in DOMAIN s \/ i = Len(s) + 1
  BY <1>1
<1>3. ASSUME NEW n \in SetsIn(s)
      PROVE  n \in SetsIn(r)
  <2>1. PICK i \in DOMAIN s : s[i].do = "set" /\ s[i].n = n
    BY <1>3, SetsInNumbers
  <2>2. i \in DOMAIN r /\ r[i].do = "set" /\ r[i].n = n
    BY <1>2, <2>1
  <2>3. QED
    BY <1>1, <2>2, SetsInNumbers
<1>4. ASSUME op.do = "set"
      PROVE  op.n \in SetsIn(r)
  <2>1. PICK i : i = Len(s) + 1
    OBVIOUS
  <2>2. i \in DOMAIN r /\ r[i].do = "set" /\ r[i].n = op.n
    BY <1>1, <1>2, <1>4, <2>1
  <2>3. QED
    BY <1>1, <2>2, SetsInNumbers
<1>5. QED
  BY <1>1, <1>2, <1>3, <1>4 DEF AppendedTo


(* The function has called one more operation, and it waits.               *)
MoreTo(p, t, q, s, op) ==
  /\ p.awaits => s = <<>>
  /\ t.run = "fn" /\ q.run = "fn" /\ q.refused = t.refused
  /\ op.do \in {"get", "set"} /\ (op.do = "set" => op = Set(t.pc))
  /\ t.pc \in DOMAIN p.fn /\ p.fn[t.pc] = op.do
  /\ q.pc = IF p.awaits THEN t.pc ELSE t.pc + 1

LEMMA CalledMore ==
  ASSUME NEW p \in Plan, NEW t \in TxRecord, NEW q \in TxRecord,
         NEW b \in Seq(Nat), NEW W, W = Writes(p.fn), NEW s \in Seq(TxOp),
         NEW u \in {1, 2}, u = 2 => s # <<>>, Called(p, t, b, W, s, u),
         NEW op \in TxOp, MoreTo(p, t, q, s, op), NEW r, r = Append(s, op)
  PROVE  Called(p, q, b, W, r, u)
<1>0. /\ p.awaits => s = <<>>
      /\ t.run = "fn" /\ q.run = "fn" /\ q.refused = t.refused
      /\ op.do \in {"get", "set"} /\ (op.do = "set" => op = Set(t.pc))
      /\ t.pc \in DOMAIN p.fn /\ p.fn[t.pc] = op.do
      /\ q.pc = IF p.awaits THEN t.pc ELSE t.pc + 1
  BY DEF MoreTo
<1>1. /\ r \in Seq(TxOp) /\ Len(s) \in Nat /\ Len(s) + 1 \in DOMAIN r
      /\ r[Len(s) + 1] = op
      /\ \A i \in DOMAIN s : i \in DOMAIN r /\ r[i] = s[i] /\ i <= Len(s)
      /\ \A i \in DOMAIN r : i \in DOMAIN s \/ i = Len(s) + 1
      /\ SetsIn(s) \subseteq SetsIn(r)
      /\ op.do = "set" => op.n \in SetsIn(r)
  <2>1. AppendedTo(s, op, r)
    BY SetsInAppend
  <2>2. QED
    BY <2>1 DEF AppendedTo
<1>2. t.pc \in Nat /\ q.pc \in Nat /\ t.refused \subseteq Nat
  BY TxFields
<1>3. op.do = "set" => op.n = t.pc /\ t.pc \in W
  BY <1>0, WritesNumbers DEF Set
<1>4. op.do # "set" => t.pc \notin W
  BY <1>0, WritesNumbers
<1>5. \A n \in W : n \in Nat
  BY WritesNumbers
<1>6. /\ t.refused \subseteq 0 .. t.pc - 1
      /\ \A i \in DOMAIN s : s[i].do = "set" =>
           /\ s[i].n \in W \ t.refused
           /\ s[i].n <= t.pc /\ (s[i].n = t.pc => p.awaits)
           /\ \A j \in DOMAIN s : s[j].do = "set" /\ i < j => s[i].n < s[j].n
           /\ i >= u => \A x \in DOMAIN b : b[x] < s[i].n
           /\ i < u => s[i].n \in Range(b)
      /\ \A x \in DOMAIN b :
           /\ b[x] \in W \ t.refused
           /\ b[x] <= t.pc /\ (b[x] = t.pc => p.awaits /\ s # <<>>)
           /\ \A y \in DOMAIN b : x < y => b[x] < b[y]
      /\ \A n \in W : n < t.pc => n \in Range(b) \cup t.refused \cup SetsIn(s)
  BY DEF Called
<1>7. \A x \in DOMAIN b : b[x] \in Nat /\ b[x] < t.pc
  BY <1>0, <1>2, <1>5, <1>6
<1>8. \A i \in DOMAIN s : s[i].do = "set" => s[i].n \in Nat /\ s[i].n < t.pc
  <2>1. CASE p.awaits
    <3>1. DOMAIN s = {}
      BY <1>0, <2>1
    <3>2. QED
      BY <3>1
  <2>2. CASE ~ p.awaits
    BY <1>2, <1>5, <1>6, <2>2
  <2>3. QED
    BY <2>1, <2>2
<1>9. t.pc \notin t.refused
  BY <1>2, <1>6
<1>10. t.pc <= q.pc /\ (q.pc = t.pc => p.awaits) /\ (t.pc < q.pc \/ q.pc = t.pc)
  BY <1>0, <1>2
<1>11. q.refused \subseteq 0 .. q.pc - 1
  BY <1>0, <1>2, <1>6
<1>12. Len(s) + 1 >= u /\ \A i \in DOMAIN s : i \in Nat /\ i < Len(s) + 1
  <2>1. s # <<>> => Len(s) # 0
    OBVIOUS
  <2>2. QED
    BY <1>1, <2>1
<1>13. ASSUME NEW i \in DOMAIN r, r[i].do = "set"
       PROVE  /\ r[i].n \in W \ q.refused
              /\ r[i].n <= q.pc /\ (r[i].n = q.pc => p.awaits)
              /\ \A j \in DOMAIN r : r[j].do = "set" /\ i < j => r[i].n < r[j].n
              /\ i >= u => \A x \in DOMAIN b : b[x] < r[i].n
              /\ i < u => r[i].n \in Range(b)
  <2>1. CASE i \in DOMAIN s
    <3>1. r[i] = s[i] /\ s[i].n \in Nat /\ s[i].n < t.pc
      BY <1>1, <1>8, <1>13, <2>1
    <3>2. s[i].n < q.pc
      BY <1>0, <1>2, <1>10, <3>1
    <3>3. ASSUME NEW j \in DOMAIN r, r[j].do = "set", i < j
          PROVE  r[i].n < r[j].n
      <4>1. CASE j \in DOMAIN s
        BY <1>1, <1>6, <1>13, <2>1, <3>1, <3>3, <4>1
      <4>2. CASE j = Len(s) + 1
        BY <1>1, <1>3, <3>1, <3>3, <4>2
      <4>3. QED
        BY <1>1, <4>1, <4>2
    <3>4. QED
      BY <1>0, <1>2, <1>6, <1>13, <2>1, <3>1, <3>2, <3>3
  <2>2. CASE i = Len(s) + 1
    <3>1. r[i] = op /\ op.n = t.pc /\ t.pc \in W
      BY <1>1, <1>3, <1>13, <2>2
    <3>2. \A j \in DOMAIN r : ~ (i < j)
      BY <1>1, <1>12, <2>2
    <3>3. ~ (i < u)
      BY <1>1, <1>12, <2>2
    <3>4. QED
      BY <1>0, <1>7, <1>9, <1>10, <3>1, <3>2, <3>3
  <2>3. QED
    BY <1>1, <2>1, <2>2
<1>14. ASSUME NEW x \in DOMAIN b
       PROVE  /\ b[x] \in W \ q.refused
              /\ b[x] <= q.pc /\ (b[x] = q.pc => p.awaits /\ r # <<>>)
              /\ \A y \in DOMAIN b : x < y => b[x] < b[y]
  <2>1. b[x] < q.pc
    BY <1>0, <1>2, <1>7, <1>10
  <2>2. QED
    BY <1>0, <1>2, <1>6, <1>7, <2>1
<1>15. ASSUME NEW n \in W, n < q.pc
       PROVE  n \in Range(b) \cup q.refused \cup SetsIn(r)
  <2>1. n < t.pc \/ n = t.pc
    BY <1>0, <1>2, <1>5, <1>15
  <2>2. QED
    BY <1>0, <1>1, <1>3, <1>4, <1>6, <2>1
<1>16. p.awaits /\ r # <<>> =>
         /\ Len(r) = 1 /\ q.pc \in DOMAIN p.fn
         /\ IF p.fn[q.pc] = "set" THEN r[1] = Set(q.pc) ELSE r[1].do # "set"
  <2>1. ASSUME p.awaits
        PROVE  Len(r) = 1 /\ r[1] = op /\ q.pc = t.pc
    <3>1. s = <<>> /\ Append(<<>>, op) = <<op>>
      BY <1>0, <2>1
    <3>2. r = <<op>>
      BY <3>1
    <3>3. Len(<<op>>) = 1 /\ <<op>>[1] = op
      OBVIOUS
    <3>4. QED
      BY <1>0, <2>1, <3>2, <3>3
  <2>2. QED
    BY <1>0, <2>1
<1>17. QED
  BY <1>0, <1>11, <1>13, <1>14, <1>15, <1>16 DEF Called

(* An operation has been refused, or is none that writes.                  *)
LEMMA CalledPast ==
  ASSUME NEW p \in Plan, NEW t \in TxRecord, NEW q \in TxRecord,
         NEW b \in Seq(Nat), NEW W, W = Writes(p.fn), NEW s \in Seq(TxOp),
         NEW u, Called(p, t, b, W, s, u), ~ p.awaits,
         t.run = "fn", q.run = "fn", q.pc = t.pc + 1, t.pc \in DOMAIN p.fn,
         q.refused = t.refused \cup (IF p.fn[t.pc] = "set" THEN {t.pc} ELSE {})
  PROVE  Called(p, q, b, W, s, u)
<1>1. t.pc \in Nat /\ q.pc \in Nat
  BY TxFields
<1>2. \A n \in W : n \in Nat
  BY WritesNumbers
<1>3. /\ t.refused \subseteq 0 .. t.pc - 1
      /\ \A i \in DOMAIN s : s[i].do = "set" =>
           /\ s[i].n \in W \ t.refused
           /\ s[i].n <= t.pc /\ (s[i].n = t.pc => p.awaits)
           /\ \A j \in DOMAIN s : s[j].do = "set" /\ i < j => s[i].n < s[j].n
           /\ i >= u => \A x \in DOMAIN b : b[x] < s[i].n
           /\ i < u => s[i].n \in Range(b)
      /\ \A x \in DOMAIN b :
           /\ b[x] \in W \ t.refused
           /\ b[x] <= t.pc /\ (b[x] = t.pc => p.awaits /\ s # <<>>)
           /\ \A y \in DOMAIN b : x < y => b[x] < b[y]
      /\ \A n \in W : n < t.pc => n \in Range(b) \cup t.refused \cup SetsIn(s)
  BY DEF Called
<1>4. \A n \in Nat : n <= t.pc /\ n # t.pc => n < t.pc /\ n < q.pc /\ n <= q.pc
                                             /\ n # q.pc
  BY <1>1
<1>5. q.refused \subseteq 0 .. q.pc - 1
  BY <1>1, <1>3
<1>6. ASSUME NEW i \in DOMAIN s, s[i].do = "set"
      PROVE  /\ s[i].n \in W \ q.refused
             /\ s[i].n <= q.pc /\ (s[i].n = q.pc => p.awaits)
  BY <1>2, <1>3, <1>4, <1>6
<1>7. ASSUME NEW x \in DOMAIN b
      PROVE  /\ b[x] \in W \ q.refused
             /\ b[x] <= q.pc /\ (b[x] = q.pc => p.awaits /\ s # <<>>)
  BY <1>2, <1>3, <1>4
<1>8. ASSUME NEW n \in W, n < q.pc
      PROVE  n \in Range(b) \cup q.refused \cup SetsIn(s)
  <2>1. n < t.pc \/ n = t.pc
    BY <1>1, <1>2, <1>8
  <2>2. n = t.pc => n \in q.refused
    BY WritesNumbers
  <2>3. QED
    BY <1>3, <2>1, <2>2
<1>9. QED
  BY <1>3, <1>5, <1>6, <1>7, <1>8 DEF Called

(* The function has returned.                                              *)
LEMMA CalledAll ==
  ASSUME NEW p \in Plan, NEW t \in TxRecord, NEW q \in TxRecord,
         NEW b \in Seq(Nat), NEW W, W = Writes(p.fn), NEW s \in Seq(TxOp),
         NEW u \in Nat, Called(p, t, b, W, s, u),
         t.run = "fn", q.run = "exec", q.refused = t.refused, q.pc = t.pc,
         t.pc > Len(p.fn), NEW op \in TxOp, op.do = "exec",
         NEW r, r = Append(s, op)
  PROVE  Called(p, q, b, W, r, u)
<1>1. /\ r \in Seq(TxOp) /\ Len(s) \in Nat /\ Len(s) + 1 \in DOMAIN r
      /\ r[Len(s) + 1] = op
      /\ \A i \in DOMAIN s : i \in DOMAIN r /\ r[i] = s[i] /\ i <= Len(s)
      /\ \A i \in DOMAIN r : i \in DOMAIN s \/ i = Len(s) + 1
      /\ SetsIn(s) \subseteq SetsIn(r)
  <2>1. AppendedTo(s, op, r)
    BY SetsInAppend
  <2>2. QED
    BY <2>1 DEF AppendedTo
<1>2. \A i \in DOMAIN r : r[i].do = "set" => i \in DOMAIN s /\ r[i] = s[i]
  BY <1>1
<1>3. r # <<>>
  BY <1>1
<1>4. QED
  BY <1>1, <1>2, <1>3 DEF Called


ClosedTo(t) == [Dies(t, TRUE) EXCEPT !.pc = @ + 1]

LEMMA ClosedByFn ==
  ASSUME NEW p, NEW t, Mortal(t), t.run = "fn"
  PROVE  GoodTx(p, ClosedTo(t))
<1>1. PICK d, q : d = Dies(t, TRUE) /\ q = [d EXCEPT !.pc = d.pc + 1]
  OBVIOUS
<1>2. Parted(p, d) /\ d \in TxRecord
  BY <1>1, DiesParted DEF Parted
<1>3. d.pc + 1 \in Nat \ {0}
  BY <1>2, TxFields
<1>4. /\ q \in TxRecord /\ q.run = d.run /\ q.told = d.told
      /\ q.attempt = d.attempt /\ q.dead = d.dead /\ q.sock = d.sock
      /\ q.queue = d.queue /\ q.step = d.step /\ q.refused = d.refused
      /\ q.open = d.open /\ q.applied = d.applied /\ q.line = d.line
  BY <1>1, <1>2, <1>3 DEF TxRecord
<1>5. Line(q) = Line(d) /\ Elsewhere(q) /\ ExecAsked(q) = ExecAsked(d)
      /\ (AppliedOnce(p, d) => AppliedOnce(p, q))
  BY <1>2, <1>4 DEF Line, Elsewhere, ExecAsked, AppliedOnce, Parted
<1>6. Parted(p, q)
  BY <1>2, <1>4, <1>5 DEF Parted
<1>7. QED
  BY <1>1, <1>6, PartedGood DEF ClosedTo

(* An operation is refused, waits, or waits as the last.                   *)
RefusedOp(t, R) == [t EXCEPT !.pc = t.pc + 1, !.refused = R]
WaitingOp(t, op, n) == [t EXCEPT !.queue = Append(t.queue, op), !.pc = n]
LastOp(t, op, n) ==
  [t EXCEPT !.queue = Append(t.queue, op), !.finishing = TRUE, !.pc = n]

(* The operation `what` is called, and it waits or is refused.             *)
CalledBy(t, q, what) ==
  \/ /\ ~ plan.awaits /\ Barred(t, what)
     /\ q = [t EXCEPT !.pc = t.pc + 1,
                      !.refused = IF what = "set" THEN t.refused \cup {t.pc}
                                  ELSE t.refused]
  \/ /\ what = "discard" /\ ~ Barred(t, what)
     /\ q = [t EXCEPT !.queue = Append(t.queue, [do |-> "discard"]),
                      !.finishing = TRUE,
                      !.pc = IF plan.awaits THEN t.pc ELSE t.pc + 1]
  \/ /\ what # "discard" /\ ~ Barred(t, what) /\ ~ plan.awaits
     /\ q = [t EXCEPT !.pc = t.pc + 1,
                      !.refused = IF what = "set" THEN t.refused \cup {t.pc}
                                  ELSE t.refused]
  \/ /\ what # "discard" /\ ~ Barred(t, what)
     /\ q = [t EXCEPT !.queue = Append(t.queue, IF what = "get" THEN Get ELSE Set(t.pc)),
                      !.pc = IF plan.awaits THEN t.pc ELSE t.pc + 1]

LEMMA OperateIsCall ==
  ASSUME NEW t \in TxRecord, NEW what \in {"get", "set", "discard"},
         plan.awaits => t.queue = <<>>, ~ (plan.awaits /\ Barred(t, what)),
         NEW q, q = Operate(t, what)
  PROVE  CalledBy(t, q, what)
<1>1. CASE Barred(t, what)
  <2>1. q = [t EXCEPT !.pc = @ + 1,
                      !.refused = IF what = "set" THEN @ \cup {t.pc} ELSE @]
    BY <1>1 DEF Operate
  <2>2. QED
    BY <1>1, <2>1 DEF CalledBy
<1>2. CASE ~ Barred(t, what) /\ what = "discard"
  <2>1. q = [Serialized(t, [do |-> "discard"], TRUE) EXCEPT
                 !.finishing = TRUE, !.pc = IF plan.awaits THEN @ ELSE @ + 1]
    BY <1>2 DEF Operate
  <2>2. Serialized(t, [do |-> "discard"], TRUE)
          = [t EXCEPT !.queue = Append(t.queue, [do |-> "discard"])]
    BY DEF Serialized
  <2>3. q = [t EXCEPT !.queue = Append(t.queue, [do |-> "discard"]),
                      !.finishing = TRUE,
                      !.pc = IF plan.awaits THEN t.pc ELSE t.pc + 1]
    BY <2>1, <2>2 DEF TxRecord
  <2>4. QED
    BY <1>2, <2>3 DEF CalledBy
<1>3. CASE ~ Barred(t, what) /\ what # "discard"
  <2>1. PICK op, z : op = (IF what = "get" THEN Get ELSE Set(t.pc))
                     /\ z = Serialized(t, op, FALSE)
    OBVIOUS
  <2>2. q = [z EXCEPT !.pc = IF plan.awaits THEN @ ELSE @ + 1]
    BY <1>3, <2>1 DEF Operate
  <2>3. CASE Len(t.queue) >= MaxOps
    <3>1. ~ plan.awaits
      <4>1. MaxOps \in Nat \ {0} /\ Len(<<>>) = 0
        BY RemoteTransactionAssumption
      <4>2. QED
        BY <2>3, <4>1
    <3>2. SetsIn(<<op>>) = IF what = "set" THEN {t.pc} ELSE {}
      <4>1. op \in TxOp
        BY <2>1, TxFields DEF TxOp, Get, Set
      <4>2. \A n : n \in SetsIn(<<op>>) <=> op.do = "set" /\ op.n = n
        BY <4>1, SetsInOne
      <4>3. CASE what = "set"
        BY <2>1, <4>2, <4>3 DEF Set
      <4>4. CASE what # "set"
        <5>1. op.do = "get"
          BY <1>3, <2>1, <4>4 DEF Get
        <5>2. QED
          BY <4>2, <4>4, <5>1
      <4>5. QED
        BY <4>3, <4>4
    <3>3. PICK R : R = t.refused \cup SetsIn(<<op>>)
      OBVIOUS
    <3>4. z = [t EXCEPT !.refused = R]
      BY <2>1, <2>3, <3>3 DEF Serialized
    <3>5. R = IF what = "set" THEN t.refused \cup {t.pc} ELSE t.refused
      BY <3>2, <3>3
    <3>6. q = [t EXCEPT !.pc = t.pc + 1, !.refused = R]
      BY <2>2, <3>1, <3>4 DEF TxRecord
    <3>7. QED
      BY <1>3, <3>1, <3>5, <3>6 DEF CalledBy
  <2>4. CASE ~ (Len(t.queue) >= MaxOps)
    <3>1. z = [t EXCEPT !.queue = Append(t.queue, op)]
      BY <2>1, <2>4 DEF Serialized
    <3>2. q = [t EXCEPT !.queue = Append(t.queue, op),
                        !.pc = IF plan.awaits THEN t.pc ELSE t.pc + 1]
      BY <2>2, <3>1 DEF TxRecord
    <3>3. QED
      BY <1>3, <2>1, <3>2 DEF CalledBy
  <2>5. QED
    BY <2>3, <2>4
<1>4. QED
  BY <1>1, <1>2, <1>3


LEMMA FnNotExecuting ==
  ASSUME NEW p, NEW t, GoodTx(p, t), t.run = "fn"
  PROVE  ~ Executing(t)
<1>1. t.queue # <<>> => 1 \in DOMAIN t.queue /\ Head(t.queue) = t.queue[1]
  BY TxFields DEF GoodTx
<1>2. t.queue # <<>> => Head(t.queue).do # "exec"
  BY <1>1 DEF GoodTx, Queued
<1>3. t.step = "command" => t.queue # <<>>
  BY DEF GoodTx, Linked
<1>4. QED
  BY <1>2, <1>3 DEF Executing

LEMMA FnContent ==
  ASSUME NEW p, NEW t, GoodTx(p, t), t.run = "fn", ~ t.finishing, ~ t.dead,
         NEW q, q.step = t.step, q.line = t.line, q.attempt = t.attempt
  PROVE  /\ Content(p, t) /\ Line(q) = Line(t) /\ Unserved(q) = Unserved(t)
         /\ Unserved(t) \in {1, 2} /\ (Unserved(t) = 2 => t.queue # <<>>)
<1>1. Writing(t)
  BY FnNotExecuting DEF Writing
<1>2. Content(p, t)
  BY <1>1 DEF GoodTx
<1>3. Line(q) = Line(t) /\ Unserved(q) = Unserved(t)
  BY DEF Line, Unserved
<1>4. Unserved(t) \in {1, 2} /\ (Unserved(t) = 2 => t.queue # <<>>)
  BY DEF Unserved, GoodTx, Linked
<1>5. QED
  BY <1>2, <1>3, <1>4

LEMMA RefusedGood ==
  ASSUME plan \in Plan, NEW t, GoodTx(plan, t), t.run = "fn",
         t.pc \in DOMAIN plan.fn, ~ plan.awaits, NEW R,
         R = (IF plan.fn[t.pc] = "set" THEN t.refused \cup {t.pc} ELSE t.refused),
         NEW q, q = RefusedOp(t, R)
  PROVE  GoodTx(plan, q)
<1>1. t \in TxRecord /\ Queued(t) /\ t.refused \subseteq Nat /\ t.pc \in Nat
  BY TxFields DEF GoodTx
<1>2. R \subseteq Nat /\ t.pc + 1 \in Nat \ {0}
  BY <1>1
<1>3. /\ q \in TxRecord /\ q.run = t.run /\ q.pc = t.pc + 1 /\ q.told = t.told
      /\ q.attempt = t.attempt /\ q.finishing = t.finishing
      /\ q.done = t.done /\ q.dead = t.dead /\ q.sock = t.sock
      /\ q.queue = t.queue /\ q.step = t.step /\ q.refused = R
      /\ q.open = t.open /\ q.applied = t.applied /\ q.line = t.line
  BY <1>1, <1>2, ZenonT(60) DEF TxRecord, RefusedOp
<1>4. MovedTo(t, q)
  BY <1>3 DEF MovedTo
<1>5. Queued(q)
  BY <1>1, <1>3, ZenonT(60) DEF Queued
<1>6. ASSUME Writing(q)
      PROVE  Content(plan, q)
  <2>1. ~ t.finishing /\ ~ t.dead
    BY <1>3, <1>6 DEF Writing
  <2>2. PICK b, W, s, u : /\ b = Line(t).batch /\ W = Writes(plan.fn)
                          /\ s = t.queue /\ u = Unserved(t)
    OBVIOUS
  <2>3. /\ Called(plan, t, b, W, s, u) /\ Line(q) = Line(t) /\ Unserved(q) = u
    BY <1>3, <2>1, <2>2, FnContent DEF Content
  <2>4. t.attempt # 0
    BY DEF GoodTx, Placed
  <2>5. s \in Seq(TxOp) /\ b \in Seq(Nat)
    BY <1>1, <2>2, <2>4, TxFields, LineFields
  <2>6. q.refused = t.refused \cup (IF plan.fn[t.pc] = "set" THEN {t.pc} ELSE {})
    BY <1>3
  <2>7. Called(plan, q, b, W, s, u)
    BY <1>1, <1>3, <2>2, <2>3, <2>5, <2>6, CalledPast
  <2>8. QED
    BY <1>3, <2>2, <2>3, <2>7 DEF Content
<1>7. QED
  BY <1>4, <1>5, <1>6, MovedGood

(* What an operation that waits changes.                                   *)
WaitsTo(t, q, op, f, n, r) ==
  /\ q \in TxRecord /\ q.run = r /\ q.pc = n /\ q.told = t.told
  /\ q.attempt = t.attempt /\ q.finishing = f
  /\ q.done = t.done /\ q.dead = t.dead /\ q.sock = t.sock
  /\ q.queue = Append(t.queue, op) /\ q.step = t.step /\ q.refused = t.refused
  /\ q.open = t.open /\ q.applied = t.applied /\ q.line = t.line

LEMMA WaitsFields ==
  ASSUME NEW t \in TxRecord, NEW op \in TxOp, NEW f \in BOOLEAN,
         NEW n \in Nat \ {0}, NEW r \in {"fn", "exec"}
  PROVE  WaitsTo(t, [t EXCEPT !.queue = Append(t.queue, op), !.finishing = f,
                              !.pc = n, !.run = r], op, f, n, r)
<1>1. PICK w : w = Append(t.queue, op)
  OBVIOUS
<1>2. w \in Seq(TxOp)
  BY <1>1, TxFields, AppendProperties
<1>3. PICK q : q = [t EXCEPT !.queue = w, !.finishing = f, !.pc = n, !.run = r]
  OBVIOUS
<1>4. /\ q \in TxRecord /\ q.run = r /\ q.pc = n /\ q.told = t.told
      /\ q.attempt = t.attempt /\ q.finishing = f
      /\ q.done = t.done /\ q.dead = t.dead /\ q.sock = t.sock
      /\ q.queue = w /\ q.step = t.step /\ q.refused = t.refused
      /\ q.open = t.open /\ q.applied = t.applied /\ q.line = t.line
  BY <1>2, <1>3 DEF TxRecord
<1>5. QED
  BY <1>1, <1>3, <1>4 DEF WaitsTo

LEMMA WaitsMoved ==
  ASSUME NEW t, ~ t.done, NEW op, NEW f, NEW n, NEW r \in {"fn", "exec"}, NEW q,
         WaitsTo(t, q, op, f, n, r)
  PROVE  MovedTo(t, q)
BY DEF WaitsTo, MovedTo

LEMMA WaitsQueued ==
  ASSUME NEW t \in TxRecord, Queued(t), t.run = "fn", NEW op \in TxOp,
         NEW f \in BOOLEAN, t.finishing => f, NEW n,
         op.do \in {"get", "set"} \/ (op.do = "discard" /\ f),
         NEW q, WaitsTo(t, q, op, f, n, "fn")
  PROVE  Queued(q)
<1>1. PICK s, w : s = t.queue /\ w = q.queue
  OBVIOUS
<1>2. s \in Seq(TxOp) /\ w = Append(s, op) /\ q.run = "fn" /\ q.finishing = f
  BY <1>1, TxFields DEF WaitsTo
<1>3. AppendedTo(s, op, w)
  BY <1>2, SetsInAppend
<1>4. \A i \in DOMAIN w : w[i] = op \/ (i \in DOMAIN s /\ w[i] = s[i])
  BY <1>3 DEF AppendedTo
<1>5. \A i \in DOMAIN s : s[i].do \in {"get", "set"}
                          \/ (s[i].do = "discard" /\ f)
  BY <1>1 DEF Queued
<1>6. \A i \in DOMAIN w : w[i].do \in {"get", "set"}
                          \/ (w[i].do = "discard" /\ f)
  BY <1>4, <1>5
<1>7. QED
  BY <1>1, <1>2, <1>6 DEF Queued


LEMMA DiscardCalledGood ==
  ASSUME plan \in Plan, NEW t, GoodTx(plan, t), t.run = "fn", ~ t.done,
         NEW n \in Nat \ {0}, NEW op, op = [do |-> "discard"], NEW q,
         q = LastOp(t, op, n)
  PROVE  GoodTx(plan, q)
<1>1. t \in TxRecord /\ Queued(t) /\ op \in TxOp /\ op.do = "discard"
  BY DEF GoodTx, TxOp
<1>2. PICK f, r, w : /\ f = TRUE /\ r = "fn"
                     /\ w = [t EXCEPT !.queue = Append(t.queue, op),
                                      !.finishing = f, !.pc = n, !.run = r]
  OBVIOUS
<1>3. WaitsTo(t, w, op, f, n, r)
  BY <1>1, <1>2, WaitsFields
<1>4. q = w
  BY <1>1, <1>2 DEF TxRecord, LastOp
<1>5. WaitsTo(t, q, op, TRUE, n, "fn")
  BY <1>2, <1>3, <1>4
<1>6. MovedTo(t, q)
  BY <1>5, WaitsMoved
<1>7. Queued(q)
  BY <1>1, <1>5, WaitsQueued
<1>8. ~ Writing(q)
  BY <1>5 DEF Writing, WaitsTo
<1>9. QED
  BY <1>6, <1>7, <1>8, MovedGood

LEMMA DataCalledGood ==
  ASSUME plan \in Plan, NEW t, GoodTx(plan, t), t.run = "fn", ~ t.done,
         t.pc \in DOMAIN plan.fn, plan.awaits => t.queue = <<>>,
         NEW op \in TxOp, op.do \in {"get", "set"}, plan.fn[t.pc] = op.do,
         op.do = "set" => op = Set(t.pc),
         NEW n, n = (IF plan.awaits THEN t.pc ELSE t.pc + 1), NEW q,
         q = WaitingOp(t, op, n)
  PROVE  GoodTx(plan, q)
<1>1. t \in TxRecord /\ Queued(t) /\ t.pc \in Nat \ {0} /\ t.finishing \in BOOLEAN
  BY TxFields DEF GoodTx
<1>2. n \in Nat \ {0}
  BY <1>1
<1>3. PICK f, r, w : /\ f = t.finishing /\ r = "fn"
                     /\ w = [t EXCEPT !.queue = Append(t.queue, op),
                                      !.finishing = f, !.pc = n, !.run = r]
  OBVIOUS
<1>4. WaitsTo(t, w, op, f, n, r)
  BY <1>1, <1>2, <1>3, WaitsFields
<1>5. q = w
  BY <1>1, <1>3 DEF TxRecord, WaitingOp
<1>6. WaitsTo(t, q, op, f, n, "fn")
  BY <1>3, <1>4, <1>5
<1>7. MovedTo(t, q)
  BY <1>6, WaitsMoved
<1>8. Queued(q)
  BY <1>1, <1>3, <1>6, WaitsQueued
<1>9. ASSUME Writing(q)
      PROVE  Content(plan, q)
  <2>1. /\ q \in TxRecord /\ q.run = "fn" /\ q.pc = n /\ q.finishing = t.finishing
        /\ q.refused = t.refused /\ q.dead = t.dead /\ q.step = t.step
        /\ q.line = t.line /\ q.attempt = t.attempt
        /\ q.queue = Append(t.queue, op)
    BY <1>3, <1>6 DEF WaitsTo
  <2>2. ~ t.finishing /\ ~ t.dead
    BY <1>9, <2>1 DEF Writing
  <2>3. PICK b, W, s, u : /\ b = Line(t).batch /\ W = Writes(plan.fn)
                          /\ s = t.queue /\ u = Unserved(t)
    OBVIOUS
  <2>4. /\ Called(plan, t, b, W, s, u) /\ Line(q) = Line(t) /\ Unserved(q) = u
        /\ u \in {1, 2} /\ (u = 2 => s # <<>>)
    BY <2>1, <2>2, <2>3, FnContent DEF Content
  <2>5. t.attempt # 0
    BY DEF GoodTx, Placed
  <2>6. s \in Seq(TxOp) /\ b \in Seq(Nat)
    BY <1>1, <2>3, <2>5, TxFields, LineFields
  <2>7. PICK v : v = q.queue
    OBVIOUS
  <2>8. v = Append(s, op)
    BY <2>1, <2>3, <2>7
  <2>9. MoreTo(plan, t, q, s, op)
    BY <2>1, <2>3 DEF MoreTo
  <2>10. Called(plan, q, b, W, v, u)
    <3>1. /\ Called(plan, t, b, W, s, u) /\ u \in {1, 2} /\ (u = 2 => s # <<>>)
          /\ W = Writes(plan.fn) /\ q \in TxRecord
      BY <2>1, <2>3, <2>4
    <3>2. QED
      BY <1>1, <2>6, <2>8, <2>9, <3>1, CalledMore, ZenonT(60)
  <2>11. QED
    BY <2>3, <2>4, <2>7, <2>10 DEF Content
<1>10. QED
  BY <1>7, <1>8, <1>9, MovedGood

LEMMA FnStepStep ==
  ASSUME TxInv, FnStep
  PROVE  GoodTx(plan, tx')
<1>1. PICK t, q : t = tx /\ q = tx'
  OBVIOUS
<1>2. /\ plan \in Plan /\ GoodTx(plan, t) /\ t \in TxRecord /\ t.run = "fn"
      /\ t.pc <= Len(plan.fn) /\ (plan.awaits => t.queue = <<>>)
      /\ q = Operate(t, plan.fn[t.pc])
  BY <1>1 DEF TxInv, GoodTx, FnStep
<1>3. t.pc \in Nat \ {0} /\ t.done \in BOOLEAN
  BY <1>2, TxFields
<1>4. t.pc \in DOMAIN plan.fn
  <2>1. Len(plan.fn) \in Nat /\ DOMAIN plan.fn = 1 .. Len(plan.fn)
    BY <1>2, WritesNumbers
  <2>2. QED
    BY <1>2, <1>3, <2>1
<1>5. PICK what : what = plan.fn[t.pc]
  OBVIOUS
<1>6. what \in {"get", "set", "discard", "close", "throw"}
  BY <1>2, <1>4, <1>5, FunctionAssumption
<1>7. Mortal(t)
  BY <1>2, GoodMortal
<1>8. CASE what = "throw"
  <2>1. q = RunThrows(t)
    BY <1>2, <1>5, <1>8 DEF Operate
  <2>2. QED
    BY <1>1, <1>7, <2>1, RunThrowsParted, PartedGood
<1>9. CASE what = "close"
  <2>1. q = ClosedTo(t)
    BY <1>2, <1>5, <1>9 DEF Operate, ClosedTo
  <2>2. QED
    BY <1>1, <1>2, <1>7, <2>1, ClosedByFn
<1>10. CASE what \in {"get", "set", "discard"} /\ plan.awaits /\ Barred(t, what)
  <2>1. q = RunThrows(t)
    BY <1>2, <1>5, <1>10 DEF Operate
  <2>2. QED
    BY <1>1, <1>7, <2>1, RunThrowsParted, PartedGood
<1>11. CASE what \in {"get", "set", "discard"} /\ ~ (plan.awaits /\ Barred(t, what))
  <2>1. CalledBy(t, q, what)
    BY <1>2, <1>5, <1>11, OperateIsCall
  <2>2. ~ Barred(t, what) => ~ t.done
    BY DEF Barred
  <2>3. PICK R, n, op, o : /\ o = [do |-> "discard"] /\ R = (IF what = "set" THEN t.refused \cup {t.pc} ELSE t.refused)
                           /\ n = (IF plan.awaits THEN t.pc ELSE t.pc + 1)
                           /\ op = (IF what = "get" THEN Get ELSE Set(t.pc))
    OBVIOUS
  <2>4. n \in Nat \ {0}
    BY <1>3, <2>3
  <2>5. \/ /\ ~ plan.awaits /\ q = RefusedOp(t, R)
        \/ /\ ~ t.done /\ what = "discard" /\ q = LastOp(t, o, n)
        \/ /\ ~ t.done /\ what # "discard"
           /\ q = WaitingOp(t, op, n)
    BY <2>1, <2>2, <2>3 DEF CalledBy, RefusedOp, LastOp, WaitingOp
  <2>6. CASE /\ ~ plan.awaits /\ q = RefusedOp(t, R)
    BY <1>1, <1>2, <1>4, <1>5, <2>3, <2>6, RefusedGood
  <2>7. CASE /\ ~ t.done /\ what = "discard"
             /\ q = LastOp(t, o, n)
    BY <1>1, <1>2, <2>3, <2>4, <2>7, DiscardCalledGood
  <2>8. CASE /\ ~ t.done /\ what # "discard"
             /\ q = WaitingOp(t, op, n)
    <3>1. op \in TxOp /\ op.do = what /\ op.do \in {"get", "set"}
          /\ (op.do = "set" => op = Set(t.pc))
      BY <1>3, <1>11, <2>3, <2>8 DEF TxOp, Get, Set
    <3>2. QED
      BY <1>1, <1>2, <1>4, <1>5, <2>3, <2>8, <3>1, DataCalledGood
  <2>9. QED
    BY <2>5, <2>6, <2>7, <2>8
<1>12. QED
  BY <1>6, <1>8, <1>9, <1>10, <1>11

LEMMA FnReturnsStep ==
  ASSUME TxInv, FnReturns
  PROVE  GoodTx(plan, tx')
<1>1. PICK t, q : t = tx /\ q = tx'
  OBVIOUS
<1>2. /\ plan \in Plan /\ GoodTx(plan, t) /\ t \in TxRecord /\ t.run = "fn"
      /\ t.pc > Len(plan.fn) /\ Elsewhere(t) /\ Placed(t) /\ Queued(t)
      /\ Linked(plan, t) /\ Applied(plan, t)
  BY <1>1 DEF TxInv, GoodTx, FnReturns
<1>3. Mortal(t)
  BY <1>2, GoodMortal
<1>4. CASE t.done
  <2>1. q = RunOver(t, "aborted")
    BY <1>1, <1>4 DEF FnReturns
  <2>2. /\ q \in TxRecord /\ q.run = "over" /\ q.told = "aborted"
        /\ q.attempt = t.attempt /\ q.dead = t.dead /\ q.done = t.done
        /\ q.sock = t.sock /\ q.queue = t.queue /\ q.step = t.step
        /\ q.refused = t.refused /\ q.open = t.open /\ q.applied = t.applied
        /\ q.line = t.line
    BY <1>2, <2>1, RunOverFields
  <2>3. /\ t.dead /\ t.queue = <<>> /\ t.open = {} /\ t.attempt # 0
        /\ t.sock = "gone" /\ t.told = None
    BY <1>2, <1>4 DEF Placed
  <2>4. t.step = "idle" /\ Line(t).told = <<>> /\ Len(Line(t).asked) <= 1
    BY <1>2, <2>3 DEF Linked
  <2>5. t.applied = <<>> /\ ~ ExecAsked(t)
    BY <1>2, <1>3 DEF Mortal
  <2>6. Line(q) = Line(t) /\ Elsewhere(q) /\ ~ ExecAsked(q)
    BY <1>2, <2>2, <2>5 DEF Line, Elsewhere, ExecAsked
  <2>7. q.told # None /\ Len(<<>>) <= 1
    BY <2>2, RemoteTransactionAssumption
  <2>8. Parted(plan, q)
    BY <2>2, <2>3, <2>4, <2>5, <2>6, <2>7 DEF Parted
  <2>9. QED
    BY <1>1, <2>8, PartedGood
<1>5. CASE ~ t.done /\ t.finishing
  <2>1. q = RunThrows(t)
    BY <1>1, <1>5 DEF FnReturns
  <2>2. QED
    BY <1>1, <1>3, <2>1, RunThrowsParted, PartedGood
<1>6. CASE ~ t.done /\ ~ t.finishing
  <2>1. PICK op, f, n, r, w :
          /\ op = [do |-> "exec"] /\ f = TRUE /\ n = t.pc /\ r = "exec"
          /\ w = [t EXCEPT !.queue = Append(t.queue, op),
                           !.finishing = f, !.pc = n, !.run = r]
    OBVIOUS
  <2>2. op \in TxOp /\ op.do = "exec" /\ n \in Nat \ {0}
    BY <1>2, <2>1, TxFields DEF TxOp
  <2>3. WaitsTo(t, w, op, f, n, r)
    BY <1>2, <2>1, <2>2, WaitsFields
  <2>4. q = w
    <3>1. q = [Serialized(t, [do |-> "exec"], TRUE) EXCEPT
                   !.finishing = TRUE, !.run = "exec"]
      BY <1>1, <1>6 DEF FnReturns
    <3>2. Serialized(t, op, TRUE) = [t EXCEPT !.queue = Append(t.queue, op)]
      BY DEF Serialized
    <3>3. q = [t EXCEPT !.queue = Append(t.queue, op), !.finishing = TRUE,
                        !.run = "exec"]
      BY <2>1, <3>1, <3>2 DEF TxRecord
    <3>4. QED
      BY <1>2, <2>1, <3>3 DEF TxRecord
  <2>5. /\ q \in TxRecord /\ q.run = "exec" /\ q.pc = t.pc /\ q.finishing
        /\ q.refused = t.refused /\ q.dead = t.dead /\ q.step = t.step
        /\ q.line = t.line /\ q.attempt = t.attempt
        /\ q.queue = Append(t.queue, op)
    BY <2>1, <2>3, <2>4 DEF WaitsTo
  <2>6. PICK s, v : s = t.queue /\ v = q.queue
    OBVIOUS
  <2>7. s \in Seq(TxOp) /\ v = Append(s, op) /\ v \in Seq(TxOp)
    BY <1>2, <2>5, <2>6, TxFields
  <2>8. AppendedTo(s, op, v) /\ Len(v) = Len(s) + 1
    <3>1. AppendedTo(s, op, v)
      BY <2>2, <2>7, SetsInAppend
    <3>2. Len(v) = Len(s) + 1
      BY <2>7, AppendProperties
    <3>3. QED
      BY <3>1, <3>2
  <2>9. Queued(q)
    <3>1. \A i \in DOMAIN v : (v[i] = op /\ i = Len(v))
                              \/ (i \in DOMAIN s /\ v[i] = s[i])
      BY <2>8 DEF AppendedTo
    <3>2. \A i \in DOMAIN s : s[i].do \in {"get", "set"}
      BY <1>2, <1>6, <2>6 DEF Queued
    <3>3. \A i \in DOMAIN v : v[i].do \in {"get", "set"}
                              \/ (v[i].do = "exec" /\ i = Len(v))
      BY <2>2, <3>1, <3>2
    <3>4. QED
      BY <2>5, <2>6, <3>3 DEF Queued
  <2>10. MovedTo(t, q)
    <3>1. r \in {"fn", "exec"}
      BY <2>1
    <3>2. QED
      BY <1>6, <2>3, <2>4, <3>1, WaitsMoved
  <2>11. ASSUME Writing(q)
         PROVE  Content(plan, q)
    <3>1. ~ t.finishing /\ ~ t.dead
      BY <1>6, <2>5, <2>11 DEF Writing
    <3>2. PICK b, W, u : /\ b = Line(t).batch /\ W = Writes(plan.fn)
                         /\ u = Unserved(t)
      OBVIOUS
    <3>3. /\ Called(plan, t, b, W, s, u) /\ Line(q) = Line(t) /\ Unserved(q) = u
          /\ u \in {1, 2}
      BY <1>2, <2>5, <2>6, <3>1, <3>2, FnContent DEF Content
    <3>4. t.attempt # 0
      BY <1>2 DEF Placed
    <3>5. b \in Seq(Nat) /\ u \in Nat
      BY <1>2, <3>2, <3>3, <3>4, TxFields, LineFields
    <3>6. Called(plan, q, b, W, v, u)
      BY <1>2, <2>2, <2>5, <2>7, <3>2, <3>3, <3>5, CalledAll
    <3>7. QED
      BY <2>6, <3>2, <3>3, <3>6 DEF Content
  <2>12. QED
    BY <1>1, <1>2, <2>9, <2>10, <2>11, MovedGood
<1>7. QED
  BY <1>4, <1>5, <1>6


-----------------------------------------------------------------------------
(* The steps of the client keep the transaction good.                      *)

LEMMA TxInvInit ==
  ASSUME Init
  PROVE  TxInv
<1>1. PICK t, none : t = tx /\ none = <<>>
  OBVIOUS
<1>2. /\ none \in Seq(TxOp) /\ none \in Seq(Seq(Nat)) /\ 0 \in Nat
      /\ 1 \in Nat \ {0} /\ 0 \in 0 .. MaxRetries + 1
  BY <1>1, RemoteTransactionAssumption
<1>3. PICK l : l = [a \in Tries |-> NoLine]
  OBVIOUS
<1>4. l \in [Tries -> LineState] /\ \A a \in Tries : l[a] = NoLine
  BY <1>3, NoLineType
<1>5. t = [run |-> "idle", pc |-> 1, told |-> None, attempt |-> 0,
           begun |-> FALSE, finishing |-> FALSE, done |-> FALSE, dead |-> FALSE,
           sock |-> "none", queue |-> none, step |-> "idle", refused |-> {},
           open |-> {}, line |-> l, version |-> 0, applied |-> none]
  BY <1>1, <1>3 DEF Init, TxInit
<1>6. t \in TxRecord
  BY <1>2, <1>4, <1>5 DEF TxRecord
<1>7. /\ t.run = "idle" /\ t.told = None /\ t.attempt = 0 /\ ~ t.done /\ ~ t.dead
      /\ t.sock = "none" /\ t.queue = <<>> /\ t.step = "idle" /\ t.open = {}
      /\ t.line = l /\ t.applied = <<>>
  BY <1>1, <1>5
<1>8. Elsewhere(t) /\ Placed(t) /\ Queued(t) /\ ~ Writing(t)
  BY <1>4, <1>7 DEF Elsewhere, Placed, Queued, Writing
<1>9. Linked(plan, t)
  BY <1>7 DEF Linked
<1>10. Applied(plan, t)
  <2>1. Len(t.applied) <= 1
    BY <1>7
  <2>2. QED
    BY <1>7, <2>1, RemoteTransactionAssumption DEF Applied, ExecAsked
<1>11. QED
  BY <1>1, <1>6, <1>8, <1>9, <1>10 DEF TxInv, GoodTx, Init

LEMMA TxNextGood ==
  ASSUME TxInv, TxNext
  PROVE  GoodTx(plan, tx')
<1>1. CASE RunTransaction \/ FnStep \/ FnReturns \/ StartOp
  BY <1>1, RunTransactionStep, FnStepStep, FnReturnsStep, StartOpStep
<1>2. CASE TxDialDone \/ TxData
  BY <1>2, TxDialDoneStep, TxDataStep
<1>3. CASE TxDialFails \/ TxTimer \/ TxLost \/ TxDeadline
  BY <1>3, TxTakenDown
<1>4. CASE OtherWrites
  BY <1>4, OtherWritesStep
<1>5. ASSUME NEW a \in Tries, TxServes(a) \/ TxDropped(a)
      PROVE  GoodTx(plan, tx')
  BY <1>5, TxServesStep, TxDroppedStep
<1>6. QED
  BY <1>1, <1>2, <1>3, <1>4, <1>5 DEF TxNext

LEMMA TxInvStep ==
  ASSUME TxInv, [Next]_vars
  PROVE  TxInv'
<1>1. CASE TxNext /\ UNCHANGED <<plan, life, pool, sub>>
  BY <1>1, TxNextGood DEF TxInv
<1>2. CASE UNCHANGED <<plan, tx>>
  BY <1>2 DEF TxInv
<1>3. CASE Close
  BY <1>3, TxClosedGood DEF TxInv, Close
<1>4. CASE CloseEnds
  BY <1>2, <1>4 DEF CloseEnds
<1>5. QED
  BY <1>1, <1>2, <1>3, <1>4 DEF Next, vars

LEMMA TxSafe ==
  Spec => []TxInv
BY TxInvInit, TxInvStep, PTL DEF Spec

LEMMA TxInvTyped ==
  ASSUME TxInv
  PROVE  TxTypeOK
<1>1. tx \in TxRecord /\ Queued(tx)
  BY DEF TxInv, GoodTx
<1>2. QED
  BY <1>1, TxFields DEF TxTypeOK, Queued

(* What runTransaction() says of a run is true of the server, and a run    *)
(* writes at most once: whatever the function does, the commands the       *)
(* server refuses, the others that write, the replies and connections      *)
(* lost, the deadlines and the attempts.                                   *)
THEOREM RunsTellTheTruth == Spec => []RunsAsTold
<1>1. ASSUME TxInv
      PROVE  RunsAsTold
  <2>1. tx \in TxRecord /\ Placed(tx) /\ Applied(plan, tx)
    BY <1>1 DEF TxInv, GoodTx
  <2>2. tx.run = "over" => tx.open = {} /\ tx.sock # "up"
    BY <2>1 DEF Placed
  <2>3. QED
    BY <2>1, <2>2 DEF Applied, RunsAsTold
<1>2. QED
  BY <1>1, TxSafe, PTL

=============================================================================
