------------------------------ MODULE ClientPool ------------------------------
(***************************************************************************)
(* The pooled command connections of YasdClient (src/client.ts): exec(),   *)
(* the choice of a connection, its replenishment, requests and replies in  *)
(* order, and everything that can end a request.                           *)
(*                                                                         *)
(* `pool` is a record of                                                   *)
(*   call    for each exec(): where its work stands, the connection it was *)
(*           given and what its caller was told (the call whose reply it   *)
(*           got, or Failed)                                               *)
(*   conn    for each PooledConn: st is "broken" when the socket is        *)
(*           destroyed and its close event has yet to come; `asked` are    *)
(*           the requests the server has still to answer                   *)
(*   order   this.pool         robin   this.roundRobin                     *)
(*   fill    replenishPool(), at most one at a time: this.connecting       *)
(*                                                                         *)
(* A call that is "woken" or "chosen" goes on in a promise continuation,   *)
(* before any timer fires or any socket is heard.  Timers fire whenever    *)
(* they are set.  A caller is told of the deadline while the work goes on, *)
(* so `expired` is "told something although not over".                     *)
(***************************************************************************)
EXTENDS ClientState

CONSTANTS
  Call, Conn,
  PoolSize,
  MaxAttempts,    \* RECONNECT_MAX_ATTEMPTS
  MaxQueued,      \* commands a client works on
  MaxPending      \* requests a connection waits for

ASSUME PoolAssumption ==
  /\ Call \subseteq Nat \ {0}
  /\ {PoolSize, MaxAttempts, MaxQueued, MaxPending} \subseteq Nat \ {0}
  /\ None \notin Conn

VARIABLE pool

(* What the caller of a call without a reply is told.                      *)
Failed == 0

NewCall == [at |-> "new", conn |-> None, told |-> None]
NoConn  == [st |-> "none", pending |-> <<>>, asked |-> <<>>]
LiveConn == [NoConn EXCEPT !.st = "live"]
DeadConn == [NoConn EXCEPT !.st = "dead"]
NoFill  == [at |-> "idle", attempt |-> 0, needed |-> 0, conn |-> None,
            created |-> <<>>, late |-> FALSE]

PoolInit ==
  pool = [call |-> [c \in Call |-> NewCall], conn |-> [k \in Conn |-> NoConn],
          order |-> <<>>, robin |-> 0, fill |-> NoFill]

(* The calls whose work has stopped for lack of a connection.              *)
Waiting(p) == {c \in Call : p.call[c].at = "waiting"}

Settled(call, what) ==
  [call EXCEPT !.at = "over", !.told = IF @ = None THEN what ELSE @]

Settle(p, calls, what) ==
  [p EXCEPT !.call = [c \in Call |-> IF c \in calls THEN Settled(@[c], what)
                                     ELSE @[c]]]

-----------------------------------------------------------------------------
(* Connections leaving the pool.                                           *)

(* Mistake: the cursor stays behind the end.                               *)
ShortenedOnly(p, order) == [p EXCEPT !.order = order]

Shortened(p, order) ==
  [p EXCEPT !.order = order,
            !.robin = IF @ < Len(order) \/ @ = 0 THEN @
                      ELSE IF order = <<>> THEN 0 ELSE Len(order) - 1]

RemoveConn(p, k) ==
  IF k \in Range(p.order) THEN Shortened(p, RemoveFirst(p.order, k)) ELSE p

(* Mistake: the requests of the connection are forgotten.                  *)
FailQuietly(p, k) ==
  RemoveConn([p EXCEPT !.conn[k] = DeadConn], k)

FailConn(p, k) ==
  RemoveConn(IF p.conn[k].st = "dead" THEN p
             ELSE Settle([p EXCEPT !.conn[k] = DeadConn],
                         Range(p.conn[k].pending), Failed), k)

Prune(p) ==
  FoldLeft(LAMBDA q, k : IF p.conn[k].st = "live" THEN q ELSE FailConn(q, k),
           p, p.order)

-----------------------------------------------------------------------------
(* Replenishing.                                                           *)

FillEnds(p, ok) ==
  IF ok THEN [p EXCEPT !.fill = NoFill,
                       !.call = [c \in Call |->
                          IF c \in Waiting(p) THEN [@[c] EXCEPT !.at = "woken"]
                          ELSE @[c]]]
  ELSE Settle([p EXCEPT !.fill = NoFill], Waiting(p), Failed)

Enough(p) == Len(p.order) >= PoolSize

Added(p) ==
  IF Enough(p) THEN FillEnds(p, TRUE)
  ELSE IF p.fill.late \/ p.fill.attempt + 1 = MaxAttempts THEN FillEnds(p, FALSE)
  ELSE [p EXCEPT !.fill.at = "asleep", !.fill.attempt = @ + 1,
                 !.fill.created = <<>>]

PushIfLive(p, k) ==
  IF p.conn[k].st = "live" THEN [p EXCEPT !.order = Append(@, k)] ELSE p

(* The end of an attempt, whether all its connections were made or not.    *)
Tried(p) ==
  IF Closed
  THEN FillEnds([p EXCEPT !.conn = [k \in Conn |->
                   IF k \in Range(p.fill.created) THEN DeadConn ELSE @[k]]],
                FALSE)
  ELSE Added(Prune(FoldLeft(PushIfLive, p, p.fill.created)))

Dial(p) ==
  IF p.fill.late THEN Tried(p) ELSE [p EXCEPT !.fill.at = "dialing"]

Attempt(p) ==
  IF Closed THEN FillEnds(p, FALSE)
  ELSE IF Enough(p) THEN FillEnds(p, TRUE)
  ELSE Dial([p EXCEPT !.fill.needed = PoolSize - Len(p.order)])

(* connect()                                                               *)
StartFill(p) ==
  IF p.fill.at = "idle" THEN Attempt(Prune(p)) ELSE p

(* Mistake: a connection made while the client was closed is kept.         *)
CreatedAnyway(p, k) ==
  LET q == [p EXCEPT !.fill.created = Append(@, k), !.fill.conn = None]
  IN  IF Len(p.fill.created) + 1 < p.fill.needed THEN Dial(q)
      ELSE Added(Prune([q EXCEPT !.order = @ \o p.fill.created \o <<k>>]))

Created(p, k) ==
  IF Closed THEN Tried([p EXCEPT !.conn[k] = DeadConn, !.fill.conn = None])
  ELSE IF Len(p.fill.created) + 1 < p.fill.needed
  THEN Dial([p EXCEPT !.fill.created = Append(@, k), !.fill.conn = None])
  ELSE Tried([p EXCEPT !.fill.created = Append(@, k), !.fill.conn = None])

Dialled(p, k) ==
  IF Closed THEN Tried(p)
  ELSE IF plan.password
  THEN [p EXCEPT !.conn[k] = LiveConn, !.fill.at = "auth", !.fill.conn = k]
  ELSE Created([p EXCEPT !.conn[k] = LiveConn], k)

-----------------------------------------------------------------------------
(* Choosing: from the one after the last, the one with the least to do.    *)

TurnAfter(p) == (p.robin + 1) % Len(p.order)

InTurn(p, i) == p.order[1 + ((TurnAfter(p) + i) % Len(p.order))]

Load(p, i) == Len(p.conn[InTurn(p, i)].pending)

Best(p) ==
  InTurn(p, CHOOSE i \in 0 .. Len(p.order) - 1 :
              \A j \in 0 .. Len(p.order) - 1 :
                \/ Load(p, i) < Load(p, j)
                \/ Load(p, i) = Load(p, j) /\ i <= j)

Chosen(p, c) ==
  [p EXCEPT !.robin = TurnAfter(p), !.call[c].at = "chosen", !.call[c].conn = Best(p)]

Dispatched(p, c) ==
  IF p.order = <<>> THEN StartFill([p EXCEPT !.call[c].at = "waiting"])
  ELSE IF Enough(p) THEN Chosen(p, c)
  ELSE StartFill(Chosen(p, c))

-----------------------------------------------------------------------------
(* The steps.                                                              *)

Busy == {c \in Call : pool.call[c].at \notin {"new", "over"}}

(* No continuation is due: timers may fire and sockets may be heard.       *)
Quiet ==
  /\ life # "closing"
  /\ \A c \in Call : pool.call[c].at \notin {"woken", "chosen"}

(* exec(), the calls numbered in the order they are made                   *)
Exec(c) ==
  /\ pool.call[c].at = "new" /\ c <= plan.calls
  /\ c - 1 \in Call => pool.call[c - 1].at # "new"
  /\ pool' = IF Closed \/ Cardinality(Busy) >= MaxQueued
             THEN Settle(pool, {c}, Failed)
             ELSE Dispatched(Prune(pool), c)

(* connect()                                                               *)
Warm ==
  /\ plan.warm /\ ~ Closed /\ pool.call[1].at = "new"
  /\ pool' = StartFill(pool)

Resumed(p, c) ==
  IF p.order = <<>> THEN Settle(p, {c}, Failed) ELSE Chosen(p, c)

Resume(c) ==
  /\ pool.call[c].at = "woken"
  /\ pool' = Resumed(Prune(pool), c)

(* Mistake: the caller's deadline is forgotten.                            *)
UnsendableNow(call) ==
  \/ pool.conn[call.conn].st # "live"
  \/ Len(pool.conn[call.conn].pending) >= MaxPending

(* The deadline is looked at in exec(), after dispatch(); the rest in      *)
(* sendOn(), in the same turn.                                             *)
Unsendable(call) ==
  \/ call.told # None
  \/ pool.conn[call.conn].st # "live"
  \/ Len(pool.conn[call.conn].pending) >= MaxPending

Send(c) ==
  /\ pool.call[c].at = "chosen"
  /\ pool' = IF Unsendable(pool.call[c]) THEN Settle(pool, {c}, Failed)
             ELSE [pool EXCEPT !.call[c].at = "sent",
                               !.conn[pool.call[c].conn].pending = Append(@, c),
                               !.conn[pool.call[c].conn].asked = Append(@, c)]

(* deadline() around the work                                              *)
Deadline(c) ==
  /\ Quiet /\ c \in Busy /\ pool.call[c].told = None
  /\ pool' = [pool EXCEPT !.call[c].told = Failed]

(* Mistake: only the request that is late is given up.                     *)
TimedOutAlone(p, c) ==
  Settle([p EXCEPT !.conn[p.call[c].conn].pending = Remove(@, c)], {c}, Failed)

TimedOut(p, c) == FailConn(p, p.call[c].conn)

RequestTimer(c) ==
  /\ Quiet /\ pool.call[c].at = "sent"
  /\ pool' = TimedOut(pool, c)

(* The reply to the oldest unanswered request goes to the oldest waiter.   *)
Receive(k) ==
  /\ Quiet /\ pool.conn[k].st = "live" /\ pool.conn[k].asked # <<>>
  /\ LET p == [pool EXCEPT !.conn[k].asked = Tail(@)]
     IN  pool' = IF p.conn[k].pending = <<>> THEN p
                 ELSE Settle([p EXCEPT !.conn[k].pending = Tail(@)],
                             {Head(p.conn[k].pending)}, Head(pool.conn[k].asked))

Breaks(k) ==
  /\ plan.breaks /\ Quiet /\ pool.conn[k].st = "live"
  /\ pool' = [pool EXCEPT !.conn[k].st = "broken"]

Lost(p, k) ==
  IF p.fill.conn = k THEN Tried([p EXCEPT !.fill.conn = None]) ELSE p

(* The socket's error or close event.                                      *)
CloseEvent(k) ==
  /\ Quiet /\ pool.conn[k].st = "broken"
  /\ pool' = Lost(FailConn(pool, k), k)

(* The connections replenishPool() has made and not yet put into the pool. *)
InHand == Range(pool.fill.created) \cup ({pool.fill.conn} \ {None})

(* A place for a new connection: nobody remembers the one it had.          *)
Free(k) ==
  /\ pool.conn[k].st \in {"none", "dead"}
  /\ k \notin InHand /\ \A c \in Busy : pool.call[c].conn # k

DialDone(k) ==
  /\ Quiet /\ pool.fill.at = "dialing"
  /\ Free(k) /\ \A j \in Conn : Free(j) => k <= j
  /\ pool' = Dialled(pool, k)

DialFails ==
  /\ Quiet /\ pool.fill.at = "dialing"
  /\ pool' = Tried(pool)

(* The reply to AUTH, or its timer.                                        *)
AuthEnds(k) ==
  /\ Quiet /\ pool.fill.at = "auth" /\ pool.fill.conn = k
  /\ pool.conn[k].st = "live"
  /\ \/ pool' = Created(pool, k)
     \/ pool' = Lost(FailConn(pool, k), k)

(* The delay is over, or cut short by close().                             *)
Wake ==
  /\ Quiet /\ pool.fill.at = "asleep"
  /\ pool' = Attempt(Prune(pool))

(* connectTimeoutMs has passed since replenishPool() began.                *)
FillLate ==
  /\ plan.slow /\ Quiet /\ pool.fill.at # "idle" /\ ~ pool.fill.late
  /\ pool' = [pool EXCEPT !.fill.late = TRUE]

(* What close() does here: its connections are dead, their requests fail.  *)
PoolClosed(p) ==
  FoldLeft(LAMBDA q, k : FailConn(q, k), [p EXCEPT !.robin = 0], p.order)

(* Something happens by itself: a continuation, a timer, an event of a     *)
(* socket.                                                                 *)
PoolDue ==
  \/ pool.fill.at # "idle"
  \/ \E k \in Conn : pool.conn[k].st = "broken"
  \/ \E c \in Call : \/ pool.call[c].at \in {"woken", "chosen"}
                     \/ /\ pool.call[c].at = "sent"
                        /\ pool.conn[pool.call[c].conn].st # "dead"

PoolNext ==
  \/ Warm \/ DialFails \/ Wake \/ FillLate
  \/ \E c \in Call : \/ Exec(c) \/ Resume(c) \/ Send(c)
                      \/ Deadline(c) \/ RequestTimer(c)
  \/ \E k \in Conn : \/ DialDone(k) \/ AuthEnds(k)
                     \/ Receive(k) \/ Breaks(k) \/ CloseEvent(k)

-----------------------------------------------------------------------------
(* Properties.                                                             *)

PoolTypeOK ==
  /\ pool.call \in [Call -> [at : {"new", "waiting", "woken", "chosen", "sent",
                                   "over"},
                             conn : Conn \cup {None},
                             told : Call \cup {Failed, None}]]
  /\ pool.conn \in [Conn -> [st : {"none", "live", "broken", "dead"},
                             pending : Seq(Call), asked : Seq(Call)]]
  /\ pool.order \in Seq(Conn) /\ Len(pool.order) <= PoolSize
  /\ pool.robin = 0 \/ pool.robin < Len(pool.order)
  /\ pool.fill.at \in {"idle", "dialing", "auth", "asleep"}
  /\ pool.fill.attempt < MaxAttempts

(* Nobody is ever given the reply to somebody else's request, whatever     *)
(* timed out or broke before (failConn() takes the whole connection down). *)
OwnReply == \A c \in Call : pool.call[c].told \in {None, Failed, c}

(* A command whose caller was told that it expired before dispatch is not  *)
(* dispatched any more (deadline.ts: "onTimeout must prevent any future    *)
(* dispatch"), although the work behind it goes on.                        *)
GivenUpStaysUnsent ==
  [][\A c \in Call :
       pool.call[c].told # None /\ pool.call[c].at # "sent"
         => pool'.call[c].at # "sent"]_pool

(* A connection that lives is in the pool, once, or in the hands of        *)
(* replenishPool(); one that waits for a reply has somebody to give it to; *)
(* and a closed client keeps none, replenishing or not.                    *)
PoolWhole ==
  /\ IsInjective(pool.order) /\ InHand \cap Range(pool.order) = {}
  /\ \A k \in Range(pool.order) : pool.conn[k].st \in {"live", "broken"}
  /\ \A k \in Conn : pool.conn[k].st = "live"
                           => k \in Range(pool.order) \cup InHand
  /\ \A c \in Call : pool.call[c].at = "sent" =>
       c \in Range(pool.conn[pool.call[c].conn].pending)
  /\ life = "closed" => pool.order = <<>>

=============================================================================
