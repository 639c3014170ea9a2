----------------------------- MODULE Subscriber -----------------------------
(***************************************************************************)
(* The subscriber connection of YasdClient (src/client.ts): subscribe(),   *)
(* the unsubscribe function it returns, reconnectSubscriptions(), and the  *)
(* one socket all channels share.                                          *)
(*                                                                         *)
(* The operations of the program run one after another (subCommandTail).   *)
(* `sub` is a record of                                                    *)
(*   op        what became of each: at, and what its caller was told       *)
(*   queue     the operations not over, the first one the running one      *)
(*   step      what that one waits for: "opening" the connection `opens`,  *)
(*             or the answer to a command of its own ("asking")            *)
(*   cur       subSocket        dial   subDialSocket                       *)
(*   gen       subGeneration    waiter the one member of subAckWaiters     *)
(*   handlers  channel -> its handlers; one is known by the operation that *)
(*             registered it                                               *)
(*   sock      the sockets: how far openSubConnection() is with it, its    *)
(*             generation, the channels `left` to restore; `asked` and     *)
(*             `told` are the command and the answers under way and `subs` *)
(*             what the server has subscribed it to                        *)
(*   news      how many messages were published                            *)
(*   owed      for each handler the messages it may count on               *)
(*                                                                         *)
(* Round trips are awaited one at a time, so there is never more than one  *)
(* waiter.  A socket that is "broken" is destroyed and its close event has *)
(* yet to come.                                                            *)
(***************************************************************************)
EXTENDS ClientState

CONSTANTS
  Op,             \* the numbers of the program's operations
  Sock,
  Topic,          \* channels
  MaxHandlers,    \* for one channel
  MaxTopics       \* with a handler

ASSUME SubscriberAssumption ==
  /\ Op \subseteq Nat /\ Sock \subseteq Nat
  /\ {MaxHandlers, MaxTopics} \subseteq Nat \ {0}
  /\ None \notin Sock /\ None \notin {"ok", "failed"}

(* A handler is given up by the operation that follows its registration.   *)
ASSUME ProgramAssumption ==
  \A p \in Plan : \A o \in DOMAIN p.ops :
    /\ o \in Op
    /\ p.ops[o].do \in {"subscribe", "unsubscribe", "reconnect"}
    /\ p.ops[o].do = "subscribe" => p.ops[o].topic \in Topic
    /\ p.ops[o].do = "unsubscribe" =>
         /\ p.ops[o].of \in DOMAIN p.ops
         /\ p.ops[p.ops[o].of].do = "subscribe"

Command == [cmd : {"subscribe", "unsubscribe"}, topic : Topic]
Message == [cmd : {"message"}, topic : Topic, n : Nat]
Refusal == [cmd : {"error"}]

(* Who waits for the answer to a command: the dial of connection `open`,   *)
(* or the running operation.                                               *)
RoundTripOf == [cmd : {"subscribe", "unsubscribe"}, topic : Topic,
                open : Sock \cup {None}]

ASSUME NoneIsNoCommand == None \notin Command \cup RoundTripOf

VARIABLE sub

NoSock == [at |-> "none", broken |-> FALSE, gen |-> 0, left |-> {},
           asked |-> None, told |-> <<>>, subs |-> {}]

SubInit ==
  sub = [op |-> [o \in Op |-> [at |-> "new", told |-> None]],
         queue |-> <<>>, step |-> "idle", opens |-> None,
         cur |-> None, dial |-> None, gen |-> 0, waiter |-> None,
         handlers |-> [t \in Topic |-> {}],
         sock |-> [k \in Sock |-> NoSock],
         news |-> 0, owed |-> [o \in Op |-> {}]]

(* subHandlers.keys()                                                      *)
Registered(s) == {t \in Topic : s.handlers[t] # {}}

Usable(s, k) == k # None /\ s.sock[k].at = "up" /\ ~ s.sock[k].broken

-----------------------------------------------------------------------------
(* The end of an operation and of a connection.                            *)

OpOver(s, what) ==
  [s EXCEPT !.op[Head(s.queue)] =
              [at |-> "over", told |-> IF @.told = None THEN what ELSE @.told],
            !.queue = Tail(@), !.step = "idle", !.opens = None]

(* The dial is over without a connection; the operation that waits for it, *)
(* if one still does, fails.                                               *)
OpenFails(s, k) ==
  IF s.opens = k
  THEN OpOver([s EXCEPT !.sock[k] = NoSock,
                        !.dial = IF @ = k THEN None ELSE @], "failed")
  ELSE [s EXCEPT !.sock[k] = NoSock, !.dial = IF @ = k THEN None ELSE @]

(* closeSubSocket() up to the rejections.  A socket that was being         *)
(* authenticated still has its close event to come.  One that was in use   *)
(* is destroyed with what it has not delivered, so that the guard of       *)
(* onSubData() against an old socket has nothing left to drop.             *)
Torn(s) ==
  [s EXCEPT !.gen = @ + 1, !.cur = None, !.dial = None, !.waiter = None,
            !.owed = [o \in Op |-> {}],
            !.sock = [k \in Sock |->
               IF k = s.dial /\ @[k].at = "auth" THEN [@[k] EXCEPT !.broken = TRUE]
               ELSE IF k = s.cur THEN NoSock ELSE @[k]]]

Forget(s, o) ==
  [s EXCEPT !.handlers = [t \in Topic |-> @[t] \ {o}]]

(* After the answer to UNSUBSCRIBE, or its failure.                        *)
AfterUnsub(s) ==
  OpOver(IF Registered(s) = {} THEN Torn(s) ELSE s, "ok")

(* What the failure of a round trip means to the one who made it: the dial *)
(* of connection w.open, or the running operation.                         *)
RoundTripFails(s, w) ==
  IF w = None THEN s
  ELSE IF w.open # None THEN OpenFails(s, w.open)
  ELSE IF w.cmd = "unsubscribe" THEN AfterUnsub(s)
  ELSE OpOver(Forget(s, Head(s.queue)), "failed")

CloseSub(s) == RoundTripFails(Torn(s), s.waiter)

-----------------------------------------------------------------------------
(* Round trips and the operations.                                         *)

RoundTrip(s, cmd, t, k) ==
  IF ~ Usable(s, s.cur)
  THEN IF k # None THEN OpenFails(Torn(s), k)
       ELSE RoundTripFails(s, [cmd |-> cmd, topic |-> t, open |-> None])
  ELSE [s EXCEPT !.waiter = [cmd |-> cmd, topic |-> t, open |-> k],
                 !.sock[s.cur].asked = [cmd |-> cmd, topic |-> t]]

(* subscribe() once there is a connection.                                 *)
Subscribing(s, o, t) ==
  IF \/ Cardinality(s.handlers[t]) >= MaxHandlers
     \/ s.handlers[t] = {} /\ Cardinality(Registered(s)) >= MaxTopics
  THEN OpOver(s, "failed")
  ELSE IF s.handlers[t] # {}
  THEN OpOver([s EXCEPT !.handlers[t] = @ \cup {o}], "ok")
  ELSE RoundTrip([s EXCEPT !.handlers[t] = {o}, !.step = "asking",
                           !.opens = None], "subscribe", t, None)

(* What the running operation does with the connection it waited for.      *)
Connected(s, o) ==
  IF plan.ops[o].do = "subscribe" THEN Subscribing(s, o, plan.ops[o].topic)
  ELSE OpOver(s, "ok")

(* openSubConnection() when socket k is connected and authenticated, and   *)
(* after each channel it restores.                                         *)
Restore(s, k) ==
  IF s.sock[k].left # {}
  THEN RoundTrip(s, "subscribe", CHOOSE t \in s.sock[k].left : TRUE, k)
  ELSE IF s.opens = k THEN Connected([s EXCEPT !.dial = None], Head(s.queue))
  ELSE [s EXCEPT !.dial = None]

Opened(s, k) == Restore([s EXCEPT !.cur = k, !.sock[k].at = "up"], k)

Open(s, k) ==
  [s EXCEPT !.step = "opening", !.opens = k,
            !.sock[k] = [NoSock EXCEPT !.at = "dialing", !.gen = s.gen,
                                       !.left = Registered(s)]]

(* ensureSubConn(); k is the socket a dial would make.                     *)
Ensure(s, o, k) ==
  IF Usable(s, s.cur) THEN Connected(s, o)
  ELSE IF s.cur # None THEN Open(CloseSub(s), k)
  ELSE Open(s, k)

(* Mistake: the last handler of any kind, not of this channel.             *)
UnsubscribingAll(s, o) ==
  LET h == plan.ops[o].of
      t == plan.ops[h].topic
      q == Forget(s, h)
  IN  IF h \notin s.handlers[t] THEN OpOver(q, "ok")
      ELSE IF s.cur = None THEN AfterUnsub(q)
      ELSE RoundTrip([q EXCEPT !.step = "asking"], "unsubscribe", t, None)

Unsubscribing(s, o) ==
  LET h == plan.ops[o].of
      t == plan.ops[h].topic
      q == Forget(s, h)
  IN  IF h \notin s.handlers[t] \/ q.handlers[t] # {} THEN OpOver(q, "ok")
      ELSE IF s.cur = None THEN AfterUnsub(q)
      ELSE RoundTrip([q EXCEPT !.step = "asking"], "unsubscribe", t, None)

Reconnecting(s, o, k) ==
  IF Registered(s) = {} THEN OpOver(CloseSub(s), "ok")
  ELSE Ensure(CloseSub(s), o, k)

Run(s, o, k) ==
  CASE plan.ops[o].do = "subscribe"   -> Ensure(s, o, k)
    [] plan.ops[o].do = "unsubscribe" -> Unsubscribing(s, o)
    [] plan.ops[o].do = "reconnect"   -> Reconnecting(s, o, k)

-----------------------------------------------------------------------------
(* The steps.                                                              *)

SubQuiet == life # "closing"

(* A subscription can be given up once subscribe() has returned.           *)
Callable(o) ==
  /\ o \in DOMAIN plan.ops /\ sub.op[o].at = "new"
  /\ o - 1 \in Op => sub.op[o - 1].at # "new"
  /\ plan.ops[o].do = "unsubscribe" => sub.op[plan.ops[o].of].told = "ok"

SubCall(o) ==
  /\ Callable(o)
  /\ sub' = IF Closed /\ plan.ops[o].do = "reconnect"
            THEN [sub EXCEPT !.op[o] = [at |-> "over", told |-> "failed"]]
            ELSE [sub EXCEPT !.op[o].at = "queued", !.queue = Append(@, o)]

Unused(k) == sub.sock[k].at = "none"

BeginOp ==
  /\ sub.queue # <<>> /\ sub.step = "idle"
  /\ \E k \in Sock : Unused(k) /\ (\A j \in Sock : Unused(j) => k <= j)
       /\ LET o == Head(sub.queue)
          IN  sub' = IF sub.op[o].told # None \/ Closed THEN OpOver(sub, "failed")
                     ELSE Run([sub EXCEPT !.op[o].at = "running",
                                          !.step = "running"], o, k)

(* Mistake: whichever dial ends, its socket is taken.                      *)
SubDialledAny(s, k) ==
  IF plan.password THEN [s EXCEPT !.dial = k, !.sock[k].at = "auth"]
  ELSE Opened([s EXCEPT !.dial = k], k)

SubDialled(s, k) ==
  IF Closed \/ s.sock[k].gen # s.gen THEN OpenFails(s, k)
  ELSE IF plan.password THEN [s EXCEPT !.dial = k, !.sock[k].at = "auth"]
  ELSE Opened([s EXCEPT !.dial = k], k)

SubDialDone(k) ==
  /\ SubQuiet /\ sub.sock[k].at = "dialing"
  /\ sub' = SubDialled(sub, k)

SubDialFails(k) ==
  /\ SubQuiet /\ sub.sock[k].at = "dialing"
  /\ sub' = OpenFails(sub, k)

(* The reply to AUTH, or its timer.                                        *)
SubAuthEnds(k) ==
  /\ SubQuiet /\ sub.sock[k].at = "auth" /\ ~ sub.sock[k].broken
  /\ \/ sub' = Opened(sub, k)
     \/ sub' = OpenFails(sub, k)

(* connectTimeoutMs: the operation gives up, the dial goes on.             *)
ConnectDeadline ==
  /\ SubQuiet /\ sub.opens # None
  /\ LET s == CloseSub(sub)
     IN  sub' = IF s.opens = None THEN s ELSE OpOver(s, "failed")

(* requestTimeoutMs, from the call on.                                     *)
OpDeadline(o) ==
  /\ SubQuiet /\ sub.op[o].at \in {"queued", "running"} /\ sub.op[o].told = None
  /\ LET s == [sub EXCEPT !.op[o].told = "failed"]
     IN  sub' = IF sub.op[o].at = "running" THEN CloseSub(s) ELSE s

RoundTripTimer ==
  /\ SubQuiet /\ sub.waiter # None
  /\ sub' = CloseSub(sub)

SubBreaks(k) ==
  /\ plan.breaks /\ SubQuiet
  /\ sub.sock[k].at \in {"auth", "up"} /\ ~ sub.sock[k].broken
  /\ sub' = [sub EXCEPT !.sock[k].broken = TRUE]

(* onSubLost(), or the end of authenticateSubscriber()                     *)
SubCloseEvent(k) ==
  /\ SubQuiet /\ sub.sock[k].broken
  /\ sub' = IF sub.sock[k].at = "auth" THEN OpenFails(sub, k)
            ELSE IF sub.cur = k THEN CloseSub(sub)
            ELSE [sub EXCEPT !.sock[k] = NoSock]

(* The server answers a command; it may refuse to subscribe.               *)
ServerTakes(k) ==
  /\ Usable(sub, k) /\ sub.sock[k].asked # None
  /\ LET z == sub.sock[k]
         a == z.asked
         subs == IF a.cmd = "subscribe" THEN z.subs \cup {a.topic}
                 ELSE z.subs \ {a.topic}
     IN  \/ sub' = [sub EXCEPT !.sock[k] =
                      [z EXCEPT !.asked = None, !.told = Append(z.told, a),
                                !.subs = subs]]
         \/ /\ plan.refuses /\ a.cmd = "subscribe"
            /\ sub' = [sub EXCEPT !.sock[k].asked = None,
                                  !.sock[k].told = Append(@, [cmd |-> "error"])]

(* A message; the handlers of a caller who was told that it is subscribed, *)
(* and has a connection, count on it.                                      *)
News(t) ==
  /\ sub.news < plan.news
  /\ sub' = [sub EXCEPT
       !.news = @ + 1,
       !.sock = [k \in Sock |->
          IF Usable(sub, k) /\ t \in sub.sock[k].subs
          THEN [sub.sock[k] EXCEPT !.told =
                  Append(@, [cmd |-> "message", topic |-> t, n |-> sub.news])]
          ELSE sub.sock[k]],
       !.owed = [o \in Op |->
          IF /\ o \in sub.handlers[t] /\ sub.op[o].told = "ok"
             /\ Usable(sub, sub.cur) /\ sub.opens = None
          THEN @[o] \cup {sub.news} ELSE @[o]]]

(* onSubData(), one reply of a chunk at a time; what follows an error in   *)
(* its chunk finds nobody waiting and is left out.                         *)
Acked(s, m) ==
  IF s.waiter = None THEN s
  ELSE IF s.waiter.cmd # m.cmd \/ s.waiter.topic # m.topic THEN s
  ELSE IF s.waiter.open # None
  THEN Restore([s EXCEPT !.waiter = None,
                         !.sock[s.waiter.open].left = @ \ {m.topic}], s.waiter.open)
  ELSE IF m.cmd = "unsubscribe" THEN AfterUnsub([s EXCEPT !.waiter = None])
  ELSE OpOver([s EXCEPT !.waiter = None], "ok")

Heard(s, m) ==
  [s EXCEPT !.owed = [o \in Op |->
     IF o \in s.handlers[m.topic] THEN @[o] \ {m.n} ELSE @[o]]]

SubData(k) ==
  /\ SubQuiet /\ Usable(sub, k) /\ sub.sock[k].told # <<>>
  /\ LET m == Head(sub.sock[k].told)
         s == [sub EXCEPT !.sock[k].told = Tail(@)]
     IN  sub' = IF sub.cur # k THEN s
                ELSE IF m.cmd = "error" THEN CloseSub(s)
                ELSE IF m.cmd = "message" THEN Heard(s, m)
                ELSE Acked(s, m)

(* What close() does here; the handlers are gone before a waiting          *)
(* subscribe() learns that it failed.                                      *)
SubClosed(s) ==
  RoundTripFails([Torn(s) EXCEPT !.handlers = [t \in Topic |-> {}]], s.waiter)

(* Something happens by itself: the next operation begins, a timer fires,  *)
(* a dial ends, a socket tells that it is closed.                          *)
SubDue ==
  \/ sub.queue # <<>> /\ sub.step = "idle"
  \/ sub.opens # None \/ sub.waiter # None
  \/ \E k \in Sock : sub.sock[k].broken \/ sub.sock[k].at \in {"dialing", "auth"}

SubNext ==
  \/ BeginOp \/ ConnectDeadline \/ RoundTripTimer
  \/ \E o \in Op : SubCall(o) \/ OpDeadline(o)
  \/ \E k \in Sock : \/ SubDialDone(k) \/ SubDialFails(k) \/ SubAuthEnds(k)
                     \/ SubBreaks(k) \/ SubCloseEvent(k)
                     \/ ServerTakes(k) \/ SubData(k)
  \/ \E t \in Topic : News(t)

-----------------------------------------------------------------------------
(* Properties.                                                             *)

SubTypeOK ==
  /\ sub.op \in [Op -> [at : {"new", "queued", "running", "over"},
                        told : {"ok", "failed", None}]]
  /\ sub.queue \in Seq(Op) /\ sub.step \in {"idle", "opening", "asking"}
  /\ {sub.opens, sub.cur, sub.dial} \subseteq Sock \cup {None}
  /\ sub.gen \in Nat /\ sub.news \in Nat
  /\ sub.step = "idle" => sub.waiter = None \/ sub.waiter.open # None

(* While there is a subscriber connection and it is not being set up,      *)
(* every channel with a handler is subscribed on it at the server or its   *)
(* SUBSCRIBE is being answered, whatever connections came before, and no   *)
(* other connection lives that the server would send messages to.  A       *)
(* handler is registered if its caller was told that it is, until it is    *)
(* given up or the client closed, and not if its caller was told that it   *)
(* could not be.                                                           *)
Subscribed ==
  /\ Usable(sub, sub.cur) /\ sub.opens # sub.cur =>
       \A t \in Registered(sub) :
         \/ t \in sub.sock[sub.cur].subs
         \/ sub.waiter # None /\ sub.waiter.topic = t
  /\ \A k \in Sock : Usable(sub, k) => k = sub.cur
  /\ \A o \in DOMAIN plan.ops : plan.ops[o].do = "subscribe" =>
       /\ sub.op[o].told = "failed" => o \notin sub.handlers[plan.ops[o].topic]
       /\ sub.op[o].told = "ok" =>
            \/ o \in sub.handlers[plan.ops[o].topic] \/ Closed
            \/ \E u \in DOMAIN plan.ops :
                 /\ plan.ops[u].do = "unsubscribe" /\ plan.ops[u].of = o
                 /\ sub.op[u].at \in {"running", "over"}

(* subscribe() returns after the round trip "so no message is missed       *)
(* after" (client.ts): until the connection is lost, a message published   *)
(* later is on its way to every handler that has not heard it.             *)
NoneMissed ==
  \A t \in Topic : \A o \in sub.handlers[t] : \A n \in sub.owed[o] :
    \E i \in DOMAIN sub.sock[sub.cur].told :
      LET m == sub.sock[sub.cur].told[i] IN m.cmd = "message" /\ m.n = n

=============================================================================
