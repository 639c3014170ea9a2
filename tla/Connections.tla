----------------------------- MODULE Connections -----------------------------
(***************************************************************************)
(* The connections of YasdServer (src/server.ts): what the server holds    *)
(* for each of them, how replies and messages go out under backpressure,   *)
(* and the one budget for all the memory they hold.                        *)
(*                                                                         *)
(* Node runs one callback at a time, so what a callback does to the        *)
(* connections is a function from a record to a record; Server says when   *)
(* the callbacks run.  The record has                                      *)
(*   conn       a ConnState for each connection, see NewConn               *)
(*   inflight   inflightBytes, the sum of what they are accounted for      *)
(*   hub        channel -> the listening connections in subscription order *)
(*                                                                         *)
(* Requests, queued commands, watched keys, subscriptions and chunks of    *)
(* output all count as one unit.  The requests of a connection are         *)
(* numbered; its queue holds those from `taken` + 1 to `arrived`.  `wire`  *)
(* is the writable buffer of the socket, `out` the server's own queue      *)
(* behind it, and `received` what the client has read, for the properties. *)
(* A `txQueue` or `watchVersions` of null is an empty one; `multi` says    *)
(* whether there is a txQueue.                                             *)
(***************************************************************************)
EXTENDS Naturals, Filters

CONSTANTS
  Conn, Channel,
  HighWater,      \* socket.write() returns false at this many buffered units
  MaxPending,     \* maxPendingOutputBytes
  MaxInflight     \* maxInflightBytes, for all connections together

ASSUME ConnectionsAssumption ==
  /\ {HighWater, MaxPending, MaxInflight} \subseteq Nat \ {0}
  /\ IsFiniteSet(Conn)

NewConn(authed) ==
  [socket |-> "open", arrived |-> 0, taken |-> 0, active |-> 0,
   loop |-> "idle", authed |-> authed,
   multi |-> FALSE, tx |-> <<>>, txFailed |-> FALSE, watch |-> <<>>,
   subs |-> {}, subMode |-> FALSE,
   out |-> <<>>, wire |-> <<>>, received |-> <<>>,
   pressed |-> FALSE, ending |-> FALSE, closed |-> FALSE, accounted |-> 0]

(* No connection yet, and none any more.                                   *)
NoConn == [NewConn(FALSE) EXCEPT !.socket = "none", !.closed = TRUE]

Unreachable(k) == k.socket \in {"none", "destroyed", "gone"}

(* What writes refuse: outputClosed, closeWhenDrained, a dead socket.      *)
Mute(k) == k.closed \/ k.ending \/ Unreachable(k)

Pending(k) == Len(k.out) + Len(k.wire)

-----------------------------------------------------------------------------
(* Accounting.                                                             *)

Held(k) ==
  (k.arrived - k.taken) + k.active + Len(k.tx)
    + Cardinality(DOMAIN k.watch) + Cardinality(k.subs) + Pending(k)

Disconnect(n, c) ==
  IF n.conn[c].closed THEN n
  ELSE [n EXCEPT !.conn[c] =
          [@ EXCEPT !.closed = TRUE, !.ending = FALSE, !.socket = "destroyed",
                    !.out = <<>>, !.wire = <<>>]]

Yes(n) == [ok |-> TRUE, net |-> n]
No(n)  == [ok |-> FALSE, net |-> n]

(* Brings the account up to date; the connection for which the budget does *)
(* not suffice, `extra` units to come included, is cut off.                *)
Account(n, c, extra) ==
  LET k    == n.conn[c]
      rest == n.inflight - k.accounted
  IN  IF Unreachable(k) THEN No(n)
      ELSE IF rest + Held(k) + extra > MaxInflight THEN No(Disconnect(n, c))
      ELSE Yes([n EXCEPT !.inflight = rest + Held(k),
                         !.conn[c].accounted = Held(k)])

-----------------------------------------------------------------------------
(* Output.                                                                 *)

Queued(n, c, chunk) ==
  Account([n EXCEPT !.conn[c].out = Append(@, chunk)], c, 0)

(* socket.write(); after socket.end() it is an error, which destroys the   *)
(* socket.                                                                 *)
Sent(n, c, chunk) ==
  LET k    == n.conn[c]
      wire == Append(k.wire, chunk)
  IN  IF k.socket = "ended"
      THEN No([n EXCEPT !.conn[c] =
                 [@ EXCEPT !.socket = "destroyed", !.wire = <<>>]])
      ELSE Account([n EXCEPT !.conn[c] =
                      [@ EXCEPT !.wire = wire,
                                !.pressed = Len(wire) >= HighWater]],
                   c, 0)

(* writeReply() and writeSocket(): a slow consumer is cut off at the limit *)
(* and a chunk waits behind those that wait already.                       *)
WriteBehind(k, a, c, chunk) ==
  IF ~ a.ok THEN a
  ELSE IF k.pressed \/ k.out # <<>> THEN Queued(a.net, c, chunk)
  ELSE Sent(a.net, c, chunk)

Write(n, c, chunk) ==
  IF Mute(n.conn[c]) THEN No(n)
  ELSE IF Pending(n.conn[c]) + 1 > MaxPending THEN No(Disconnect(n, c))
  ELSE WriteBehind(n.conn[c], Account(n, c, 1), c, chunk)

(* endSocket(): end now, or once the output has drained.                   *)
EndSocket(n, c) ==
  LET k == n.conn[c]
      now == ~ k.pressed /\ k.out = <<>>
  IN  IF k.closed THEN n
      ELSE [n EXCEPT !.conn[c] =
              [@ EXCEPT !.ending = TRUE,
                        !.closed = now,
                        !.socket = IF now /\ k.socket = "open" THEN "ended"
                                   ELSE k.socket]]

(* Mistake: one chunk a drain, and the socket is taken for free.           *)
FlushOne(n, c) ==
  LET k == n.conn[c]
  IN  IF k.closed THEN n
      ELSE [n EXCEPT !.conn[c].pressed = FALSE,
                     !.conn[c].wire = IF k.out = <<>> THEN <<>> ELSE <<Head(k.out)>>,
                     !.conn[c].out = IF @ = <<>> THEN @ ELSE Tail(@)]

(* flushOutput(), on "drain": the buffer is filled up again.  Only when    *)
(* that leaves room does a connection that is ending end.                  *)
FlushOutput(n, c) ==
  LET k    == n.conn[c]
      many == IF Len(k.out) < HighWater THEN Len(k.out) ELSE HighWater
      over == k.ending /\ many < HighWater
  IN  IF k.closed THEN n
      ELSE [n EXCEPT !.conn[c] =
              [@ EXCEPT !.wire = SubSeq(k.out, 1, many),
                        !.out = SubSeq(k.out, many + 1, Len(k.out)),
                        !.pressed = many = HighWater,
                        !.closed = over,
                        !.socket = IF over THEN "ended" ELSE k.socket]]

(* The first buffered chunk leaves.  Node emits "drain" when that empties  *)
(* the buffer, unless the socket has been ended, and then calls back.      *)
Taken(n, c) ==
  LET k == n.conn[c]
      l == [n EXCEPT !.conn[c] =
              [@ EXCEPT !.wire = Tail(k.wire),
                        !.received = Append(k.received, Head(k.wire))]]
      drained == k.pressed /\ Len(k.wire) = 1 /\ k.socket = "open"
  IN  Account(IF drained THEN FlushOutput(l, c) ELSE l, c, 0).net

-----------------------------------------------------------------------------
(* The hub.                                                                *)

Listen(n, c, ch) ==
  IF ch \in n.conn[c].subs THEN n
  ELSE [n EXCEPT !.conn[c].subs = @ \cup {ch}, !.hub[ch] = Append(@, c)]

Unlisten(n, c, ch) ==
  [n EXCEPT !.conn[c].subs = @ \ {ch},
            !.hub[ch] = Filter(@, Conn \ {c})]

Message(ch, event) == [kind |-> "message", channel |-> ch, event |-> event]

(* publish(): one listener after the other; what happens to one of them    *)
(* does not keep the message from the others.                              *)
Publish(n, ch, event) ==
  FoldLeft(LAMBDA m, c : Write(m, c, Message(ch, event)).net, n, n.hub[ch])

-----------------------------------------------------------------------------
(* "close": the connection gives back what it holds.                       *)

(* Nobody sees the rest of its state again, but a loop that is waiting for *)
(* SAVE or LOAD goes on.                                                   *)
Emptied(k) ==
  [NoConn EXCEPT !.socket = "gone", !.loop = k.loop, !.active = k.active]

(* Mistakes: its listeners stay in the hub; its account is not released.   *)
CleanupListening(n, c) ==
  [n EXCEPT !.inflight = @ - n.conn[c].accounted,
            !.conn[c] = Emptied(@)]

CleanupUnaccounted(n, c) ==
  [n EXCEPT !.conn[c] = Emptied(@),
            !.hub = [ch \in Channel |-> Filter(@[ch], Conn \ {c})]]

Cleanup(n, c) ==
  [n EXCEPT !.inflight = @ - n.conn[c].accounted,
            !.conn[c] = Emptied(@),
            !.hub = [ch \in Channel |-> Filter(@[ch], Conn \ {c})]]

-----------------------------------------------------------------------------
(* What has been sent on a connection and is not lost: once the socket was *)
(* ended nothing moves from the queue to it.                               *)
Output(k) ==
  k.received \o k.wire \o (IF k.socket = "open" THEN k.out ELSE <<>>)

=============================================================================
