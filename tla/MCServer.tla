------------------------------ MODULE MCServer ------------------------------
(***************************************************************************)
(* Small instances of Server: two clients and what they send, with a log   *)
(* that works, fails or is not there.                                      *)
(***************************************************************************)
EXTENDS Server

CONSTANTS c1, c2, k1, k2, Text, Other

OneByteKeys == [k \in Key |-> 1]
Sizes == [v \in Value |-> IF v = Text THEN 2 ELSE 1]
NoTTL == [k \in Key |-> None]
FirstOnly == [ns \in Namespace |-> {k1}]

Do(cmd) == [cmd |-> cmd]
GetKey(k) == [cmd |-> "GET", keys |-> <<k>>]
Put_(op) == [cmd |-> "PUT", op |-> op]
SetKey(k, v) == Put_([op |-> "set", key |-> k, value |-> v, ttl |-> None])
SetFor(k, v, ttl) == Put_([op |-> "set", key |-> k, value |-> v, ttl |-> ttl])
Increment(k) == Put_([op |-> "incr", key |-> k, by |-> 1])
DelKeys(ks) == [cmd |-> "DEL", keys |-> ks]
WatchKeys(ks) == [cmd |-> "WATCH", keys |-> ks]
Sub(chs) == [cmd |-> "SUBSCRIBE", channels |-> chs]
Login(good) == [cmd |-> "AUTH", good |-> good]

Scripts(a, b) == (c1 :> a) @@ (c2 :> b)

Base == [log |-> "good", password |-> FALSE, idle |-> FALSE,
         autosave |-> FALSE, closes |-> FALSE, finalSave |-> TRUE,
         host |-> <<>>, until |-> 0]

Listening == <<Sub(<<Invalidate>>)>>

(* A transaction on keys watched twice, against a write that changes one   *)
(* there and back and one that expires; and one that is broken off.        *)
Transactions ==
  {[Base EXCEPT !.log = "failing", !.until = 1] @@
   [script |-> Scripts(<<WatchKeys(<<k1>>), WatchKeys(<<k1, k2>>), Do("MULTI"),
                         SetKey(k2, 0), Increment(k1), Do("EXEC")>>,
                       <<SetFor(k1, 0, 1), DelKeys(<<k1>>)>>)],
   Base @@
   [script |-> Scripts(<<WatchKeys(<<k1>>), Do("UNWATCH"), Do("MULTI"),
                         SetKey(k2, 0), Do("DISCARD"), Do("MULTI"),
                         Increment(k1), Do("EXEC")>>,
                       <<SetKey(k1, 0)>>)]}

(* Limits on queues, watched keys and subscriptions; commands out of place.*)
Refusals ==
  {Base @@
   [script |-> Scripts(<<Do("MULTI"), SetKey(k1, 0), Do("QUIT"), GetKey(k1),
                         DelKeys(<<k1>>), Do("EXEC")>>,
                       <<Sub(<<Invalidate, Other>>), GetKey(k1),
                         Do("UNSUBSCRIBE")>>)],
   [Base EXCEPT !.password = TRUE] @@
   [script |-> Scripts(<<Do("PING"), Login(FALSE), Login(TRUE), Do("PING"),
                         Do("QUIT"), SetKey(k1, 0)>>,
                       <<Do("SAVE"), Do("QUIT")>>)]}

(* Mutations of every kind, one of them by the program, and a listener.    *)
Announcements ==
  {[Base EXCEPT !.log = l, !.until = 1, !.host = <<DelKeys(<<k1, k2>>)>>] @@
   [script |-> Scripts(<<SetFor(k1, 0, 1), Increment(k1)>>, Listening)] :
     l \in {"off", "failing"}}

(* A listener that does not read as fast as it is told.                    *)
SlowListener ==
  [Base EXCEPT !.idle = TRUE] @@
  [script |-> Scripts(<<SetKey(k1, 0), SetKey(k2, 0), DelKeys(<<k1, k2>>),
                        [cmd |-> "PUBLISH", channel |-> Other]>>,
                      <<Sub(<<Invalidate, Other>>)>>)]

(* SAVE and LOAD of two clients, and the end of the server.                *)
Saves ==
  {[Base EXCEPT !.log = "failing"] @@
   [script |-> Scripts(<<SetKey(k1, 0), Do("SAVE"), GetKey(k1)>>,
                       <<SetKey(k1, Text), Do("LOAD"), GetKey(k1)>>)],
   [Base EXCEPT !.closes = TRUE, !.host = <<SetKey(k2, 0)>>] @@
   [script |-> Scripts(<<SetKey(k1, 0), Do("SAVE"), GetKey(k1)>>,
                       <<Do("LOAD")>>)],
   [Base EXCEPT !.closes = TRUE, !.autosave = TRUE, !.finalSave = FALSE] @@
   [script |-> Scripts(<<Do("SAVE")>>, <<>>)]}

Plans == Transactions \cup Refusals \cup Announcements \cup {SlowListener}
         \cup Saves

=============================================================================
