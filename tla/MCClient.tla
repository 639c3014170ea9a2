------------------------------ MODULE MCClient ------------------------------
(***************************************************************************)
(* Small instances of Client: programs that use one part of it until it    *)
(* breaks, and one that uses all of them and closes it.                    *)
(***************************************************************************)
EXTENDS Client

Idle == [calls |-> 0, warm |-> FALSE, password |-> FALSE, slow |-> FALSE,
         breaks |-> FALSE, refuses |-> FALSE, closes |-> FALSE,
         ops |-> <<>>, news |-> 0,
         runs |-> FALSE, fn |-> <<>>, awaits |-> TRUE, others |-> 0]

(* Calls that wait for a connection, share one and are refused; those that *)
(* lose it; and a client that is closed while it dials and authenticates.  *)
Calls ==
  {[Idle EXCEPT !.calls = 3, !.closes = TRUE],
   [Idle EXCEPT !.calls = 2, !.breaks = TRUE, !.slow = TRUE],
   [Idle EXCEPT !.calls = 1, !.breaks = TRUE, !.password = TRUE,
                !.warm = TRUE, !.closes = TRUE]}

Listen(t) == [do |-> "subscribe", topic |-> t]
Leave(o)  == [do |-> "unsubscribe", of |-> o]
Again     == [do |-> "reconnect"]

(* Two channels restored by hand, after a loss or a late dial; two         *)
(* handlers of one channel, one of which leaves; a server that refuses.    *)
Subscriptions ==
  {[Idle EXCEPT !.ops = <<Listen("a"), Listen("b"), Again>>, !.news = 1,
                !.breaks = TRUE],
   [Idle EXCEPT !.ops = <<Listen("a"), Listen("a"), Leave(1)>>, !.news = 2,
                !.password = TRUE, !.breaks = TRUE, !.closes = TRUE],
   [Idle EXCEPT !.ops = <<Listen("a"), Listen("b"), Leave(1)>>, !.news = 2,
                !.refuses = TRUE, !.closes = TRUE],
   [Idle EXCEPT !.ops = <<Listen("a"), Leave(1), Leave(1)>>, !.closes = TRUE]}

(* Runs against another writer; with promises the function does not await; *)
(* that the function ends itself.                                          *)
Runs ==
  {[Idle EXCEPT !.runs = TRUE, !.fn = <<"get", "set", "set">>, !.awaits = w,
                !.others = 2, !.breaks = TRUE, !.closes = TRUE] :
     w \in BOOLEAN} \cup
  {[Idle EXCEPT !.runs = TRUE, !.fn = <<"set", "get", "set">>, !.awaits = FALSE,
                !.others = 1, !.password = TRUE, !.refuses = TRUE]} \cup
  {[Idle EXCEPT !.runs = TRUE, !.fn = f, !.awaits = w] :
     w \in BOOLEAN,
     f \in {<<>>, <<"set", "get">>, <<"set", "discard">>, <<"discard", "set">>,
            <<"set", "close">>, <<"set", "throw">>}}

(* All parts at once.                                                      *)
Everything ==
  {[Idle EXCEPT !.calls = 1, !.ops = <<Listen("a")>>, !.runs = TRUE,
                !.fn = <<"set">>, !.closes = TRUE]}

Plans == Calls \cup Subscriptions \cup Runs \cup Everything

=============================================================================
