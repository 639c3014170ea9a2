-------------------------------- MODULE Client --------------------------------
(***************************************************************************)
(* YasdClient (src/client.ts): its pool, its subscriber and a transaction  *)
(* at work side by side, until close() ends them all.                      *)
(*                                                                         *)
(* The server is as much of it as the client can tell: it answers the      *)
(* requests of a connection in order or not at all (see Server), and       *)
(* connections break at any time if the plan says so.                      *)
(***************************************************************************)
EXTENDS ClientPool, Subscriber, RemoteTransaction

vars == <<plan, life, pool, sub, tx>>

Init ==
  /\ plan \in Plan /\ life = "open"
  /\ PoolInit /\ SubInit /\ TxInit

(* close() up to its await: no command is accepted any more and the        *)
(* transactions are closed.                                                *)
Close ==
  /\ plan.closes /\ life = "open"
  /\ life' = "closing" /\ tx' = TxClosed(tx)
  /\ UNCHANGED <<plan, pool, sub>>

(* The rest: the subscriber first, then the pool.                          *)
CloseEnds ==
  /\ life = "closing"
  /\ life' = "closed" /\ sub' = SubClosed(sub) /\ pool' = PoolClosed(pool)
  /\ UNCHANGED <<plan, tx>>

Next ==
  \/ PoolNext /\ UNCHANGED <<plan, life, sub, tx>>
  \/ SubNext /\ UNCHANGED <<plan, life, pool, tx>>
  \/ TxNext /\ UNCHANGED <<plan, life, pool, sub>>
  \/ Close \/ CloseEnds

Spec == Init /\ [][Next]_vars

-----------------------------------------------------------------------------
(* Fairness.  Timers fire, sockets tell of their end and continuations run *)
(* whatever the server does, so a client that has something to wait for    *)
(* does not stop.  What a plan lets the program, the server and the        *)
(* network do is finite but for connect() called again after it failed,    *)
(* and that only before the first call, so this is weak fairness of those  *)
(* events.                                                                 *)

Due == PoolDue \/ SubDue \/ TxDue \/ life = "closing"

FairSpec == Spec /\ ([]<>(~ Due) \/ []<><<TRUE>>_vars)

-----------------------------------------------------------------------------
(* Properties.                                                             *)

TypeOK ==
  /\ plan \in Plan /\ life \in {"open", "closing", "closed"}
  /\ PoolTypeOK /\ SubTypeOK /\ TxTypeOK

(* Every call, every operation on subscriptions and every run of a         *)
(* transaction comes to an end, and so does its work, even if the server   *)
(* never answers or the client is closed; a connection is never waited for *)
(* by calls that nobody will wake.                                         *)
WorkEnds ==
  /\ \A c \in Call : pool.call[c].at # "new" ~> pool.call[c].at = "over"
  /\ \A o \in Op : sub.op[o].at # "new" ~> sub.op[o].at = "over"
  /\ tx.run # "idle" ~> tx.run = "over"

=============================================================================
