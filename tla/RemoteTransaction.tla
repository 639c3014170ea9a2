-------------------------- MODULE RemoteTransaction --------------------------
(***************************************************************************)
(* runTransaction() of YasdClient and the YasdTransaction it works with    *)
(* (src/client.ts), the connection of each attempt and as much of the      *)
(* server as decides what is committed (src/server.ts).                    *)
(*                                                                         *)
(* plan.fn is what the program's function does with the transaction:       *)
(* "get", "set", "discard", "close" or "throw", awaiting every promise or, *)
(* if ~ plan.awaits, none; then it does not care if one is rejected.       *)
(* `tx` is a record of                                                     *)
(*   run      where runTransaction() stands; pc is the next of plan.fn     *)
(*   told     "committed", "aborted" (committed: false) or "failed"        *)
(*   attempt  the number of the current attempt                            *)
(*   begun, finishing, done, dead, sock   of its YasdTransaction           *)
(*   queue    its operations not over, the first one the running one; step *)
(*            is what that one waits for                                   *)
(*   refused  the writes the function was told have failed                 *)
(*   open     the attempts in this.transactions                            *)
(*   line     for each attempt its connection as the server sees it: the   *)
(*            commands to come, the replies under way, and its transaction *)
(*   version  of the watched key                                           *)
(*   applied  the batches of writes the server has committed               *)
(*                                                                         *)
(* Operations run one at a time, so at most one command is unanswered.     *)
(* When a transaction dies, the operations that wait fail one after the    *)
(* other in promise continuations; here they fail at once.                 *)
(***************************************************************************)
EXTENDS ClientState

CONSTANTS
  MaxRetries,
  MaxOps,         \* operations that wait in a transaction
  MaxTransactions

ASSUME RemoteTransactionAssumption ==
  /\ MaxRetries \in Nat /\ {MaxOps, MaxTransactions} \subseteq Nat \ {0}
  /\ None \notin {"committed", "aborted", "failed"}

ASSUME FunctionAssumption ==
  \A p \in Plan :
    /\ p.fn \in Seq({"get", "set", "discard", "close", "throw"})
    /\ p.awaits \in BOOLEAN

VARIABLE tx

Tries == 1 .. MaxRetries + 1

NoLine == [asked |-> <<>>, told |-> <<>>, watched |-> None,
           multi |-> FALSE, batch |-> <<>>, failed |-> FALSE]

TxInit ==
  tx = [run |-> "idle", pc |-> 1, told |-> None, attempt |-> 0,
        begun |-> FALSE, finishing |-> FALSE, done |-> FALSE, dead |-> FALSE,
        sock |-> "none", queue |-> <<>>, step |-> "idle", refused |-> {},
        open |-> {}, line |-> [a \in Tries |-> NoLine],
        version |-> 0, applied |-> <<>>]

Get == [do |-> "get"]
Set(i) == [do |-> "set", n |-> i]
Writes(fn) == {i \in DOMAIN fn : fn[i] = "set"}

(* The writes among operations that fail.                                  *)
SetsIn(ops) == {ops[i].n : i \in {j \in DOMAIN ops : ops[j].do = "set"}}

-----------------------------------------------------------------------------
(* The end of a transaction and of the run.                                *)

(* fail(), and closeSocket() if `done`.  What was sent may still reach the *)
(* server; replies are lost.                                               *)
Dies(t, done) ==
  [t EXCEPT !.dead = TRUE, !.done = @ \/ done, !.sock = "gone",
            !.open = @ \ {t.attempt}, !.step = "idle", !.queue = <<>>,
            !.refused = @ \cup SetsIn(t.queue),
            !.line[t.attempt].told = <<>>]

RunOver(t, what) == [t EXCEPT !.run = "over", !.told = what]

(* multi(): a new transaction for the next attempt.                        *)
NextAttempt(t) ==
  IF Closed \/ Cardinality(t.open) >= MaxTransactions
  THEN RunOver(t, "failed")
  ELSE [t EXCEPT !.run = "watch", !.attempt = @ + 1, !.open = @ \cup {t.attempt + 1},
                 !.pc = 1, !.begun = FALSE, !.finishing = FALSE, !.done = FALSE,
                 !.dead = FALSE, !.sock = "none", !.step = "idle", !.refused = {},
                 !.queue = <<[do |-> "watch"]>>]

(* Mistake: a transaction whose outcome is not known is made again.        *)
RunThrowsOrRetries(t) ==
  IF t.run = "exec" /\ t.attempt <= MaxRetries THEN NextAttempt(Dies(t, TRUE))
  ELSE RunOver(Dies(t, TRUE), "failed")

(* The catch of runTransaction().                                          *)
RunThrows(t) == RunOver(Dies(t, TRUE), "failed")

(* The run waits for an operation of the transaction.                      *)
Awaits(t) ==
  \/ t.run \in {"watch", "exec"}
  \/ t.run = "fn" /\ plan.awaits /\ t.queue # <<>>

(* The transaction dies under the run.                                     *)
Killed(t, done) == IF Awaits(t) THEN RunThrows(t) ELSE Dies(t, done)

-----------------------------------------------------------------------------
(* Operations.                                                             *)

(* serialize(); exec() and discard() are always let in.                    *)
Serialized(t, op, terminal) ==
  IF ~ terminal /\ Len(t.queue) >= MaxOps
  THEN [t EXCEPT !.refused = @ \cup SetsIn(<<op>>)]
  ELSE [t EXCEPT !.queue = Append(@, op)]

Sent(t, cmd, step) ==
  [t EXCEPT !.step = step, !.line[t.attempt].asked = Append(@, cmd)]

(* The next command of the running operation on a live connection; MULTI   *)
(* goes before the first write and before an EXEC without writes.          *)
Proceed(t, op) ==
  IF op.do \in {"set", "exec"} /\ ~ t.begun THEN Sent(t, [do |-> "multi"], "multi")
  ELSE Sent(t, op, "command")

(* How the running operation ends for the run.                             *)
Passed(t) ==
  LET q == [t EXCEPT !.step = "idle", !.queue = Tail(@)]
  IN  IF t.run = "watch" THEN [q EXCEPT !.run = "fn"]
      ELSE IF t.run = "fn" /\ plan.awaits THEN [q EXCEPT !.pc = @ + 1] ELSE q

Failing(t) ==
  LET op == Head(t.queue)
      q  == [t EXCEPT !.step = "idle", !.queue = Tail(@),
                      !.refused = @ \cup SetsIn(<<op>>)]
  IN  IF t.run = "watch" \/ (t.run = "fn" /\ plan.awaits) \/ op.do = "exec"
      THEN RunThrows(q) ELSE q

(* exec() returned null.                                                   *)
Conflicted(t) ==
  IF t.attempt > MaxRetries THEN RunOver(t, "aborted") ELSE NextAttempt(t)

Executed(t, reply) ==
  CASE reply = "array" -> RunOver(t, "committed")
    [] reply = "nil"   -> Conflicted(t)
    [] reply = "error" -> RunThrows(t)

-----------------------------------------------------------------------------
(* The steps of the client.                                                *)

RunTransaction ==
  /\ plan.runs /\ tx.run = "idle"
  /\ tx' = NextAttempt(tx)

(* A read after MULTI, or anything after exec(), discard() or close().     *)
Barred(t, what) ==
  \/ t.done \/ t.finishing
  \/ what = "get" /\ t.begun

(* The function goes on to its next operation, which throws if it may not. *)
Operate(t, what) ==
  CASE what = "throw" -> RunThrows(t)
    [] what = "close" -> [Dies(t, TRUE) EXCEPT !.pc = @ + 1]
    [] what # "close" /\ what # "throw" /\ Barred(t, what) ->
         IF plan.awaits THEN RunThrows(t)
         ELSE [t EXCEPT !.pc = @ + 1,
                        !.refused = IF what = "set" THEN @ \cup {t.pc} ELSE @]
    [] what = "discard" /\ ~ Barred(t, what) ->
         [Serialized(t, [do |-> "discard"], TRUE) EXCEPT
            !.finishing = TRUE, !.pc = IF plan.awaits THEN @ ELSE @ + 1]
    [] what \in {"get", "set"} /\ ~ Barred(t, what) ->
         [Serialized(t, IF what = "get" THEN Get ELSE Set(t.pc), FALSE) EXCEPT
            !.pc = IF plan.awaits THEN @ ELSE @ + 1]

FnStep ==
  /\ tx.run = "fn" /\ tx.pc <= Len(plan.fn)
  /\ plan.awaits => tx.queue = <<>>
  /\ tx' = Operate(tx, plan.fn[tx.pc])

(* The function has returned: the run commits, unless it is finished.      *)
FnReturns ==
  /\ tx.run = "fn" /\ tx.pc > Len(plan.fn)
  /\ tx' = IF tx.done THEN RunOver(tx, "aborted")
           ELSE IF tx.finishing THEN RunThrows(tx)
           ELSE [Serialized(tx, [do |-> "exec"], TRUE) EXCEPT
                   !.finishing = TRUE, !.run = "exec"]

(* A read that was called before MULTI but whose turn comes after it.      *)
TooLate(t, op) == op.do \in {"get", "watch"} /\ t.begun

(* An operation's turn: connect() if it needs to, or its first command.    *)
StartOp ==
  /\ tx.queue # <<>> /\ tx.step = "idle"
  /\ LET op == Head(tx.queue)
     IN  tx' = IF op.do = "discard" /\ ~ tx.begun THEN Dies(Passed(tx), TRUE)
               ELSE IF tx.dead THEN Killed(tx, op.do \in {"exec", "discard"})
               ELSE IF TooLate(tx, op) THEN Failing(tx)
               ELSE IF tx.sock = "none" THEN [tx EXCEPT !.step = "dialing"]
               ELSE Proceed(tx, op)

TxQuiet == life # "closing"

TxDialDone ==
  /\ TxQuiet /\ tx.step = "dialing"
  /\ LET t == [tx EXCEPT !.sock = "up"]
     IN  tx' = IF plan.password THEN Sent(t, [do |-> "auth"], "auth")
               ELSE Proceed(t, Head(tx.queue))

(* A dial that fails or takes too long.                                    *)
TxDialFails ==
  /\ TxQuiet /\ tx.step \in {"dialing", "auth"}
  /\ tx' = Killed(tx, FALSE)

Ended(t, op, reply) ==
  CASE op.do = "exec"    -> Executed(Dies([t EXCEPT !.queue = <<>>], TRUE), reply)
    [] op.do = "discard" ->
         IF reply = "error" THEN Killed(t, TRUE) ELSE Dies(Passed(t), TRUE)
    [] op.do \notin {"exec", "discard"} ->
         IF reply = "error" THEN Failing(t) ELSE Passed(t)

(* onData()                                                                *)
Answered(t, reply) ==
  CASE t.step = "auth" ->
         IF reply = "error" THEN Killed(t, FALSE) ELSE Proceed(t, Head(t.queue))
    [] t.step = "multi" ->
         IF reply = "error" THEN Failing(t)
         ELSE Proceed([t EXCEPT !.begun = TRUE], Head(t.queue))
    [] t.step = "command" -> Ended(t, Head(t.queue), reply)

TxData ==
  /\ TxQuiet /\ tx.sock = "up" /\ tx.line[tx.attempt].told # <<>>
  /\ tx' = Answered([tx EXCEPT !.line[tx.attempt].told = Tail(@)],
                    Head(tx.line[tx.attempt].told))

(* The timer of send(), or the connection is lost.                         *)
TxTimer ==
  /\ TxQuiet /\ tx.step \in {"auth", "multi", "command"}
  /\ tx' = Killed(tx, FALSE)

TxLost ==
  /\ plan.breaks /\ TxQuiet /\ tx.sock = "up"
  /\ tx' = Killed(tx, FALSE)

(* deadline() around an operation, from the time it was called.            *)
TxDeadline ==
  /\ TxQuiet /\ tx.queue # <<>>
  /\ tx' = Killed(tx, TRUE)

(* What close() does here.                                                 *)
TxClosed(t) == IF t.attempt \in t.open THEN Killed(t, TRUE) ELSE t

-----------------------------------------------------------------------------
(* The server, and the network in between.                                 *)

(* What a command does to a line, and the reply.                           *)
Answer(l, cmd, version, refuse) ==
  CASE cmd.do \in {"auth", "get"} -> [line |-> l, reply |-> "ok"]
    [] cmd.do = "watch" -> [line |-> [l EXCEPT !.watched = version], reply |-> "ok"]
    [] cmd.do = "multi" -> [line |-> [l EXCEPT !.multi = TRUE],
                            reply |-> IF l.multi THEN "error" ELSE "ok"]
    [] cmd.do = "set" /\ refuse ->
         [line |-> [l EXCEPT !.failed = TRUE], reply |-> "error"]
    [] cmd.do = "set" /\ ~ refuse ->
         [line |-> [l EXCEPT !.batch = Append(@, cmd.n)], reply |-> "ok"]
    [] cmd.do = "discard" -> [line |-> NoLine, reply |-> "ok"]
    [] cmd.do = "exec" ->
         [line |-> NoLine,
          reply |-> IF refuse \/ ~ l.multi \/ l.failed THEN "error"
                    ELSE IF l.watched \notin {None, version} THEN "nil" ELSE "array"]

Gone(a) == a # tx.attempt \/ tx.sock # "up"

Replied(a, r, l) ==
  [tx EXCEPT !.line[a] = [r.line EXCEPT !.asked = Tail(l.asked),
                                        !.told = IF Gone(a) THEN <<>>
                                                 ELSE Append(l.told, r.reply)],
             !.applied = IF Head(l.asked).do = "exec" /\ r.reply = "array"
                         THEN Append(@, l.batch) ELSE @,
             !.version = IF /\ Head(l.asked).do = "exec" /\ r.reply = "array"
                            /\ l.batch # <<>>
                         THEN @ + 1 ELSE @]

(* The server may refuse to queue a command, and to execute a transaction. *)
TxServes(a) ==
  /\ tx.line[a].asked # <<>>
  /\ \E refuse \in IF /\ plan.refuses
                      /\ Head(tx.line[a].asked).do \in {"set", "exec"}
                   THEN BOOLEAN ELSE {FALSE} :
       tx' = Replied(a, Answer(tx.line[a], Head(tx.line[a].asked), tx.version,
                               refuse), tx.line[a])

(* The server learns that the client has gone: what it had not read of the *)
(* connection is lost.                                                     *)
TxDropped(a) ==
  /\ Gone(a) /\ tx.line[a].asked # <<>>
  /\ tx' = [tx EXCEPT !.line[a] = NoLine]

(* Another client changes the watched key.                                 *)
OtherWrites ==
  /\ tx.version < plan.others
  /\ tx' = [tx EXCEPT !.version = @ + 1]

(* Something happens by itself: the deadline of an operation, the rest of  *)
(* the function.                                                           *)
TxDue ==
  \/ tx.queue # <<>>
  \/ tx.run = "fn" /\ (plan.awaits => tx.queue = <<>>)

TxNext ==
  \/ RunTransaction \/ FnStep \/ FnReturns \/ StartOp
  \/ TxDialDone \/ TxDialFails \/ TxData \/ TxTimer \/ TxLost \/ TxDeadline
  \/ OtherWrites
  \/ \E a \in Tries : TxServes(a) \/ TxDropped(a)

-----------------------------------------------------------------------------
(* Properties.                                                             *)

TxTypeOK ==
  /\ tx.run \in {"idle", "watch", "fn", "exec", "over"}
  /\ tx.told \in {"committed", "aborted", "failed", None}
  /\ tx.sock \in {"none", "up", "gone"}
  /\ tx.step \in {"idle", "dialing", "auth", "multi", "command"}
  /\ tx.attempt \in 0 .. MaxRetries + 1 /\ tx.open \subseteq Tries
  /\ tx.run = "exec" => tx.finishing

(* The server has committed one batch: every write of the function that    *)
(* was not refused, in their order.                                        *)
AppliedOnce(p, t) ==
  /\ Len(t.applied) = 1
  /\ Range(t.applied[1]) = Writes(p.fn) \ t.refused
  /\ \A i, j \in DOMAIN t.applied[1] :
       i < j => t.applied[1][i] < t.applied[1][j]

(* runTransaction() tells the truth: after committed: true the writes of   *)
(* the last attempt that were not refused are applied, all of them and in  *)
(* their order, and after committed: false none is or will be, of any      *)
(* attempt.  Whatever it is told, the writes of a run are never applied    *)
(* twice (README: a command is not retried blindly), and a run that is     *)
(* over leaves no connection and no place in `transactions` behind.        *)
RunsAsTold ==
  /\ tx.told = "committed" => AppliedOnce(plan, tx)
  /\ tx.told = "aborted" => tx.applied = <<>>
  /\ Len(tx.applied) <= 1
  /\ tx.run = "over" => tx.open = {} /\ tx.sock # "up"

=============================================================================
