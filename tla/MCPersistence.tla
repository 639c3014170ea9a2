---------------------------- MODULE MCPersistence ----------------------------
(***************************************************************************)
(* Small instances of Persistence.  Keys take one byte, the numbers one    *)
(* and Text three.                                                         *)
(***************************************************************************)
EXTENDS Persistence

CONSTANTS k1, k2, k3, Text

OneByteKeys == [k \in Key |-> 1]
Sizes == [v \in Value |-> IF v = Text THEN 3 ELSE 1]

NoTTL == [k \in Key |-> None]

FirstOnly == [ns \in Namespace |-> {k1}]

SetOp(k, v, ttl) == [op |-> "set", key |-> k, value |-> v, ttl |-> ttl]
Rec(k, v, ttl) == [key |-> k, value |-> v, ttl |-> ttl]

(* Writes with and without a deadline, a counter, and a transaction whose  *)
(* second operation throws when k1 is a text.                              *)
Commands ==
  {<<SetOp(k1, Text, None)>>, <<SetOp(k2, 0, 1)>>,
   <<[op |-> "del", key |-> k1], [op |-> "persist", key |-> k2]>>,
   <<SetOp(k2, Text, None), [op |-> "incr", key |-> k1, by |-> 1]>>}

(* A batch that names a key twice, growing it the second time.             *)
Batches ==
  {<<SetOp(k3, 0, None)>>, <<SetOp(k2, Text, None)>>,
   <<[op |-> "mset", batch |-> <<Rec(k1, 0, None), Rec(k2, 0, None),
                                 Rec(k1, Text, None)>>]>>}

Fixed == {<<SetOp(k1, 0, None)>>, <<SetOp(k2, Text, None)>>}

NoFile == {EmptyFile}

(* A log of an older version, whose counter must not be counted twice, and *)
(* one that an older version wrote on, with a line that cannot be read.  An*)
(* old record that gives a ttl and no deadline extends it at every start,  *)
(* as the README says; here a deadline follows it.                         *)
Files ==
  {EmptyFile,
   [lines |-> <<Record(None, [op |-> "incr", key |-> k1, by |-> 1]),
                Record(1, [op |-> "transaction", ops |->
                   <<[op |-> "set", key |-> k2, value |-> 0, ttl |-> 1],
                     [op |-> "expire", key |-> k2, expiresAt |-> 1]>>])>>,
    ended |-> TRUE],
   [lines |-> <<Record(1, [op |-> "mset", entries |->
                   <<[op |-> "set", key |-> k2, value |-> 0, ttl |-> None]>>]),
                Record(None, [op |-> "del", keys |-> <<k2>>]),
                Bad>>,
    ended |-> TRUE]}

NoSnapshot == {None}

=============================================================================
