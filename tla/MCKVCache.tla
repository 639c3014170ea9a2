------------------------------ MODULE MCKVCache ------------------------------
(***************************************************************************)
(* Small instances of KVCache.  Keys take one byte; the values are two     *)
(* numbers of one byte, a text of two bytes and one that is over           *)
(* MaxValueBytes.                                                          *)
(***************************************************************************)
EXTENDS KVCache

CONSTANTS k1, k2, k3, Text, Huge

AllValues == {0, Text, Huge}
FewValues == {0, Huge}

OneByteKeys == [k \in Key |-> 1]
Sizes == [v \in Value |-> CASE v = Huge -> 3 [] v = Text -> 2 [] OTHER -> 1]

NoTTL == [k \in Key |-> None]
LastKeyTTL == [k \in Key |-> IF k = k3 THEN 1 ELSE None]

AllButFirst == [ns \in Namespace |-> Key \ {k1}]

Rec(k, v, ttl) == [key |-> k, value |-> v, ttl |-> ttl]
Img(k, v, at) == [key |-> k, value |-> v, expiresAt |-> at]

(* A batch that names a key twice and one that is refused at its end.      *)
Batches == {<<Rec(k1, 0, None), Rec(k2, Text, 1), Rec(k1, 0, 1)>>,
            <<Rec(k1, 0, None), Rec(k2, Huge, None)>>}

(* An image over the limits, one with a passed deadline, one refused.      *)
Images == {<<Img(k2, Text, None), Img(k1, 0, 2), Img(k3, 0, None)>>,
           <<Img(k1, 0, 0), Img(k2, 0, 1)>>,
           <<Img(k1, 0, None), Img(k2, Huge, None)>>}

(* The first INCR and the CAS throw when they find an entry.               *)
Operations ==
  {[op |-> "mset", batch |-> <<Rec(k1, 0, 1), Rec(k2, 0, None)>>],
   [op |-> "expire", key |-> k1, ttl |-> 1],
   [op |-> "incr", key |-> k1, by |-> 1],
   [op |-> "cas", key |-> k2, expected |-> 0, value |-> Huge, ttl |-> None]}

OtherOperations ==
  {[op |-> "clear", prefix |-> "ns"],
   [op |-> "persist", key |-> k1],
   [op |-> "incr", key |-> k2, by |-> 0]}

=============================================================================
