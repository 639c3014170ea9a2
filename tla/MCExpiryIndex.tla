--------------------------- MODULE MCExpiryIndex ----------------------------
(***************************************************************************)
(* Small instances of ExpiryIndex.                                         *)
(***************************************************************************)
EXTENDS ExpiryIndex

CONSTANTS k1, k2, a, b

(* Entries that last, and entries that may run out.                        *)
SomeEntries ==
  {[value |-> a, expiresAt |-> None], [value |-> a, expiresAt |-> 1],
   [value |-> b, expiresAt |-> 1]}

(* The sweeper does not look at values.                                    *)
PlainEntries == {[value |-> a, expiresAt |-> d] : d \in {None, 1}}

(* No key is treated unlike another.                                       *)
KeysAlike == Permutations(Key)

=============================================================================
