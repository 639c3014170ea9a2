----------------------------- MODULE SavedCopies -----------------------------
(***************************************************************************)
(* What nested atomic frames over ordered maps promise, without a journal: *)
(* a frame is a copy of everything, and a rollback puts the copy back.     *)
(*                                                                         *)
(* A map is the sequence of its entries, oldest first.  Setting a key that *)
(* is there keeps its place.  Of two maps the second indexes the entries   *)
(* of the first that have a deadline; both change together.                *)
(***************************************************************************)
EXTENDS Naturals, SequencesExt

CONSTANTS Key, Entry, None

VARIABLES entries, dated, saved

vars == <<entries, dated, saved>>

Position(s, k) == {i \in DOMAIN s : s[i].key = k}

With(s, k, v) ==
  IF Position(s, k) = {} THEN Append(s, [key |-> k, value |-> v])
  ELSE [i \in DOMAIN s |-> IF s[i].key = k THEN [s[i] EXCEPT !.value = v]
                           ELSE s[i]]

Without(s, k) == SelectSeq(s, LAMBDA e : e.key # k)

Init == entries = <<>> /\ dated = <<>> /\ saved = <<>>

(* A new entry of a key, where the old one stands or at the end.           *)
Put(k, e) ==
  /\ entries' \in {With(entries, k, e), With(Without(entries, k), k, e)}
  /\ LET d == e.expiresAt
     IN  dated' \in IF d = None THEN {Without(dated, k)}
                    ELSE {With(dated, k, d), With(Without(dated, k), k, d)}
  /\ UNCHANGED saved

Forget(gone) ==
  /\ entries' = SelectSeq(entries, LAMBDA e : e.key \notin gone)
  /\ dated' = SelectSeq(dated, LAMBDA e : e.key \notin gone)
  /\ UNCHANGED saved

Begin ==
  /\ saved' = Append(saved, <<entries, dated>>)
  /\ UNCHANGED <<entries, dated>>

Commit ==
  /\ saved # <<>>
  /\ saved' = Front(saved)
  /\ UNCHANGED <<entries, dated>>

Rollback ==
  /\ saved # <<>>
  /\ <<entries', dated'>> = Last(saved)
  /\ saved' = Front(saved)

Next ==
  \/ \E k \in Key, e \in Entry : Put(k, e)
  \/ \E gone \in SUBSET Key : Forget(gone)
  \/ Begin \/ Commit \/ Rollback

Spec == Init /\ [][Next]_vars

=============================================================================
