----------------------------- MODULE ExpiryIndex -----------------------------
(***************************************************************************)
(* The maps `map` and `expiring` of KVCache (src/cache.ts), the nested     *)
(* frames of atomic(), and the background sweeper with its cursor.         *)
(*                                                                         *)
(* `map` calls back into `expiring` on every change, but not on a          *)
(* rollback: each map undoes its own journal.  An iterator that stays open  *)
(* from tick to tick holds the link it will visit next, which may be gone  *)
(* from the map by then.                                                   *)
(*                                                                         *)
(* `beat` is 0 unless the last step was a tick of the sweeper, and differs *)
(* from one tick to the next: it lets formulas speak of the timer.         *)
(* Two history variables: `shown`, what iterating over each of the maps    *)
(* would give, and `copies`, what it was when each open frame began.       *)
(***************************************************************************)
EXTENDS OrderedMap

CONSTANTS
  Entry,          \* records with a value and expiresAt, a time or None
  MaxDepth,       \* bound on the nesting of atomic()
  MaxUndo,        \* bound on the length of a journal
  MaxTime,        \* bound on the clock
  SweepKeys       \* maxKeys of sweepBudget

ASSUME ExpiryAssumption ==
  /\ {MaxDepth, MaxUndo, MaxTime, SweepKeys} \subseteq Nat
  /\ \A e \in Entry : e.expiresAt \in Nat \cup {None}

VARIABLES map, expiring, cursor, now, beat, shown, copies

vars == <<map, expiring, cursor, now, beat, shown, copies>>

NoCursor == [open |-> FALSE, at |-> None]

Init ==
  /\ map = EmptyMap
  /\ expiring = EmptyMap
  /\ cursor = NoCursor
  /\ now = 0
  /\ beat = 0
  /\ shown = <<<<>>, <<>>>>
  /\ copies = <<>>

(* The links of `expiring` an open iterator can still reach.               *)
Held(e, c) == ToSet(ChainFrom(e, c.at))

(* The two maps as one value, for the operations that change both.         *)
Maps == [map |-> map, expiring |-> expiring]

(* Mistake: an entry that loses its deadline keeps its place in the index. *)
ChangedUnlessPersisted(s, k, d) ==
  IF d = None THEN [s EXCEPT !.expiring = @]
  ELSE [s EXCEPT !.expiring = SetItem(@, k, d, Held(expiring, cursor))]

(* The callback of `map`; d is the deadline of the new entry, if it has    *)
(* one and if there is an entry.                                           *)
Changed(s, k, d) ==
  IF d = None THEN [s EXCEPT !.expiring = Delete(@, k)]
  ELSE [s EXCEPT !.expiring = SetItem(@, k, d, Held(expiring, cursor))]

MapSet(s, k, e) ==
  Changed([s EXCEPT !.map = SetItem(@, k, e, {})], k, e.expiresAt)

MapDelete(s, k) ==
  IF HasKey(s.map, k)
  THEN Changed([s EXCEPT !.map = Delete(@, k)], k, None)
  ELSE s

Deadline(s, k) ==
  IF HasKey(s.map, k) THEN ItemOf(s.map, k).expiresAt ELSE None

Expired(s, k) == Deadline(s, k) # None /\ Deadline(s, k) <= now

Settle(s, c) ==
  /\ Len(s.map.undo) <= MaxUndo /\ Len(s.expiring.undo) <= MaxUndo
  /\ Unused(s.map, {}) # {} /\ Unused(s.expiring, Held(s.expiring, c)) # {}
  /\ map' = Collected(s.map, {})
  /\ expiring' = Collected(s.expiring, Held(s.expiring, c))
  /\ cursor' = c
  /\ shown' = <<Entries(s.map), Entries(s.expiring)>>

Become(s, c) == Settle(s, c) /\ beat' = 0 /\ UNCHANGED copies

-----------------------------------------------------------------------------
(* Every write of KVCache deletes the entry there was and sets the new one *)
(* if it has not expired by then.                                          *)
Relink(k, e) ==
  /\ e.expiresAt # None => e.expiresAt > now
  /\ Become(MapSet(MapDelete(Maps, k), k, e), cursor)
  /\ UNCHANGED now

(* incr() looks at the clock a second time, and overwrites in place an     *)
(* entry that ran out since the first time.                                *)
Overwrite(k, e) ==
  /\ Deadline(Maps, k) # None /\ now < Deadline(Maps, k)
  /\ e.expiresAt = Deadline(Maps, k) /\ e.expiresAt <= MaxTime
  /\ Become(MapSet(Maps, k, e), cursor)
  /\ now' = e.expiresAt

Forget(k) ==
  HasKey(map, k) /\ Become(MapDelete(Maps, k), cursor) /\ UNCHANGED now

Clear ==
  /\ Become(FoldLeft(LAMBDA s, e : MapDelete(s, e.key), Maps, shown[1]),
         cursor)
  /\ UNCHANGED now

SweepAll ==
  /\ Become(FoldLeft(LAMBDA s, e : IF Expired(s, e.key) THEN MapDelete(s, e.key)
                                ELSE s,
                  Maps, shown[2]), cursor)
  /\ UNCHANGED now

(* atomic(): frames open and close on both maps at once.                   *)
BeginAtomic ==
  /\ Len(map.frames) < MaxDepth
  /\ Settle([map |-> Begin(map), expiring |-> Begin(expiring)], cursor)
  /\ beat' = 0
  /\ copies' = Append(copies, shown)
  /\ UNCHANGED now

CommitAtomic ==
  /\ map.frames # <<>>
  /\ Settle([map |-> Commit(map), expiring |-> Commit(expiring)], cursor)
  /\ beat' = 0
  /\ copies' = Front(copies)
  /\ UNCHANGED now

(* Mistake: only `map` is rolled back.                                     *)
RollbackMapOnly ==
  /\ map.frames # <<>>
  /\ Settle([map |-> Rollback(map), expiring |-> Commit(expiring)], NoCursor)
  /\ beat' = 0
  /\ copies' = Front(copies)
  /\ UNCHANGED now

RollbackAtomic ==
  /\ map.frames # <<>>
  /\ Settle([map |-> Rollback(map), expiring |-> Rollback(expiring)], NoCursor)
  /\ beat' = 0
  /\ copies' = Front(copies)
  /\ UNCHANGED now

(* Mistake: the iterator is kept when it has come to the end.              *)
VisitKeepingCursor(v) ==
  IF v.cursor.at = None THEN v
  ELSE LET x == v.maps.expiring.node[v.cursor.at]
       IN  [maps   |-> IF Expired(v.maps, x.key)
                       THEN MapDelete(v.maps, x.key) ELSE v.maps,
            cursor |-> [open |-> TRUE, at |-> x.next]]

(* One visit of the sweeper.  The iterator moves on before the entry it    *)
(* yields is looked at; at the end of the list it is dropped.              *)
Visit(v) ==
  IF ~ v.cursor.open THEN v
  ELSE IF v.cursor.at = None THEN [v EXCEPT !.cursor = NoCursor]
  ELSE LET x == v.maps.expiring.node[v.cursor.at]
       IN  [maps   |-> IF Expired(v.maps, x.key)
                       THEN MapDelete(v.maps, x.key) ELSE v.maps,
            cursor |-> [open |-> TRUE, at |-> x.next]]

Opened ==
  IF cursor.open THEN cursor ELSE [open |-> TRUE, at |-> expiring.first]

(* sweepBudget(), run by a timer, never within an atomic call.  It looks   *)
(* at one entry at least and stops when its time is up.                    *)
SweepTick ==
  /\ map.frames = <<>>
  /\ \E seen \in 1 .. SweepKeys :
       \E end \in {FoldLeft(LAMBDA v, i : Visit(v),
                            [maps |-> Maps, cursor |-> Opened],
                            [i \in 1 .. seen |-> i])} :
         Settle(end.maps, end.cursor)
  /\ beat' = IF beat = 1 THEN 2 ELSE 1
  /\ UNCHANGED <<now, copies>>

Tick ==
  /\ now < MaxTime
  /\ now' = now + 1
  /\ beat' = 0
  /\ UNCHANGED <<map, expiring, cursor, shown, copies>>

Next ==
  \/ \E k \in Key, e \in Entry : Relink(k, e) \/ Overwrite(k, e)
  \/ \E k \in Key : Forget(k)
  \/ Clear \/ SweepAll
  \/ BeginAtomic \/ CommitAtomic \/ RollbackAtomic
  \/ SweepTick \/ Tick

Spec == Init /\ [][Next]_vars

(* The interval timer fires again and again while the process runs.        *)
TimerFires == []<><<beat' # beat /\ beat' # 0>>_beat

FairSpec == Spec /\ TimerFires

-----------------------------------------------------------------------------
TypeOK ==
  /\ map \in MapRecord(Entry)
  /\ expiring \in MapRecord(Nat)
  /\ cursor \in [open : BOOLEAN, at : LinkOrNone]
  /\ now \in 0 .. MaxTime
  /\ beat \in 0 .. 2
  /\ Len(copies) = Len(map.frames)

(* Both lists are whole after any deletions, re-insertions and rollbacks,  *)
(* and no journal is kept when no frame is open.                           *)
ListsWhole ==
  /\ WellLinked(map) /\ WellLinked(expiring)
  /\ Len(map.frames) = Len(expiring.frames)
  /\ map.frames = <<>> => map.undo = <<>> /\ expiring.undo = <<>>

(* The index holds exactly the entries with a deadline, each with the      *)
(* deadline of the entry, whatever was undone.                             *)
IndexMirrors ==
  ToSet(shown[2]) =
    {[key |-> x.key, value |-> x.value.expiresAt] :
       x \in {y \in ToSet(shown[1]) : y.value.expiresAt # None}}

(* Journals over linked lists behave as saved copies do.                   *)
Abstract == INSTANCE SavedCopies WITH
  entries <- shown[1],
  dated   <- shown[2],
  saved   <- copies

RollbackRestores == Abstract!Spec

(* Once nothing else runs, the sweeper removes every entry whose deadline  *)
(* has passed, wherever its cursor had stopped, removed links included.    *)
SweptInTheEnd ==
  <>[](beat # 0) => \A k \in Key : <>[](~ Expired(Maps, k))

=============================================================================
