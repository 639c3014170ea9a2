--------------------------- MODULE OptimisticStore ---------------------------
(***************************************************************************)
(* What a store with WATCH and EXEC promises, said without versions,       *)
(* clocks or memory limits.  Anyone may change the store at any time.  A   *)
(* session commits only while none of the keys it watches has changed      *)
(* since it watched it, an aborted attempt writes nothing of its own, and  *)
(* a failed one leaves the store as it was.                                *)
(***************************************************************************)
CONSTANTS Key, Session, Content

VARIABLES
  store,     \* [Key -> Content]
  watching,  \* the keys each session watches
  stale,     \* those of them that changed since they were watched
  outcome    \* how the latest attempt of each session stands

vars == <<store, watching, stale, outcome>>

Outcomes == {"open", "committed", "aborted", "failed", "discarded"}

Init ==
  /\ store \in [Key -> Content]
  /\ watching = [s \in Session |-> {}]
  /\ stale = [s \in Session |-> {}]
  /\ outcome = [s \in Session |-> "discarded"]

Touched == {k \in Key : store'[k] # store[k]}

(* The sessions in S learn which of the keys they watch were touched.      *)
Spoil(S) == \A s \in S : stale'[s] = stale[s] \cup (Touched \cap watching[s])

(* Session s no longer watches anything and its attempt ends as o.         *)
Finish(s, o) ==
  /\ outcome[s] = "open"
  /\ outcome' = [outcome EXCEPT ![s] = o]
  /\ watching' = [watching EXCEPT ![s] = {}]
  /\ stale'[s] = {}
  /\ Spoil(Session \ {s})

-----------------------------------------------------------------------------
Change ==
  /\ store' \in [Key -> Content]
  /\ stale' \in [Session -> SUBSET Key]
  /\ Spoil(Session)
  /\ UNCHANGED <<watching, outcome>>

Begin(s) ==
  /\ outcome[s] # "open"
  /\ outcome' = [outcome EXCEPT ![s] = "open"]
  /\ UNCHANGED <<store, watching, stale>>

(* Looking at k may find that it has just vanished; for s that is the      *)
(* state it watches from now on.                                           *)
Watch(s, k) ==
  /\ outcome[s] = "open"
  /\ store' \in [Key -> Content]
  /\ stale' \in [Session -> SUBSET Key]
  /\ Touched \subseteq {k}
  /\ watching' = [watching EXCEPT ![s] = @ \cup {k}]
  /\ stale'[s] = stale[s] \ {k}
  /\ Spoil(Session \ {s})
  /\ UNCHANGED outcome

Unwatch(s) ==
  /\ outcome[s] = "open"
  /\ watching' = [watching EXCEPT ![s] = {}]
  /\ stale' = [stale EXCEPT ![s] = {}]
  /\ UNCHANGED <<store, outcome>>

Commit(s) ==
  /\ stale[s] = {}
  /\ store' \in [Key -> Content]
  /\ stale' \in [Session -> SUBSET Key]
  /\ Finish(s, "committed")

(* An abort may be needless, but what it touches it was watching.          *)
Abort(s) ==
  /\ store' \in [Key -> Content]
  /\ stale' \in [Session -> SUBSET Key]
  /\ Touched \subseteq watching[s]
  /\ Finish(s, "aborted")

Fail(s) ==
  /\ stale[s] = {}
  /\ UNCHANGED store
  /\ stale' \in [Session -> SUBSET Key]
  /\ Finish(s, "failed")

Discard(s) ==
  /\ UNCHANGED store
  /\ stale' \in [Session -> SUBSET Key]
  /\ Finish(s, "discarded")

Next ==
  \/ Change
  \/ \E s \in Session :
       \/ Begin(s) \/ Unwatch(s) \/ Commit(s) \/ Abort(s) \/ Fail(s)
       \/ Discard(s)
       \/ \E k \in Key : Watch(s, k)

Spec == Init /\ [][Next]_vars

=============================================================================
