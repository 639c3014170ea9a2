----------------------------- MODULE OrderedMap ------------------------------
(***************************************************************************)
(* OrderedMap (src/ordered-map.ts) as functions on a record of its fields. *)
(*   node    the Link objects, by identity; Free where there is none       *)
(*   index   `nodes`: the link of each key                                 *)
(*   first, last, frames   the fields of the same name                     *)
(*   undo    the closures, as records of what they captured                *)
(* A link that was taken out keeps its neighbours of that time: closures   *)
(* and iterators still hold it.                                            *)
(***************************************************************************)
EXTENDS Naturals, SequencesExt

CONSTANTS
  Key,
  MaxLinks,       \* bound on the Link objects that are held at a time
  None            \* `undefined`

ASSUME MapAssumption == MaxLinks \in Nat /\ None \notin Nat

(* Identities of Link objects.                                             *)
Link == 1 .. MaxLinks

Free == [key |-> None, value |-> None, prev |-> None, next |-> None]

EmptyMap ==
  [node |-> [l \in Link |-> Free], index |-> [k \in Key |-> None],
   first |-> None, last |-> None, undo |-> <<>>, frames |-> <<>>]

LinkOrNone == Link \cup {None}

Closure(Item) ==
  [do : {"restore"}, link : Link, value : Item] \cup
  [do : {"unlink"}, link : Link] \cup
  [do : {"relink"}, link : Link, prev : LinkOrNone, next : LinkOrNone]

MapRecord(Item) ==
  [node : [Link -> [key : Key, value : Item, prev : LinkOrNone,
                    next : LinkOrNone] \cup {Free}],
   index : [Key -> LinkOrNone], first : LinkOrNone, last : LinkOrNone,
   undo : Seq(Closure(Item)), frames : Seq(Nat)]

HasKey(m, k) == m.index[k] # None

ItemOf(m, k) == IF HasKey(m, k) THEN m.node[m.index[k]].value ELSE None

-----------------------------------------------------------------------------
(* Links.                                                                  *)

SetNext(m, l, to) ==
  IF l = None THEN [m EXCEPT !.first = to]
  ELSE [m EXCEPT !.node = [@ EXCEPT ![l].next = to]]

SetPrev(m, l, to) ==
  IF l = None THEN [m EXCEPT !.last = to]
  ELSE [m EXCEPT !.node = [@ EXCEPT ![l].prev = to]]

(* Mistake: the neighbour after the link keeps pointing back to it.        *)
UnlinkForwardOnly(m, l) ==
  LET x == m.node[l]
  IN  [SetNext(m, x.prev, x.next) EXCEPT !.index = [@ EXCEPT ![x.key] = None]]

Unlink(m, l) ==
  LET x == m.node[l]
  IN  [SetPrev(SetNext(m, x.prev, x.next), x.next, x.prev) EXCEPT
         !.index = [@ EXCEPT ![x.key] = None]]

LinkBetween(m, l, p, n) ==
  LET placed == [m EXCEPT !.node = [@ EXCEPT ![l].prev = p, ![l].next = n]]
  IN  [SetPrev(SetNext(placed, p, l), n, l) EXCEPT
         !.index = [@ EXCEPT ![m.node[l].key] = l]]

Noted(m, closure) ==
  IF m.frames = <<>> THEN m ELSE [m EXCEPT !.undo = Append(@, closure)]

(* The links some closure needs.                                           *)
Captured(m) ==
  UNION {CASE m.undo[i].do = "relink" ->
                {m.undo[i].link, m.undo[i].prev, m.undo[i].next} \ {None}
           [] OTHER -> {m.undo[i].link} : i \in DOMAIN m.undo}

Linked(m) == {m.index[k] : k \in Key} \ {None}

(* A new object is none that is linked, captured or held elsewhere.        *)
Unused(m, held) == Link \ (Linked(m) \cup Captured(m) \cup held)

NewLink(m, held) ==
  CHOOSE l \in Unused(m, held) : \A o \in Unused(m, held) : l <= o

-----------------------------------------------------------------------------
(* The methods.                                                            *)

SetItem(m, k, v, held) ==
  IF HasKey(m, k)
  THEN LET l == m.index[k]
       IN  [Noted(m, [do |-> "restore", link |-> l, value |-> m.node[l].value])
              EXCEPT !.node = [@ EXCEPT ![l].value = v]]
  ELSE LET l == NewLink(m, held)
           made == [m EXCEPT !.node = [@ EXCEPT ![l] = [Free EXCEPT
                      !.key = k, !.value = v]]]
       IN  Noted(LinkBetween(made, l, m.last, None),
                 [do |-> "unlink", link |-> l])

Delete(m, k) ==
  IF HasKey(m, k)
  THEN LET l == m.index[k]
       IN  Unlink(Noted(m, [do |-> "relink", link |-> l,
                            prev |-> m.node[l].prev, next |-> m.node[l].next]),
                  l)
  ELSE m

(* Mistake: an inner frame takes the place of the outer one.               *)
BeginFlat(m) == [m EXCEPT !.frames = <<Len(m.undo)>>]

Begin(m) == [m EXCEPT !.frames = Append(@, Len(m.undo))]

(* Mistake: the journal is dropped when an inner frame ends.               *)
CommitDropping(m) == [m EXCEPT !.frames = Front(@), !.undo = <<>>]

Commit(m) ==
  [m EXCEPT !.frames = Front(@),
            !.undo = IF Len(m.frames) = 1 THEN <<>> ELSE @]

UndoOne(m, closure) ==
  CASE closure.do = "restore" ->
         [m EXCEPT !.node = [@ EXCEPT ![closure.link].value = closure.value]]
    [] closure.do = "unlink" -> Unlink(m, closure.link)
    [] closure.do = "relink" ->
         LinkBetween(m, closure.link, closure.prev, closure.next)

(* Mistake: the closures run from the oldest to the newest.                *)
RollbackForwards(m) ==
  LET start  == Last(m.frames)
      undone == FoldLeft(UndoOne, m, SubSeq(m.undo, start + 1, Len(m.undo)))
  IN  [undone EXCEPT !.undo = SubSeq(@, 1, start), !.frames = Front(@)]

Rollback(m) ==
  LET start  == Last(m.frames)
      undone == FoldLeft(UndoOne, m,
                         Reverse(SubSeq(m.undo, start + 1, Len(m.undo))))
  IN  [undone EXCEPT !.undo = SubSeq(@, 1, start), !.frames = Front(@)]

-----------------------------------------------------------------------------
(* Reading.                                                                *)

(* The links met from l on, following `next`.                              *)
ChainFrom(m, l) ==
  LET chain[n \in 0 .. MaxLinks] ==
        IF n = 0 THEN <<>>
        ELSE LET s  == chain[n - 1]
                 at == IF s = <<>> THEN l ELSE m.node[Last(s)].next
             IN  IF at = None THEN s ELSE Append(s, at)
  IN  chain[MaxLinks]

(* entries(): keys and values in order.                                    *)
Entries(m) ==
  LET chain == ChainFrom(m, m.first)
  IN  [i \in DOMAIN chain |-> [key   |-> m.node[chain[i]].key,
                               value |-> m.node[chain[i]].value]]

(* Links nobody can reach any more are Free, so that states that differ in *)
(* garbage only are the same.                                              *)
Collected(m, held) ==
  LET unused == Unused(m, held)
  IN  [m EXCEPT !.node = [l \in Link |-> IF l \in unused THEN Free ELSE @[l]]]

(* Both directions of the list and the index name the same links.          *)
WellLinked(m) ==
  LET chain == ChainFrom(m, m.first)
  IN  /\ ToSet(chain) = Linked(m) /\ IsInjective(chain)
      /\ \A k \in Key : HasKey(m, k) => m.node[m.index[k]].key = k
      /\ \A i \in DOMAIN chain :
           m.node[chain[i]].prev = IF i = 1 THEN None ELSE chain[i - 1]
      /\ m.last = IF chain = <<>> THEN None ELSE Last(chain)

=============================================================================
