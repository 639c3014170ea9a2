-------------------------- MODULE ConnectionProofs --------------------------
(***************************************************************************)
(* What the callbacks of Connections and the turns of Server do to the     *)
(* memory account, for every value of the constants: whatever is written,  *)
(* cut off, ended or answered, the account of a connection is right again  *)
(* when the callback returns, and the sum of all accounts is the budget    *)
(* in use.  The same for what a step answers, for who waits, and for who   *)
(* listens in the hub.  ServerProofs puts the steps of the server          *)
(* together.                                                               *)
(***************************************************************************)
EXTENDS Server, SequenceFacts

-----------------------------------------------------------------------------
(* Types.                                                                  *)

Announcement ==
  [event : {"set", "del", "expire", "persist"}, key : Key] \cup
  [event : {"clear"}, prefix : Namespace] \cup
  [event : {"load"}]

ReplyKind ==
  {"ok", "error", "nil", "array", "failed", "subscribed", "unsubscribed"}

Chunk ==
  [kind : ReplyKind, re : Nat] \cup
  [kind : {"message"}, channel : Channel, event : Announcement \cup {"note"}]

WatchTable == UNION {[S -> Nat] : S \in SUBSET Key}

Subscriptions == {S \in SUBSET Channel : IsFiniteSet(S)}

ConnRecord ==
  [socket : {"none", "open", "ended", "destroyed", "gone"},
   arrived : Nat, taken : Nat, active : {0, 1},
   loop : {"idle", "running", "waiting"}, authed : BOOLEAN,
   multi : BOOLEAN, tx : Seq(Command), txFailed : BOOLEAN,
   watch : WatchTable, subs : Subscriptions, subMode : BOOLEAN,
   out : Seq(Chunk), wire : Seq(Chunk), received : Seq(Chunk),
   pressed : BOOLEAN, ending : BOOLEAN, closed : BOOLEAN, accounted : Nat]

NetRecord ==
  [conn : [Conn -> ConnRecord], inflight : Int, hub : [Channel -> Seq(Conn)]]

Edit(n, c, k) == [n EXCEPT !.conn[c] = k]

LEMMA Limits ==
  /\ HighWater \in Nat \ {0} /\ MaxPending \in Nat \ {0}
  /\ MaxInflight \in Nat \ {0} /\ IsFiniteSet(Conn)
BY ConnectionsAssumption

LEMMA EditType ==
  ASSUME NEW n \in NetRecord, NEW c \in Conn, NEW k \in ConnRecord
  PROVE  /\ Edit(n, c, k) \in NetRecord
         /\ Edit(n, c, k).conn[c] = k
         /\ Edit(n, c, k).inflight = n.inflight
         /\ Edit(n, c, k).hub = n.hub
         /\ \A d \in Conn : d # c => Edit(n, c, k).conn[d] = n.conn[d]
BY DEF NetRecord, Edit

LEMMA ConnType ==
  ASSUME NEW n \in NetRecord, NEW c \in Conn
  PROVE  n.conn[c] \in ConnRecord
BY DEF NetRecord

LEMMA FiniteWatch ==
  ASSUME NEW w \in WatchTable
  PROVE  /\ IsFiniteSet(DOMAIN w) /\ Cardinality(DOMAIN w) \in Nat
         /\ DOMAIN w \subseteq Key /\ w \in [DOMAIN w -> Nat]
<1>1. PICK S \in SUBSET Key : w \in [S -> Nat]
  BY DEF WatchTable
<1>2. DOMAIN w = S
  BY <1>1
<1>3. IsFiniteSet(S)
  BY ServerAssumption, FS_Subset
<1>4. QED
  BY <1>1, <1>2, <1>3, FS_CardinalityType

LEMMA NoWatch ==
  ASSUME NEW w, w = <<>>
  PROVE  w \in WatchTable /\ Cardinality(DOMAIN w) = 0
<1>1. DOMAIN w = {} /\ w \in [{} -> Nat]
  OBVIOUS
<1>2. w \in WatchTable
  BY <1>1 DEF WatchTable
<1>3. QED
  BY <1>1, <1>2, FS_EmptySet

(* What a connection holds, whoever asks.                                  *)
Weight(k) ==
  Len(k.tx) + Cardinality(DOMAIN k.watch) + Cardinality(k.subs) + Pending(k)

LEMMA HeldType ==
  ASSUME NEW k \in ConnRecord
  PROVE  /\ Pending(k) \in Nat /\ Weight(k) \in Nat
         /\ Held(k) = (k.arrived - k.taken) + k.active + Weight(k)
         /\ Held(k) \in Int
         /\ k.taken <= k.arrived => Held(k) \in Nat
<1>1. /\ k.tx \in Seq(Command) /\ k.out \in Seq(Chunk) /\ k.wire \in Seq(Chunk)
      /\ k.arrived \in Nat /\ k.taken \in Nat /\ k.active \in Nat
      /\ k.watch \in WatchTable /\ k.subs \in Subscriptions
  BY DEF ConnRecord
<1>2. Pending(k) \in Nat
  <2>1. PICK o : o = k.out
    OBVIOUS
  <2>2. PICK r : r = k.wire
    OBVIOUS
  <2>3. Len(o) \in Nat /\ Len(r) \in Nat
    BY <1>1, <2>1, <2>2
  <2>4. Pending(k) = Len(o) + Len(r)
    BY <2>1, <2>2, Zenon DEF Pending
  <2>5. QED
    BY <2>3, <2>4
<1>3. PICK p \in Nat : p = Pending(k)
  BY <1>2
<1>4. PICK t \in Nat : t = Len(k.tx)
  BY <1>1
<1>5. PICK w \in Nat : w = Cardinality(DOMAIN k.watch)
  BY <1>1, FiniteWatch
<1>6. PICK s \in Nat : s = Cardinality(k.subs)
  BY <1>1, FS_CardinalityType DEF Subscriptions
<1>7. PICK a \in Int : a = k.arrived - k.taken
  BY <1>1
<1>8. k.taken <= k.arrived => a \in Nat
  BY <1>1, <1>7
<1>9. PICK b \in Nat : b = k.active
  BY <1>1
<1>10. Held(k) = a + b + t + w + s + p
  BY <1>3, <1>4, <1>5, <1>6, <1>7, <1>9 DEF Held
<1>11. Weight(k) = t + w + s + p
  BY <1>3, <1>4, <1>5, <1>6 DEF Weight
<1>12. /\ Weight(k) \in Nat /\ Held(k) = a + b + Weight(k)
       /\ Held(k) \in Int /\ (a \in Nat => Held(k) \in Nat)
  BY <1>10, <1>11
<1>13. QED
  BY <1>2, <1>7, <1>8, <1>9, <1>12

-----------------------------------------------------------------------------
(* The account of all connections.                                         *)

Total(n) == MapThenSumSet(LAMBDA c : n.conn[c].accounted, Conn)

AccountedOp(n, c, d) == n.conn[c].accounted
Accounts == INSTANCE FoldTheorems WITH Op <- AccountedOp

LEMMA TotalIsSum ==
  ASSUME NEW n
  PROVE  Total(n) = Accounts!Summed(n, Conn)
BY Zenon DEF Total, AccountedOp, Accounts!Summed, MapThenSumSet, Accounts!MapThenFoldSet, MapThenFoldSet

LEMMA AccountsFinite ==
  ASSUME NEW S \in SUBSET Conn
  PROVE  IsFiniteSet(S) /\ Accounts!IsFiniteSet(S)
<1>1. IsFiniteSet(S)
  BY Limits, FS_Subset
<1>2. QED
  BY <1>1, Zenon DEF IsFiniteSet, Accounts!IsFiniteSet

LEMMA AccountedType ==
  ASSUME NEW n \in NetRecord, NEW c \in Conn
  PROVE  /\ n.conn[c].accounted \in Nat
         /\ AccountedOp(n, c, c) = n.conn[c].accounted
BY ConnType DEF ConnRecord, AccountedOp

LEMMA TotalType ==
  ASSUME NEW n \in NetRecord
  PROVE  /\ Total(n) \in Nat
         /\ \A c \in Conn : n.conn[c].accounted <= Total(n)
<1>1. \A c \in Conn : AccountedOp(n, c, c) \in Nat
  BY AccountedType
<1>2. /\ Accounts!Summed(n, Conn) \in Nat
      /\ \A c \in Conn : AccountedOp(n, c, c) <= Accounts!Summed(n, Conn)
  BY <1>1, AccountsFinite, Accounts!SumOfNaturals
<1>3. QED
  BY <1>2, TotalIsSum, AccountedType

LEMMA TotalOfSame ==
  ASSUME NEW n \in NetRecord, NEW m \in NetRecord,
         \A c \in Conn : m.conn[c].accounted = n.conn[c].accounted
  PROVE  Total(m) = Total(n)
<1>1. \A c \in Conn : AccountedOp(m, c, c) = AccountedOp(n, c, c)
  BY DEF AccountedOp
<1>2. Accounts!Summed(m, Conn) = Accounts!Summed(n, Conn)
  BY <1>1, AccountsFinite, Accounts!SumOfSame
<1>3. QED
  BY <1>2, TotalIsSum

(* Only the account of c differs.                                          *)
LEMMA TotalOfOther ==
  ASSUME NEW n \in NetRecord, NEW m \in NetRecord, NEW c \in Conn,
         \A d \in Conn : d # c => m.conn[d].accounted = n.conn[d].accounted
  PROVE  Total(m) = Total(n) - n.conn[c].accounted + m.conn[c].accounted
<1>1. PICK S : S = Conn \ {c}
  OBVIOUS
<1>2. S \in SUBSET Conn
  BY <1>1
<1>3. \A d \in S : AccountedOp(m, d, d) = AccountedOp(n, d, d)
  BY <1>1 DEF AccountedOp
<1>4. Accounts!Summed(m, S) = Accounts!Summed(n, S)
  BY <1>2, <1>3, AccountsFinite, Accounts!SumOfSame
<1>5. \A d \in Conn : AccountedOp(n, d, d) \in Int /\ AccountedOp(m, d, d) \in Int
  BY AccountedType
<1>6. /\ Accounts!Summed(n, Conn) = AccountedOp(n, c, c) + Accounts!Summed(n, S)
      /\ Accounts!Summed(m, Conn) = AccountedOp(m, c, c) + Accounts!Summed(m, S)
  BY <1>1, <1>5, AccountsFinite, Accounts!SumOfRest
<1>7. Accounts!Summed(n, S) \in Int
  BY <1>2, <1>5, AccountsFinite, Accounts!SumOfRest
<1>8. QED
  BY <1>4, <1>6, <1>7, TotalIsSum, AccountedType

-----------------------------------------------------------------------------
(* Between two callbacks every account is up to date.  Within one, those   *)
(* of the connections in S need not be.                                    *)

(* What holds of a connection at any time.  One that is closed but still   *)
(* there holds no more than it is accounted for, so that bringing its      *)
(* account up to date cannot fail; that is why one that is ending must     *)
(* have output to wait for.                                                *)
Decent(k) ==
  /\ k.taken <= k.arrived
  /\ Pending(k) <= MaxPending
  /\ k.socket = "none" => k.accounted = 0
  /\ k.socket \in {"none", "gone"} => k.closed
  /\ k.ending /\ ~ k.closed => k.pressed \/ k.out # <<>>
  /\ k.closed /\ ~ Unreachable(k) => Held(k) <= k.accounted

UpToDate(k) == Unreachable(k) \/ k.accounted = Held(k)

(* No more requests arrive than the client sends.                          *)
Asked(c) == Len(plan.script[c])

Loose(S) ==
  {n \in NetRecord :
     /\ n.inflight = Total(n)
     /\ n.inflight <= MaxInflight
     /\ \A c \in Conn : /\ Decent(n.conn[c])
                        /\ n.conn[c].arrived <= Asked(c)
                        /\ c \notin S => UpToDate(n.conn[c])}

Exact == Loose({})

LEMMA LooseType ==
  ASSUME NEW S, NEW n \in Loose(S)
  PROVE  /\ n \in NetRecord /\ n.inflight \in Nat
         /\ n.inflight = Total(n) /\ n.inflight <= MaxInflight
         /\ \A c \in Conn : /\ n.conn[c] \in ConnRecord
                            /\ Decent(n.conn[c])
                            /\ n.conn[c].arrived <= Asked(c)
                            /\ c \notin S => UpToDate(n.conn[c])
                            /\ n.conn[c].accounted <= n.inflight
BY TotalType, ConnType DEF Loose

LEMMA Looser ==
  ASSUME NEW S, NEW T, S \subseteq T
  PROVE  Loose(S) \subseteq Loose(T)
BY DEF Loose

(* One connection changes, but not its account.                            *)
LEMMA EditLoose ==
  ASSUME NEW S, NEW T, NEW n \in Loose(S), NEW c \in Conn,
         NEW k \in ConnRecord, k.accounted = n.conn[c].accounted, Decent(k),
         k.arrived <= Asked(c),
         c \notin T => UpToDate(k), S \subseteq T \cup {c}
  PROVE  Edit(n, c, k) \in Loose(T)
<1>1. PICK m : m = Edit(n, c, k)
  OBVIOUS
<1>2. n \in NetRecord
  BY LooseType
<1>3. /\ m \in NetRecord /\ m.conn[c] = k /\ m.inflight = n.inflight
      /\ \A d \in Conn : d # c => m.conn[d] = n.conn[d]
  BY <1>1, <1>2, EditType
<1>4. \A d \in Conn : m.conn[d].accounted = n.conn[d].accounted
  BY <1>3
<1>5. Total(m) = Total(n)
  BY <1>2, <1>3, <1>4, TotalOfSame
<1>6. \A d \in Conn : /\ Decent(m.conn[d]) /\ m.conn[d].arrived <= Asked(d)
                     /\ d \notin T => UpToDate(m.conn[d])
  BY <1>3, LooseType
<1>7. QED
  BY <1>1, <1>3, <1>5, <1>6, LooseType DEF Loose

LEMMA SameParts ==
  ASSUME NEW k, NEW l, l.tx = k.tx, l.watch = k.watch, l.subs = k.subs,
         l.out = k.out, l.wire = k.wire
  PROVE  Weight(l) = Weight(k) /\ Pending(l) = Pending(k)
BY Zenon DEF Weight, Pending

(* Nothing but the account of c changes, and it is right afterwards.       *)
AccountAs(n, c, h) ==
  [n EXCEPT !.inflight = n.inflight - n.conn[c].accounted + h,
            !.conn[c].accounted = h]

LEMMA SettledLoose ==
  ASSUME NEW S, NEW n \in Loose(S), NEW c \in Conn,
         ~ Unreachable(n.conn[c]), NEW h, h = Held(n.conn[c]),
         n.inflight - n.conn[c].accounted + h <= MaxInflight,
         NEW m, m = AccountAs(n, c, h)
  PROVE  /\ m \in Loose(S \ {c})
         /\ m.conn[c] = [n.conn[c] EXCEPT !.accounted = h]
         /\ m.hub = n.hub
         /\ \A d \in Conn : d # c => m.conn[d] = n.conn[d]
<1>1. PICK k : k = n.conn[c]
  OBVIOUS
<1>2. k \in ConnRecord /\ Decent(k) /\ n \in NetRecord
  BY <1>1, LooseType
<1>3. h \in Nat
  BY <1>1, <1>2, HeldType DEF Decent
<1>4. PICK l : l = [k EXCEPT !.accounted = h]
  OBVIOUS
<1>5. /\ l \in ConnRecord /\ l.accounted = h
      /\ l.tx = k.tx /\ l.watch = k.watch /\ l.subs = k.subs
      /\ l.out = k.out /\ l.wire = k.wire /\ l.socket = k.socket
      /\ l.arrived = k.arrived /\ l.taken = k.taken /\ l.active = k.active
      /\ l.ending = k.ending /\ l.closed = k.closed /\ l.pressed = k.pressed
  BY <1>2, <1>3, <1>4 DEF ConnRecord
<1>6. PICK i \in Int : i = n.inflight - k.accounted + h
  BY <1>2, <1>3, SMTT(30) DEF NetRecord, ConnRecord
<1>7. m = [n EXCEPT !.inflight = i, !.conn[c].accounted = h]
  BY <1>1, <1>6 DEF AccountAs
<1>8. /\ m \in NetRecord /\ m.conn[c] = l /\ m.inflight = i
      /\ m.hub = n.hub
      /\ \A d \in Conn : d # c => m.conn[d] = n.conn[d]
  <2>1. PICK e : e = Edit(n, c, l)
    OBVIOUS
  <2>2. e \in NetRecord /\ e.conn[c] = l /\ e.hub = n.hub
        /\ \A d \in Conn : d # c => e.conn[d] = n.conn[d]
    BY <1>2, <1>5, <2>1, EditType
  <2>3. m = [e EXCEPT !.inflight = i]
    BY <1>1, <1>2, <1>4, <1>7, <2>1 DEF Edit, NetRecord
  <2>4. QED
    BY <2>1, <2>2, <2>3 DEF NetRecord
<1>9. Held(l) = h
  <2>1. Weight(l) = Weight(k)
    BY <1>5, SameParts
  <2>2. Held(l) = (l.arrived - l.taken) + l.active + Weight(l)
    BY <1>5, HeldType
  <2>3. Held(k) = (k.arrived - k.taken) + k.active + Weight(k)
    BY <1>2, HeldType
  <2>4. QED
    BY <1>1, <1>3, <1>5, <2>1, <2>2, <2>3
<1>10. UpToDate(l)
  BY <1>5, <1>9 DEF UpToDate
<1>11. Pending(l) = Pending(k)
  BY <1>5, SameParts
<1>12. Decent(l)
  BY <1>1, <1>2, <1>3, <1>5, <1>9, <1>11, Limits DEF Decent, Unreachable
<1>13. Total(m) = n.inflight - k.accounted + h
  <2>1. /\ n \in NetRecord /\ m \in NetRecord
        /\ \A d \in Conn : d # c => m.conn[d].accounted = n.conn[d].accounted
    BY <1>2, <1>8
  <2>2. Total(m) = Total(n) - n.conn[c].accounted + m.conn[c].accounted
    BY <2>1, TotalOfOther, Zenon
  <2>3. QED
    BY <1>1, <1>5, <1>6, <1>8, <2>2, LooseType
<1>14. m \in Loose(S \ {c})
  <2>1. i <= MaxInflight
    BY <1>1, <1>6
  <2>2. \A d \in Conn : /\ Decent(m.conn[d]) /\ m.conn[d].arrived <= Asked(d)
                        /\ d \notin S \ {c} => UpToDate(m.conn[d])
    BY <1>1, <1>5, <1>8, <1>10, <1>12, LooseType
  <2>3. QED
    BY <1>6, <1>8, <1>13, <2>1, <2>2 DEF Loose
<1>15. QED
  BY <1>1, <1>4, <1>8, <1>14

-----------------------------------------------------------------------------
(* Output, and what it leaves as it is: a connection is neither made nor   *)
(* forgotten by it.                                                        *)

SameTask(k, l) ==
  /\ l.arrived = k.arrived /\ l.taken = k.taken /\ l.active = k.active
  /\ l.loop = k.loop /\ l.authed = k.authed /\ l.multi = k.multi
  /\ l.tx = k.tx /\ l.txFailed = k.txFailed /\ l.watch = k.watch
  /\ l.subs = k.subs /\ l.subMode = k.subMode
  /\ l.socket = "none" <=> k.socket = "none"
  /\ l.socket = "gone" <=> k.socket = "gone"

Outputs(n) ==
  {m \in NetRecord : /\ m.hub = n.hub
                     /\ \A c \in Conn : SameTask(n.conn[c], m.conn[c])}

LEMMA OutputsReflexive ==
  ASSUME NEW n \in NetRecord
  PROVE  n \in Outputs(n)
BY DEF Outputs, SameTask

LEMMA OutputsTransitive ==
  ASSUME NEW n \in NetRecord, NEW m \in Outputs(n), NEW o \in Outputs(m)
  PROVE  o \in Outputs(n)
BY DEF Outputs, SameTask

LEMMA EditOutputs ==
  ASSUME NEW n \in NetRecord, NEW c \in Conn, NEW k \in ConnRecord,
         SameTask(n.conn[c], k)
  PROVE  Edit(n, c, k) \in Outputs(n)
<1>1. PICK m : m = Edit(n, c, k)
  OBVIOUS
<1>2. /\ m \in NetRecord /\ m.hub = n.hub /\ m.conn[c] = k
      /\ \A d \in Conn : d # c => m.conn[d] = n.conn[d]
  BY <1>1, EditType
<1>3. \A d \in Conn : SameTask(n.conn[d], m.conn[d])
  BY <1>2 DEF SameTask
<1>4. QED
  BY <1>1, <1>2, <1>3 DEF Outputs

LEMMA NoOutput ==
  ASSUME NEW s, s = <<>>
  PROVE  s \in Seq(Chunk) /\ Len(s) = 0
OBVIOUS

LEMMA PendingOf ==
  ASSUME NEW k, NEW o \in Seq(Chunk), NEW w \in Seq(Chunk),
         k.out = o, k.wire = w
  PROVE  Pending(k) = Len(o) + Len(w) /\ Pending(k) \in Nat
<1>1. Pending(k) = Len(o) + Len(w)
  BY Zenon DEF Pending
<1>2. QED
  BY <1>1

LEMMA WeightOf ==
  ASSUME NEW k \in ConnRecord, NEW l \in ConnRecord,
         l.tx = k.tx, l.watch = k.watch, l.subs = k.subs
  PROVE  Weight(l) = Weight(k) - Pending(k) + Pending(l)
<1>1. /\ k.tx \in Seq(Command)
      /\ k.watch \in WatchTable /\ k.subs \in Subscriptions
  BY DEF ConnRecord
<1>2. PICK t \in Nat : t = Len(k.tx)
  BY <1>1
<1>3. PICK w \in Nat : w = Cardinality(DOMAIN k.watch)
  BY <1>1, FiniteWatch
<1>4. PICK s \in Nat : s = Cardinality(k.subs)
  BY <1>1, FS_CardinalityType DEF Subscriptions
<1>5. PICK p \in Nat : p = Pending(k)
  BY HeldType
<1>6. PICK q \in Nat : q = Pending(l)
  BY HeldType
<1>7. Weight(k) = t + w + s + p
  BY <1>2, <1>3, <1>4, <1>5 DEF Weight
<1>8. Weight(l) = t + w + s + q
  BY <1>2, <1>3, <1>4, <1>6 DEF Weight
<1>9. QED
  BY <1>5, <1>6, <1>7, <1>8

(* disconnectSocket() of a connection that is not closed.                  *)
CutOff(k) ==
  [k EXCEPT !.closed = TRUE, !.ending = FALSE, !.socket = "destroyed",
            !.out = <<>>, !.wire = <<>>]

LEMMA CutOffType ==
  ASSUME NEW k \in ConnRecord, Decent(k), ~ k.closed
  PROVE  /\ CutOff(k) \in ConnRecord
         /\ CutOff(k).accounted = k.accounted
         /\ CutOff(k).socket = "destroyed"
         /\ Decent(CutOff(k)) /\ UpToDate(CutOff(k))
         /\ SameTask(k, CutOff(k))
<1>1. PICK none : none = <<>>
  OBVIOUS
<1>2. none \in Seq(Chunk) /\ Len(none) = 0
  BY <1>1, NoOutput
<1>3. PICK l : l = [k EXCEPT !.closed = TRUE, !.ending = FALSE,
                             !.socket = "destroyed",
                             !.out = none, !.wire = none]
  OBVIOUS
<1>4. /\ l \in ConnRecord /\ SameTask(k, l) /\ l.accounted = k.accounted
      /\ l.closed = TRUE /\ l.ending = FALSE /\ l.socket = "destroyed"
      /\ l.out = none /\ l.wire = none
  BY <1>2, <1>3 DEF ConnRecord, SameTask, Decent
<1>5. Pending(l) = 0
  <2>1. PICK z \in Nat : z = Len(none) /\ z = 0
    BY <1>2
  <2>2. Pending(l) = z + z
    BY <1>2, <1>4, <2>1, PendingOf
  <2>3. QED
    BY <2>1, <2>2
<1>6. Unreachable(l)
  BY <1>4 DEF Unreachable
<1>7. Decent(l) /\ UpToDate(l)
  BY <1>4, <1>5, <1>6, Limits DEF Decent, UpToDate, SameTask
<1>8. l = CutOff(k)
  BY <1>1, <1>3 DEF CutOff
<1>9. QED
  BY <1>4, <1>7, <1>8

LEMMA DisconnectLoose ==
  ASSUME NEW S, NEW n \in Loose(S), NEW c \in Conn
  PROVE  /\ Disconnect(n, c) \in Loose(S)
         /\ Disconnect(n, c) \in Outputs(n)
         /\ ~ n.conn[c].closed => Disconnect(n, c) \in Loose(S \ {c})
<1>1. n \in NetRecord /\ n.conn[c] \in ConnRecord /\ Decent(n.conn[c])
  BY LooseType
<1>2. CASE n.conn[c].closed
  BY <1>1, <1>2, OutputsReflexive DEF Disconnect
<1>3. CASE ~ n.conn[c].closed
  <2>1. PICK l : l = CutOff(n.conn[c])
    OBVIOUS
  <2>2. Disconnect(n, c) = Edit(n, c, l)
    BY <1>1, <1>3, <2>1 DEF Disconnect, Edit, CutOff
  <2>3. Edit(n, c, l) \in Outputs(n)
    BY <1>1, <1>3, <2>1, CutOffType, EditOutputs
  <2>4. Edit(n, c, l) \in Loose(S \ {c})
    <3>1. /\ l \in ConnRecord /\ l.accounted = n.conn[c].accounted
          /\ Decent(l) /\ UpToDate(l) /\ l.arrived <= Asked(c)
      BY <1>1, <1>3, <2>1, CutOffType, LooseType DEF SameTask
    <3>2. QED
      BY <3>1, EditLoose
  <2>5. Loose(S \ {c}) \subseteq Loose(S)
    BY Looser
  <2>6. QED
    BY <2>2, <2>3, <2>4, <2>5
<1>4. QED
  BY <1>2, <1>3

(* The account of c is up to date afterwards, or c has been cut off.       *)
LEMMA AccountSettles ==
  ASSUME NEW S, NEW n \in Loose(S), NEW c \in Conn, NEW extra \in Nat,
         NEW k, k = n.conn[c], extra = 0 \/ ~ k.closed,
         NEW a, a = Account(n, c, extra)
  PROVE  /\ a = [ok |-> a.ok, net |-> a.net] /\ a.ok \in BOOLEAN
         /\ a.net \in Loose(S \ {c}) /\ a.net \in Outputs(n)
         /\ a.ok => /\ ~ Unreachable(k)
                    /\ a.net.conn[c] = [k EXCEPT !.accounted = Held(k)]
<1>2. /\ n \in NetRecord /\ k \in ConnRecord /\ Decent(k)
      /\ n.inflight \in Nat /\ n.inflight <= MaxInflight
      /\ k.accounted \in Nat /\ k.accounted <= n.inflight
  BY LooseType DEF ConnRecord
<1>3. PICK h \in Nat : h = Held(k)
  BY <1>2, HeldType DEF Decent
<1>5. CASE Unreachable(k)
  <2>1. n \in Loose(S \ {c})
    BY <1>5 DEF Loose, UpToDate
  <2>2. a = [ok |-> FALSE, net |-> n]
    BY <1>5 DEF Account, No
  <2>3. QED
    BY <1>2, <2>1, <2>2, OutputsReflexive
<1>6. CASE ~ Unreachable(k) /\ n.inflight - k.accounted + h + extra > MaxInflight
  <2>1. ~ k.closed
    <3>1. SUFFICES ASSUME k.closed PROVE FALSE
      OBVIOUS
    <3>2. h <= k.accounted /\ extra = 0
      BY <1>2, <1>3, <1>6, <3>1 DEF Decent
    <3>3. QED
      BY <1>2, <1>3, <1>6, <3>2, Limits
  <2>2. a = [ok |-> FALSE, net |-> Disconnect(n, c)]
    BY <1>3, <1>6 DEF Account, No
  <2>3. QED
    BY <2>1, <2>2, DisconnectLoose
<1>7. CASE /\ ~ Unreachable(k)
           /\ ~ (n.inflight - k.accounted + h + extra > MaxInflight)
  <2>1. PICK m : m = AccountAs(n, c, h)
    OBVIOUS
  <2>2. a = [ok |-> TRUE, net |-> m]
    BY <1>3, <1>7, <2>1 DEF Account, Yes, AccountAs
  <2>3. n.inflight - k.accounted + h <= MaxInflight
    BY <1>2, <1>3, <1>7, Limits
  <2>4. /\ m \in Loose(S \ {c}) /\ m.conn[c] = [k EXCEPT !.accounted = h]
        /\ m.hub = n.hub
        /\ \A d \in Conn : d # c => m.conn[d] = n.conn[d]
    <3>1. /\ ~ Unreachable(n.conn[c]) /\ h = Held(n.conn[c])
          /\ n.inflight - n.conn[c].accounted + h <= MaxInflight
      BY <1>3, <1>7, <2>3
    <3>2. QED
      BY <2>1, <3>1, SettledLoose
  <2>5. SameTask(k, m.conn[c])
    BY <1>2, <2>4 DEF SameTask, ConnRecord
  <2>6. m \in Outputs(n)
    <3>1. \A d \in Conn : SameTask(n.conn[d], m.conn[d])
      BY <2>4, <2>5 DEF SameTask
    <3>2. QED
      BY <2>4, <3>1, LooseType DEF Outputs
  <2>7. m.conn[c] = [n.conn[c] EXCEPT !.accounted = Held(n.conn[c])]
    BY <1>3, <2>4
  <2>8. a.ok = TRUE /\ a.net = m
    BY <2>2
  <2>9. QED
    BY <1>7, <2>2, <2>4, <2>6, <2>7, <2>8, Zenon
<1>8. QED
  BY <1>5, <1>6, <1>7

-----------------------------------------------------------------------------
(* The order of replies.                                                   *)

(* The client has replies in the order of its script and, as long as it is *)
(* reached, exactly those to its first t requests.                         *)
Heard(s, k, t) ==
  /\ InOrder(s, Output(k))
  /\ Reaches(k) => Served(s, Output(k), t)

Begins(o, p) == Len(o) <= Len(p) /\ \A i \in 1 .. Len(o) : o[i] = p[i]

(* l has said what k has, or less if it says no more.                      *)
Quieter(k, l) ==
  /\ Begins(Output(l), Output(k))
  /\ Reaches(l) => Reaches(k) /\ Output(l) = Output(k)

(* l has said what k has and then chunk, or says no more.                  *)
Says(k, l, chunk) ==
  \/ Begins(Output(l), Output(k)) /\ ~ Reaches(l)
  \/ /\ Reaches(k)
     /\ Begins(Output(l), Append(Output(k), chunk))
     /\ Reaches(l) => Output(l) = Append(Output(k), chunk)

LEMMA BeginsReflexive ==
  ASSUME NEW o \in Seq(Chunk)
  PROVE  Begins(o, o)
BY DEF Begins

LEMMA BeginsTransitive ==
  ASSUME NEW o \in Seq(Chunk), NEW p \in Seq(Chunk), NEW q \in Seq(Chunk),
         Begins(o, p), Begins(p, q)
  PROVE  Begins(o, q)
<1>1. PICK i \in Nat : i = Len(o)
  OBVIOUS
<1>2. PICK j \in Nat : j = Len(p)
  OBVIOUS
<1>3. PICK k \in Nat : k = Len(q)
  OBVIOUS
<1>4. /\ i <= j /\ j <= k /\ \A n \in 1 .. i : o[n] = p[n]
      /\ \A n \in 1 .. j : p[n] = q[n]
  BY <1>1, <1>2, <1>3 DEF Begins
<1>5. i <= k /\ \A n \in 1 .. i : o[n] = q[n]
  BY <1>4
<1>6. QED
  BY <1>1, <1>3, <1>5 DEF Begins

LEMMA BeginsLonger ==
  ASSUME NEW o \in Seq(Chunk), NEW p \in Seq(Chunk)
  PROVE  Begins(o, o \o p) /\ o \o p \in Seq(Chunk)
<1>1. PICK i \in Nat : i = Len(o)
  OBVIOUS
<1>2. PICK j \in Nat : j = Len(p)
  OBVIOUS
<1>3. PICK q : q = o \o p
  OBVIOUS
<1>4. /\ q \in Seq(Chunk) /\ Len(q) = i + j
      /\ \A n \in 1 .. i + j : q[n] = IF n <= i THEN o[n] ELSE p[n - i]
  BY <1>1, <1>2, <1>3, ConcatProperties
<1>5. \A n \in 1 .. i : q[n] = o[n]
  BY <1>4
<1>6. QED
  BY <1>1, <1>2, <1>3, <1>4, <1>5 DEF Begins

LEMMA BeginsMore ==
  ASSUME NEW o \in Seq(Chunk), NEW chunk \in Chunk
  PROVE  Begins(o, Append(o, chunk)) /\ Append(o, chunk) \in Seq(Chunk)
<1>1. PICK i \in Nat : i = Len(o)
  OBVIOUS
<1>2. PICK q : q = Append(o, chunk)
  OBVIOUS
<1>3. /\ q \in Seq(Chunk) /\ Len(q) = i + 1
      /\ \A n \in 1 .. i : q[n] = o[n]
  BY <1>1, <1>2, AppendProperties
<1>4. QED
  BY <1>1, <1>2, <1>3 DEF Begins

Parts(k, r, w, o, p) ==
  /\ r \in Seq(Chunk) /\ w \in Seq(Chunk) /\ o \in Seq(Chunk) /\ p = r \o w
  /\ k.received = r /\ k.wire = w /\ k.out = o

LEMMA OutputOf ==
  ASSUME NEW k, NEW r, NEW w, NEW o, NEW p, Parts(k, r, w, o, p)
  PROVE  /\ Output(k) \in Seq(Chunk) /\ p \in Seq(Chunk)
         /\ k.socket = "open" => Output(k) = p \o o
         /\ k.socket # "open" => Output(k) = p
<1>1. /\ p \in Seq(Chunk) /\ o \in Seq(Chunk)
      /\ p = k.received \o k.wire /\ o = k.out
  BY ConcatProperties DEF Parts
<1>2. PICK q \in Seq(Chunk) : q = p \o o
  BY <1>1, ConcatProperties
<1>3. CASE k.socket = "open"
  <2>1. Output(k) = p \o o
    BY <1>1, <1>3 DEF Output
  <2>2. QED
    BY <1>1, <1>2, <1>3, <2>1
<1>4. CASE k.socket # "open"
  <2>1. PICK none : none = <<>>
    OBVIOUS
  <2>2. Output(k) = p \o none
    BY <1>1, <1>4, <2>1 DEF Output
  <2>3. p \o none = p
    BY <1>1, <2>1, ConcatEmptySeq
  <2>4. QED
    BY <1>1, <1>4, <2>2, <2>3
<1>5. QED
  BY <1>3, <1>4

LEMMA OutputParts ==
  ASSUME NEW k \in ConnRecord
  PROVE  /\ k.received \in Seq(Chunk) /\ k.wire \in Seq(Chunk)
         /\ k.out \in Seq(Chunk) /\ Output(k) \in Seq(Chunk)
<1>1. PICK r \in Seq(Chunk) : r = k.received
  BY DEF ConnRecord
<1>2. PICK w \in Seq(Chunk) : w = k.wire
  BY DEF ConnRecord
<1>3. PICK o \in Seq(Chunk) : o = k.out
  BY DEF ConnRecord
<1>4. PICK p : p = r \o w
  OBVIOUS
<1>5. Parts(k, r, w, o, p)
  BY <1>1, <1>2, <1>3, <1>4 DEF Parts
<1>6. QED
  BY <1>1, <1>2, <1>3, <1>5, OutputOf

LEMMA QuieterTransitive ==
  ASSUME NEW k \in ConnRecord, NEW l \in ConnRecord, NEW m \in ConnRecord,
         Quieter(k, l), Quieter(l, m)
  PROVE  Quieter(k, m)
<1>1. Begins(Output(m), Output(k))
  BY OutputParts, BeginsTransitive DEF Quieter
<1>2. QED
  BY <1>1 DEF Quieter

(* Nothing of what goes out has changed.                                   *)
LEMMA SameOutput ==
  ASSUME NEW k \in ConnRecord, NEW l \in ConnRecord,
         l.received = k.received, l.wire = k.wire, l.out = k.out,
         l.socket = k.socket, l.closed = k.closed, l.ending = k.ending
  PROVE  Quieter(k, l) /\ Output(l) = Output(k) /\ (Reaches(l) <=> Reaches(k))
<1>1. Output(l) = Output(k)
  BY Zenon DEF Output
<1>2. Reaches(l) <=> Reaches(k)
  BY DEF Reaches, Mute, Unreachable
<1>3. Begins(Output(l), Output(k))
  BY <1>1, OutputParts, BeginsReflexive
<1>4. QED
  BY <1>1, <1>2, <1>3 DEF Quieter

(* What was sent last is lost, or all that was not yet received.           *)
LEMMA LostOutput ==
  ASSUME NEW k \in ConnRecord, NEW l \in ConnRecord,
         l.received = k.received, l.socket # "open",
         l.wire = k.wire \/ l.wire = <<>>
  PROVE  Begins(Output(l), Output(k)) /\ ~ Reaches(l)
<1>1. PICK r \in Seq(Chunk) : r = k.received
  BY OutputParts
<1>2. PICK w \in Seq(Chunk) : w = k.wire
  BY OutputParts
<1>3. PICK o \in Seq(Chunk) : o = k.out
  BY OutputParts
<1>4. PICK p \in Seq(Chunk) : p = r \o w
  BY ConcatProperties
<1>5. Begins(r, p) /\ Begins(p, p \o o) /\ Begins(p, p)
  BY <1>4, BeginsLonger, BeginsReflexive
<1>6. p \o o \in Seq(Chunk)
  BY BeginsLonger
<1>7. Output(k) = p \o o \/ Output(k) = p
  <2>1. Parts(k, r, w, o, p)
    BY <1>1, <1>2, <1>3, <1>4 DEF Parts
  <2>2. QED
    BY <2>1, OutputOf
<1>8. Output(l) = p \/ Output(l) = r
  <2>1. PICK u \in Seq(Chunk) : u = l.out
    BY OutputParts
  <2>2. CASE l.wire = w
    <3>1. Parts(l, r, w, u, p)
      BY <1>1, <1>4, <2>1, <2>2 DEF Parts
    <3>2. QED
      BY <3>1, OutputOf
  <2>3. CASE l.wire = <<>>
    <3>1. PICK none : none = <<>>
      OBVIOUS
    <3>2. none \in Seq(Chunk) /\ l.wire = none /\ l.received = r
      BY <1>1, <2>3, <3>1, NoOutput
    <3>3. r = r \o none
      BY <3>1, ConcatEmptySeq
    <3>4. Parts(l, r, none, u, r)
      BY <2>1, <3>2, <3>3 DEF Parts
    <3>5. QED
      BY <3>4, OutputOf
  <2>4. QED
    BY <1>2, <2>2, <2>3
<1>9. Begins(r, p \o o)
  BY <1>5, <1>6, BeginsTransitive
<1>10. QED
  BY <1>5, <1>7, <1>8, <1>9 DEF Reaches

LEMMA LostIsQuieter ==
  ASSUME NEW k \in ConnRecord, NEW l \in ConnRecord,
         l.received = k.received, l.socket # "open",
         l.wire = k.wire \/ l.wire = <<>>
  PROVE  Quieter(k, l)
BY LostOutput DEF Quieter

LEMMA SaysThenQuieter ==
  ASSUME NEW k \in ConnRecord, NEW l \in ConnRecord, NEW m \in ConnRecord,
         NEW chunk \in Chunk, Says(k, l, chunk), Quieter(l, m)
  PROVE  Says(k, m, chunk)
<1>1. PICK o \in Seq(Chunk) : o = Output(k)
  BY OutputParts
<1>2. PICK p \in Seq(Chunk) : p = Append(o, chunk)
  BY BeginsMore
<1>3. Output(l) \in Seq(Chunk) /\ Output(m) \in Seq(Chunk)
  BY OutputParts
<1>4. Begins(Output(m), Output(l))
  BY DEF Quieter
<1>5. CASE Begins(Output(l), o) /\ ~ Reaches(l)
  <2>1. Begins(Output(m), o)
    BY <1>3, <1>4, <1>5, BeginsTransitive
  <2>2. QED
    BY <1>1, <1>5, <2>1 DEF Says, Quieter
<1>6. CASE /\ Reaches(k) /\ Begins(Output(l), p)
           /\ Reaches(l) => Output(l) = p
  <2>1. Begins(Output(m), p)
    BY <1>3, <1>4, <1>6, BeginsTransitive
  <2>2. QED
    BY <1>1, <1>2, <1>6, <2>1 DEF Says, Quieter
<1>7. QED
  BY <1>1, <1>2, <1>5, <1>6 DEF Says

LEMMA QuieterThenSays ==
  ASSUME NEW k \in ConnRecord, NEW l \in ConnRecord, NEW m \in ConnRecord,
         NEW chunk, Quieter(k, l), Says(l, m, chunk)
  PROVE  Says(k, m, chunk)
<1>1. /\ Output(k) \in Seq(Chunk) /\ Output(l) \in Seq(Chunk)
      /\ Output(m) \in Seq(Chunk)
  BY OutputParts
<1>2. CASE Begins(Output(m), Output(l)) /\ ~ Reaches(m)
  <2>1. Begins(Output(m), Output(k))
    BY <1>1, <1>2, BeginsTransitive DEF Quieter
  <2>2. QED
    BY <1>2, <2>1 DEF Says
<1>3. CASE Reaches(l)
  BY <1>2, <1>3 DEF Says, Quieter
<1>4. QED
  BY <1>2, <1>3 DEF Says

(* What goes out is the same, but it may have ended.                       *)
LEMMA QuietOutput ==
  ASSUME NEW k \in ConnRecord, NEW l \in ConnRecord,
         l.received = k.received, l.wire = k.wire, l.out = k.out,
         l.socket = k.socket, Reaches(l) => Reaches(k)
  PROVE  Quieter(k, l)
<1>1. Output(l) = Output(k)
  BY Zenon DEF Output
<1>2. Begins(Output(l), Output(k))
  BY <1>1, OutputParts, BeginsReflexive
<1>3. QED
  BY <1>1, <1>2 DEF Quieter

(* A chunk at the end of the queue, or of the buffer when nothing is       *)
(* queued.                                                                 *)
LEMMA AppendToConcat ==
  ASSUME NEW p \in Seq(Chunk), NEW o \in Seq(Chunk), NEW chunk \in Chunk
  PROVE  p \o Append(o, chunk) = Append(p \o o, chunk)
<1>1. PICK one : one = <<chunk>>
  OBVIOUS
<1>2. PICK q \in Seq(Chunk) : q = p \o o
  BY ConcatProperties
<1>3. /\ Append(o, chunk) = o \o one /\ Append(q, chunk) = q \o one
      /\ one \in Seq(Chunk)
  BY <1>1, AppendIsConcat
<1>4. (p \o o) \o one = p \o (o \o one)
  BY <1>3, ConcatAssociative
<1>5. QED
  BY <1>2, <1>3, <1>4

LEMMA ChunkQueued ==
  ASSUME NEW k \in ConnRecord, NEW l \in ConnRecord, NEW chunk \in Chunk,
         ~ Mute(k), l.received = k.received, l.socket = k.socket,
         l.closed = k.closed, l.ending = k.ending,
         l.wire = k.wire, l.out = Append(k.out, chunk)
  PROVE  Says(k, l, chunk)
<1>1. CASE k.socket # "open"
  BY <1>1, LostOutput DEF Says
<1>2. CASE k.socket = "open"
  <2>1. PICK r \in Seq(Chunk) : r = k.received
    BY OutputParts
  <2>2. PICK w \in Seq(Chunk) : w = k.wire
    BY OutputParts
  <2>3. PICK o \in Seq(Chunk) : o = k.out
    BY OutputParts
  <2>4. PICK u \in Seq(Chunk) : u = Append(o, chunk)
    BY BeginsMore
  <2>5. PICK p \in Seq(Chunk) : p = r \o w
    BY ConcatProperties
  <2>6. Output(k) = p \o o
    <3>1. Parts(k, r, w, o, p)
      BY <2>1, <2>2, <2>3, <2>5 DEF Parts
    <3>2. QED
      BY <1>2, <3>1, OutputOf
  <2>7. l.received = r /\ l.wire = w /\ l.out = u /\ l.socket = "open"
    BY <1>2, <2>1, <2>2, <2>3, <2>4
  <2>8. Output(l) = p \o u
    <3>1. Parts(l, r, w, u, p)
      BY <2>5, <2>7 DEF Parts
    <3>2. QED
      BY <2>7, <3>1, OutputOf
  <2>9. Output(l) = Append(Output(k), chunk)
    BY <2>4, <2>6, <2>8, AppendToConcat
  <2>10. Begins(Output(l), Output(l))
    BY OutputParts, BeginsReflexive
  <2>11. QED
    BY <1>2, <2>9, <2>10 DEF Says, Reaches
<1>3. QED
  BY <1>1, <1>2

LEMMA ChunkSent ==
  ASSUME NEW k \in ConnRecord, NEW l \in ConnRecord, NEW chunk \in Chunk,
         ~ Mute(k), k.socket = "open", l.received = k.received,
         l.socket = "open", k.out = <<>>, l.out = <<>>,
         l.wire = Append(k.wire, chunk)
  PROVE  Says(k, l, chunk)
<1>1. PICK none : none = <<>>
  OBVIOUS
<1>2. PICK r \in Seq(Chunk) : r = k.received
  BY OutputParts
<1>3. PICK w \in Seq(Chunk) : w = k.wire
  BY OutputParts
<1>4. PICK v \in Seq(Chunk) : v = Append(w, chunk)
  BY BeginsMore
<1>5. PICK p \in Seq(Chunk) : p = r \o w
  BY ConcatProperties
<1>6. PICK q \in Seq(Chunk) : q = r \o v
  BY ConcatProperties
<1>7. k.received = r /\ k.wire = w /\ k.out = none /\ none \in Seq(Chunk)
  BY <1>1, <1>2, <1>3, NoOutput
<1>8. l.received = r /\ l.wire = v /\ l.out = none
  BY <1>1, <1>2, <1>3, <1>4
<1>9. Output(k) = p \o none /\ Output(l) = q \o none
  <2>1. Output(k) = p \o none
    <3>1. Parts(k, r, w, none, p)
      BY <1>5, <1>7 DEF Parts
    <3>2. QED
      BY <3>1, OutputOf
  <2>2. Output(l) = q \o none
    <3>1. Parts(l, r, v, none, q)
      BY <1>6, <1>7, <1>8 DEF Parts
    <3>2. QED
      BY <3>1, OutputOf
  <2>3. QED
    BY <2>1, <2>2
<1>10. Output(k) = p /\ Output(l) = q
  BY <1>1, <1>9, ConcatEmptySeq
<1>11. q = Append(p, chunk)
  BY <1>4, <1>5, <1>6, AppendToConcat
<1>12. Begins(Output(l), Output(l))
  BY OutputParts, BeginsReflexive
<1>13. QED
  BY <1>10, <1>11, <1>12 DEF Says, Reaches

(* What the order of replies takes from a shorter output.                  *)
LEMMA BeginningInOrder ==
  ASSUME NEW s, NEW o \in Seq(Chunk), NEW p \in Seq(Chunk),
         Begins(o, p), InOrder(s, p)
  PROVE  InOrder(s, o)
<1>1. PICK a \in Nat : a = Len(o)
  OBVIOUS
<1>2. PICK b \in Nat : b = Len(p)
  OBVIOUS
<1>3. a <= b /\ \A i \in 1 .. a : o[i] = p[i]
  BY <1>1, <1>2 DEF Begins
<1>4. DOMAIN o = 1 .. a /\ DOMAIN p = 1 .. b
  BY <1>1, <1>2
<1>5. SUFFICES ASSUME NEW j \in 1 .. a, IsReply(o[j])
               PROVE  /\ \A i \in 1 .. j - 1 : IsReply(o[i]) =>
                           \/ o[i].re < o[j].re
                           \/ o[i].re = o[j].re /\ s[o[j].re].cmd \in Many
                      /\ \A n \in 1 .. o[j].re : Replied(s, o, j, n)
  BY <1>4 DEF InOrder
<1>6. j \in 1 .. b /\ o[j] = p[j] /\ \A i \in 1 .. j : o[i] = p[i]
  BY <1>3
<1>7. /\ \A i \in 1 .. j - 1 : IsReply(p[i]) =>
           \/ p[i].re < p[j].re
           \/ p[i].re = p[j].re /\ s[p[j].re].cmd \in Many
      /\ \A n \in 1 .. p[j].re : Replied(s, p, j, n)
  BY <1>4, <1>5, <1>6 DEF InOrder
<1>8. \A i \in 1 .. j - 1 : o[i] = p[i]
  BY <1>6
<1>9. \A n : Replied(s, p, j, n) => Replied(s, o, j, n)
  BY <1>6 DEF Replied
<1>10. QED
  BY <1>6, <1>7, <1>8, <1>9

(* One more chunk: a message, the reply that is due, or one more reply of  *)
(* a request that has many.                                                *)
Continues(s, chunk, t, u) ==
  \/ ~ IsReply(chunk) /\ u = t
  \/ IsReply(chunk) /\ chunk.re = u
     /\ (u = t + 1 \/ (u = t /\ s[u].cmd \in Many))

LEMMA ReplyNumber ==
  ASSUME NEW chunk \in Chunk, IsReply(chunk)
  PROVE  chunk.re \in Nat
BY DEF Chunk, IsReply

LEMMA MoreInOrder ==
  ASSUME NEW s, NEW o \in Seq(Chunk), NEW chunk \in Chunk,
         NEW t \in Int, NEW u \in Int, Continues(s, chunk, t, u),
         InOrder(s, o), Served(s, o, t)
  PROVE  /\ InOrder(s, Append(o, chunk))
         /\ Served(s, Append(o, chunk), u)
<1>1. PICK a \in Nat : a = Len(o)
  OBVIOUS
<1>2. PICK p \in Seq(Chunk) : /\ p = Append(o, chunk) /\ Len(p) = a + 1
                              /\ \A i \in 1 .. a : p[i] = o[i]
                              /\ p[a + 1] = chunk
  BY <1>1, AppendProperties
<1>3. DOMAIN o = 1 .. a /\ DOMAIN p = 1 .. a + 1
  BY <1>1, <1>2
<1>4. \A j \in 1 .. a : \A n : Replied(s, o, j, n) => Replied(s, p, j, n)
  BY <1>2 DEF Replied
<1>5. \A n : Replied(s, o, a, n) => Replied(s, p, a + 1, n)
  BY <1>2 DEF Replied
<1>6. /\ \A n \in 1 .. t : Replied(s, o, a, n)
      /\ \A i \in 1 .. a : IsReply(o[i]) => o[i].re <= t
  BY <1>1, <1>3 DEF Served
<1>7. \A i \in 1 .. a : IsReply(o[i]) => o[i].re \in Nat
  BY <1>1, <1>3, ReplyNumber
<1>8. ASSUME IsReply(chunk)
      PROVE  /\ chunk.re = u /\ u \in Nat
             /\ (u = t + 1 \/ (u = t /\ s[u].cmd \in Many))
             /\ Replied(s, p, a + 1, u)
  <2>1. chunk.re = u /\ (u = t + 1 \/ (u = t /\ s[u].cmd \in Many))
    BY <1>8 DEF Continues
  <2>2. a + 1 \in 1 .. a + 1
    OBVIOUS
  <2>3. Replied(s, p, a + 1, u)
    BY <1>2, <1>8, <2>1, <2>2 DEF Replied
  <2>4. QED
    BY <1>8, <2>1, <2>3, ReplyNumber
<1>9. t <= u
  BY <1>8 DEF Continues
<1>10. \A n \in 1 .. u : Replied(s, p, a + 1, n)
  BY <1>5, <1>6, <1>8 DEF Continues
<1>11. Served(s, p, u)
  <2>1. ASSUME NEW i \in 1 .. a + 1, IsReply(p[i]) PROVE p[i].re <= u
    <3>1. CASE i = a + 1
      BY <1>2, <1>8, <2>1, <3>1
    <3>2. CASE i \in 1 .. a
      BY <1>2, <1>6, <1>7, <1>9, <2>1, <3>2
    <3>3. QED
      BY <3>1, <3>2
  <2>2. QED
    BY <1>2, <1>3, <1>10, <2>1 DEF Served
<1>12. InOrder(s, p)
  <2>1. ASSUME NEW j \in 1 .. a + 1, IsReply(p[j])
        PROVE  /\ \A i \in 1 .. j - 1 : IsReply(p[i]) =>
                    \/ p[i].re < p[j].re
                    \/ p[i].re = p[j].re /\ s[p[j].re].cmd \in Many
               /\ \A n \in 1 .. p[j].re : Replied(s, p, j, n)
    <3>1. CASE j = a + 1
      <4>1. p[j] = chunk /\ IsReply(chunk)
        BY <1>2, <2>1, <3>1
      <4>2. /\ chunk.re = u /\ u \in Nat
            /\ (u = t + 1 \/ (u = t /\ s[u].cmd \in Many))
        BY <1>8, <4>1
      <4>3. ASSUME NEW i \in 1 .. j - 1, IsReply(p[i])
            PROVE  p[i].re < u \/ (p[i].re = u /\ s[u].cmd \in Many)
        <5>1. i \in 1 .. a
          BY <3>1
        <5>2. p[i].re \in Nat /\ p[i].re <= t
          BY <1>2, <1>6, <1>7, <4>3, <5>1
        <5>3. QED
          BY <4>2, <5>2
      <4>4. \A n \in 1 .. u : Replied(s, p, j, n)
        BY <1>10, <3>1
      <4>5. QED
        BY <4>1, <4>2, <4>3, <4>4
    <3>2. CASE j \in 1 .. a
      <4>1. /\ \A i \in 1 .. j - 1 : IsReply(o[i]) =>
                 \/ o[i].re < o[j].re
                 \/ o[i].re = o[j].re /\ s[o[j].re].cmd \in Many
            /\ \A n \in 1 .. o[j].re : Replied(s, o, j, n)
        BY <1>2, <1>3, <2>1, <3>2 DEF InOrder
      <4>2. p[j] = o[j] /\ \A i \in 1 .. j - 1 : p[i] = o[i]
        BY <1>2, <3>2
      <4>3. QED
        BY <1>4, <3>2, <4>1, <4>2
    <3>3. QED
      BY <3>1, <3>2
  <2>2. QED
    BY <1>3, <2>1 DEF InOrder
<1>13. QED
  BY <1>2, <1>11, <1>12

LEMMA QuieterHeard ==
  ASSUME NEW k \in ConnRecord, NEW l \in ConnRecord, Quieter(k, l),
         NEW s, NEW t, Heard(s, k, t)
  PROVE  Heard(s, l, t)
<1>1. InOrder(s, Output(l))
  BY OutputParts, BeginningInOrder DEF Quieter, Heard
<1>2. QED
  BY <1>1 DEF Quieter, Heard

LEMMA SaidHeard ==
  ASSUME NEW k \in ConnRecord, NEW l \in ConnRecord, NEW chunk \in Chunk,
         Says(k, l, chunk), NEW s, NEW t \in Int, NEW u \in Int,
         Continues(s, chunk, t, u), Heard(s, k, t)
  PROVE  Heard(s, l, u)
<1>1. PICK o \in Seq(Chunk) : o = Output(k)
  BY OutputParts
<1>2. PICK p \in Seq(Chunk) : p = Output(l)
  BY OutputParts
<1>3. InOrder(s, o)
  BY <1>1 DEF Heard
<1>4. CASE Begins(p, o) /\ ~ Reaches(l)
  BY <1>2, <1>3, <1>4, BeginningInOrder DEF Heard
<1>5. CASE /\ Reaches(k) /\ Begins(p, Append(o, chunk))
           /\ Reaches(l) => p = Append(o, chunk)
  <2>1. Served(s, o, t)
    BY <1>1, <1>5 DEF Heard
  <2>2. PICK q \in Seq(Chunk) : q = Append(o, chunk)
    BY BeginsMore
  <2>3. InOrder(s, q) /\ Served(s, q, u)
    BY <1>3, <2>1, <2>2, MoreInOrder
  <2>4. InOrder(s, p)
    BY <1>5, <2>2, <2>3, BeginningInOrder
  <2>5. QED
    BY <1>2, <1>5, <2>2, <2>3, <2>4 DEF Heard
<1>6. QED
  BY <1>1, <1>2, <1>4, <1>5 DEF Says

(* A connection is asked and waited for as before, and its client has      *)
(* heard what was due to it; or it is gone.                                *)
Chat(s, k, l) ==
  /\ l.active = k.active
  /\ l.loop = "waiting" <=> k.loop = "waiting"
  /\ l.socket = "none" <=> k.socket = "none"
  /\ k.socket = "gone" => l.socket = "gone"
  /\ l.socket = "gone" \/ l.taken = k.taken
  /\ \A t \in Int : Heard(s, k, t) => Heard(s, l, t)

Chatting(n) ==
  {m \in NetRecord :
     \A c \in Conn : Chat(plan.script[c], n.conn[c], m.conn[c])}

(* Nothing is done to any connection but c.                                *)
Only(n, m, c) == \A d \in Conn : d # c => m.conn[d] = n.conn[d]

LEMMA ChatReflexive ==
  ASSUME NEW s, NEW k
  PROVE  Chat(s, k, k)
BY DEF Chat

LEMMA ChatTransitive ==
  ASSUME NEW s, NEW k, NEW l, NEW m, Chat(s, k, l), Chat(s, l, m)
  PROVE  Chat(s, k, m)
BY DEF Chat

LEMMA ChattingTransitive ==
  ASSUME NEW n \in NetRecord, NEW m \in Chatting(n), NEW o \in Chatting(m)
  PROVE  o \in Chatting(n)
BY ChatTransitive DEF Chatting

LEMMA QuietChat ==
  ASSUME NEW k \in ConnRecord, NEW l \in ConnRecord, SameTask(k, l),
         Quieter(k, l), NEW s
  PROVE  Chat(s, k, l)
<1>1. \A t \in Int : Heard(s, k, t) => Heard(s, l, t)
  BY QuieterHeard
<1>2. QED
  BY <1>1 DEF Chat, SameTask

LEMMA OnlyChatting ==
  ASSUME NEW n \in NetRecord, NEW m \in NetRecord, NEW c \in Conn,
         Only(n, m, c), Chat(plan.script[c], n.conn[c], m.conn[c])
  PROVE  m \in Chatting(n)
<1>1. \A d \in Conn : d # c => Chat(plan.script[d], n.conn[d], m.conn[d])
  BY ChatReflexive DEF Only
<1>2. QED
  BY <1>1 DEF Chatting

LEMMA QuietChatting ==
  ASSUME NEW n \in NetRecord, NEW m \in Outputs(n), NEW c \in Conn,
         Only(n, m, c), Quieter(n.conn[c], m.conn[c])
  PROVE  m \in Chatting(n)
<1>1. /\ m \in NetRecord /\ n.conn[c] \in ConnRecord /\ m.conn[c] \in ConnRecord
      /\ SameTask(n.conn[c], m.conn[c])
  BY DEF Outputs, NetRecord
<1>2. Chat(plan.script[c], n.conn[c], m.conn[c])
  BY <1>1, QuietChat
<1>3. QED
  BY <1>1, <1>2, OnlyChatting

LEMMA QuieterReflexive ==
  ASSUME NEW k \in ConnRecord
  PROVE  Quieter(k, k)
BY SameOutput

LEMMA DisconnectQuiet ==
  ASSUME NEW S, NEW n \in Loose(S), NEW c \in Conn,
         NEW m, m = Disconnect(n, c)
  PROVE  /\ Only(n, m, c) /\ Quieter(n.conn[c], m.conn[c])
         /\ ~ Reaches(m.conn[c]) /\ m \in Chatting(n)
<1>1. PICK k : k = n.conn[c]
  OBVIOUS
<1>2. n \in NetRecord /\ k \in ConnRecord /\ Decent(k)
  BY <1>1, LooseType
<1>3. CASE k.closed
  <2>1. m = n
    BY <1>1, <1>3 DEF Disconnect
  <2>2. ~ Reaches(k) /\ Quieter(k, k) /\ n \in Chatting(n)
    BY <1>2, <1>3, QuieterReflexive, ChatReflexive DEF Reaches, Mute, Chatting
  <2>3. QED
    BY <1>1, <2>1, <2>2 DEF Only
<1>4. CASE ~ k.closed
  <2>1. PICK l : l = CutOff(k)
    OBVIOUS
  <2>2. /\ l \in ConnRecord /\ l.received = k.received
        /\ l.socket = "destroyed" /\ l.wire = <<>>
    BY <1>2, <1>4, <2>1, CutOffType DEF CutOff, ConnRecord
  <2>3. Quieter(k, l) /\ ~ Reaches(l)
    BY <1>2, <2>2, LostIsQuieter DEF Reaches
  <2>4. m = Edit(n, c, l)
    BY <1>1, <1>4, <2>1 DEF Disconnect, Edit, CutOff
  <2>5. m.conn[c] = l /\ Only(n, m, c)
    BY <1>2, <2>2, <2>4, EditType DEF Only
  <2>6. m \in Outputs(n)
    BY DisconnectLoose
  <2>7. QED
    BY <1>1, <1>2, <2>3, <2>5, <2>6, QuietChatting
<1>5. QED
  BY <1>3, <1>4

LEMMA AccountQuiet ==
  ASSUME NEW S, NEW n \in Loose(S), NEW c \in Conn, NEW extra \in Nat,
         extra = 0 \/ ~ n.conn[c].closed,
         NEW a, a = Account(n, c, extra)
  PROVE  /\ Only(n, a.net, c) /\ Quieter(n.conn[c], a.net.conn[c])
         /\ ~ a.ok => ~ Reaches(a.net.conn[c])
         /\ a.net \in Chatting(n)
<1>1. PICK k : k = n.conn[c]
  OBVIOUS
<1>2. n \in NetRecord /\ k \in ConnRecord
  BY <1>1, LooseType
<1>3. a.net \in Outputs(n)
  <2>1. extra = 0 \/ ~ k.closed
    BY <1>1
  <2>2. QED
    BY <1>1, <2>1, AccountSettles
<1>4. SUFFICES /\ Only(n, a.net, c) /\ Quieter(k, a.net.conn[c])
               /\ ~ a.ok => ~ Reaches(a.net.conn[c])
  BY <1>1, <1>2, <1>3, QuietChatting
<1>5. CASE Unreachable(k)
  <2>1. a = [ok |-> FALSE, net |-> n]
    BY <1>1, <1>5 DEF Account, No
  <2>2. QED
    BY <1>1, <1>2, <1>5, <2>1, QuieterReflexive DEF Only, Reaches, Mute
<1>6. CASE a = [ok |-> FALSE, net |-> Disconnect(n, c)]
  BY <1>1, <1>6, DisconnectQuiet
<1>7. PICK i, h : a.ok => a.net = [n EXCEPT !.inflight = i, !.conn[c].accounted = h]
  BY DEF Account, Yes, No
<1>8. CASE a.ok
  <2>1. PICK m : m = a.net
    OBVIOUS
  <2>2. m = [n EXCEPT !.inflight = i, !.conn[c].accounted = h]
    BY <1>7, <1>8, <2>1
  <2>3. Only(n, a.net, c)
    <3>1. \A d \in Conn : d # c => m.conn[d] = n.conn[d]
      BY <1>2, <2>2 DEF NetRecord
    <3>2. QED
      BY <2>1, <3>1 DEF Only
  <2>4. PICK l : l = a.net.conn[c]
    OBVIOUS
  <2>5. l = [k EXCEPT !.accounted = h]
    <3>1. m.conn = [n.conn EXCEPT ![c] = [n.conn[c] EXCEPT !.accounted = h]]
      BY <1>2, <2>2 DEF NetRecord
    <3>2. m.conn[c] = [n.conn[c] EXCEPT !.accounted = h]
      BY <1>2, <3>1 DEF NetRecord
    <3>3. QED
      BY <1>1, <2>1, <2>4, <3>2
  <2>6. l \in ConnRecord
    BY <1>3, <2>4 DEF Outputs, NetRecord
  <2>7. /\ l.received = k.received /\ l.wire = k.wire /\ l.out = k.out
        /\ l.socket = k.socket /\ l.closed = k.closed /\ l.ending = k.ending
    BY <1>2, <2>5 DEF ConnRecord
  <2>8. Quieter(k, l)
    BY <1>2, <2>6, <2>7, SameOutput
  <2>9. QED
    BY <1>8, <2>3, <2>4, <2>8
<1>9. a.ok \/ Unreachable(k) \/ a = [ok |-> FALSE, net |-> Disconnect(n, c)]
  BY <1>1 DEF Account, Yes, No
<1>10. QED
  BY <1>5, <1>6, <1>8, <1>9

-----------------------------------------------------------------------------
(* Writes.                                                                 *)

(* A chunk joins the queue or the buffer of a connection that is not       *)
(* closed.                                                                 *)
LEMMA Joined ==
  ASSUME NEW S, NEW n \in Loose(S), NEW c \in Conn, NEW k, k = n.conn[c],
         ~ k.closed, Pending(k) + 1 <= MaxPending,
         NEW o \in Seq(Chunk), NEW w \in Seq(Chunk), NEW p \in BOOLEAN,
         Len(o) + Len(w) <= Pending(k) + 1,
         k.ending => p \/ o # <<>>
  PROVE  LET l == [k EXCEPT !.out = o, !.wire = w, !.pressed = p]
         IN  /\ Edit(n, c, l) \in Loose(S \cup {c})
             /\ Edit(n, c, l) \in Outputs(n)
<1>1. n \in NetRecord /\ k \in ConnRecord /\ Decent(k)
  BY LooseType
<1>2. PICK l : l = [k EXCEPT !.out = o, !.wire = w, !.pressed = p]
  OBVIOUS
<1>3. /\ l \in ConnRecord /\ SameTask(k, l) /\ l.accounted = k.accounted
      /\ l.closed = k.closed /\ l.ending = k.ending /\ l.socket = k.socket
      /\ l.out = o /\ l.wire = w /\ l.pressed = p
  BY <1>1, <1>2 DEF ConnRecord, SameTask
<1>4. Pending(l) <= MaxPending
  <2>1. PICK i \in Nat : i = Pending(k)
    BY <1>1, HeldType
  <2>2. PICK j \in Nat : j = Len(o) + Len(w)
    OBVIOUS
  <2>3. Pending(l) = j
    BY <1>3, <2>2, PendingOf
  <2>4. QED
    BY <2>1, <2>2, <2>3, Limits
<1>5. Decent(l)
  BY <1>1, <1>3, <1>4 DEF Decent, SameTask
<1>6. Edit(n, c, l) \in Loose(S \cup {c})
  <2>1. l.arrived <= Asked(c)
    BY <1>3, LooseType DEF SameTask
  <2>2. QED
    BY <1>3, <1>5, <2>1, EditLoose
<1>7. Edit(n, c, l) \in Outputs(n)
  BY <1>1, <1>3, EditOutputs
<1>8. QED
  BY <1>2, <1>6, <1>7

LEMMA OneMore ==
  ASSUME NEW s \in Seq(Chunk), NEW chunk \in Chunk
  PROVE  \E t \in Seq(Chunk) : t = Append(s, chunk) /\ Len(t) = Len(s) + 1
BY AppendProperties

(* What it takes for an account to be right after a write.                 *)
LEMMA AccountAfter ==
  ASSUME NEW S, NEW n \in NetRecord, NEW c \in Conn,
         NEW m \in Loose(S \cup {c}), m \in Outputs(n),
         NEW a, a = Account(m, c, 0)
  PROVE  /\ a.ok \in BOOLEAN /\ a = [ok |-> a.ok, net |-> a.net]
         /\ a.net \in Loose(S \ {c}) /\ a.net \in Outputs(n)
         /\ Only(m, a.net, c) /\ Quieter(m.conn[c], a.net.conn[c])
<1>1. PICK T : T = S \cup {c}
  OBVIOUS
<1>2. m \in Loose(T) /\ T \ {c} = S \ {c}
  BY <1>1
<1>3. /\ a.ok \in BOOLEAN /\ a = [ok |-> a.ok, net |-> a.net]
      /\ a.net \in Loose(T \ {c}) /\ a.net \in Outputs(m)
  BY <1>2, AccountSettles
<1>4. Only(m, a.net, c) /\ Quieter(m.conn[c], a.net.conn[c])
  BY <1>2, AccountQuiet
<1>5. QED
  BY <1>2, <1>3, <1>4, OutputsTransitive

(* What is done to a net by a chunk for c and then to c's account.         *)
LEMMA SaysAfter ==
  ASSUME NEW n \in NetRecord, NEW m \in NetRecord, NEW o \in NetRecord,
         NEW c \in Conn, NEW chunk \in Chunk,
         Only(n, m, c), Says(n.conn[c], m.conn[c], chunk),
         Only(m, o, c), Quieter(m.conn[c], o.conn[c])
  PROVE  Only(n, o, c) /\ Says(n.conn[c], o.conn[c], chunk)
<1>1. /\ n.conn[c] \in ConnRecord /\ m.conn[c] \in ConnRecord
      /\ o.conn[c] \in ConnRecord
  BY ConnType
<1>2. Says(n.conn[c], o.conn[c], chunk)
  BY <1>1, SaysThenQuieter
<1>3. QED
  BY <1>2 DEF Only

LEMMA QueuedSettles ==
  ASSUME NEW S, NEW n \in Loose(S), NEW c \in Conn, NEW k, k = n.conn[c],
         ~ Mute(k), Pending(k) + 1 <= MaxPending,
         NEW chunk \in Chunk, NEW a, a = Queued(n, c, chunk)
  PROVE  /\ a.ok \in BOOLEAN /\ a = [ok |-> a.ok, net |-> a.net]
         /\ a.net \in Loose(S \ {c}) /\ a.net \in Outputs(n)
         /\ Only(n, a.net, c) /\ Says(k, a.net.conn[c], chunk)
<1>1. n \in NetRecord /\ k \in ConnRecord /\ ~ k.closed /\ ~ k.ending
  BY LooseType DEF Mute
<1>2. PICK o \in Seq(Chunk) : o = k.out
  BY <1>1 DEF ConnRecord
<1>3. PICK w \in Seq(Chunk) : w = k.wire
  BY <1>1 DEF ConnRecord
<1>4. PICK q \in Seq(Chunk) : q = Append(o, chunk) /\ Len(q) = Len(o) + 1
  BY OneMore
<1>5. PICK p \in BOOLEAN : p = k.pressed
  BY <1>1 DEF ConnRecord
<1>6. Len(q) + Len(w) <= Pending(k) + 1
  <2>1. Pending(k) = Len(o) + Len(w)
    BY <1>2, <1>3, PendingOf
  <2>2. PICK i \in Nat : i = Len(o)
    OBVIOUS
  <2>3. PICK j \in Nat : j = Len(w)
    OBVIOUS
  <2>4. QED
    BY <1>4, <2>1, <2>2, <2>3
<1>7. PICK l : l = [k EXCEPT !.out = q, !.wire = w, !.pressed = p]
  OBVIOUS
<1>8. PICK m : m = Edit(n, c, l)
  OBVIOUS
<1>9. m \in Loose(S \cup {c}) /\ m \in Outputs(n)
  BY <1>1, <1>6, <1>7, <1>8, Joined
<1>10. [n EXCEPT !.conn[c].out = Append(@, chunk)] = m
  BY <1>1, <1>2, <1>3, <1>4, <1>5, <1>7, <1>8 DEF NetRecord, ConnRecord, Edit
<1>11. a = Account(m, c, 0)
  BY <1>10 DEF Queued
<1>12. /\ a.ok \in BOOLEAN /\ a = [ok |-> a.ok, net |-> a.net]
       /\ a.net \in Loose(S \ {c}) /\ a.net \in Outputs(n)
       /\ Only(m, a.net, c) /\ Quieter(m.conn[c], a.net.conn[c])
  BY <1>1, <1>9, <1>11, AccountAfter
<1>13. /\ l \in ConnRecord /\ l.received = k.received /\ l.socket = k.socket
       /\ l.closed = k.closed /\ l.ending = k.ending
       /\ l.wire = k.wire /\ l.out = Append(k.out, chunk)
  BY <1>1, <1>2, <1>3, <1>4, <1>7 DEF ConnRecord
<1>14. Says(k, l, chunk)
  BY <1>1, <1>13, ChunkQueued
<1>15. Only(n, m, c) /\ m.conn[c] = l
  BY <1>1, <1>8, <1>13, EditType DEF Only
<1>16. m \in NetRecord /\ a.net \in NetRecord
  BY <1>9, <1>12 DEF Outputs
<1>17. Only(n, a.net, c) /\ Says(k, a.net.conn[c], chunk)
  BY <1>1, <1>12, <1>14, <1>15, <1>16, SaysAfter
<1>18. QED
  BY <1>12, <1>17

LEMMA SentSettles ==
  ASSUME NEW S, NEW n \in Loose(S), NEW c \in Conn, NEW k, k = n.conn[c],
         ~ Mute(k), k.out = <<>>, Pending(k) + 1 <= MaxPending,
         NEW chunk \in Chunk, NEW a, a = Sent(n, c, chunk)
  PROVE  /\ a.ok \in BOOLEAN /\ a = [ok |-> a.ok, net |-> a.net]
         /\ a.net \in Loose(S \ {c}) /\ a.net \in Outputs(n)
         /\ Only(n, a.net, c) /\ Says(k, a.net.conn[c], chunk)
<1>1. /\ n \in NetRecord /\ k \in ConnRecord /\ Decent(k)
      /\ ~ k.closed /\ ~ k.ending /\ ~ Unreachable(k)
  BY LooseType DEF Mute
<1>2. PICK o \in Seq(Chunk) : o = k.out
  BY <1>1 DEF ConnRecord
<1>3. PICK w \in Seq(Chunk) : w = k.wire
  BY <1>1 DEF ConnRecord
<1>4. CASE k.socket = "ended"
  <2>1. PICK none : none = <<>>
    OBVIOUS
  <2>2. PICK l : l = [k EXCEPT !.socket = "destroyed", !.wire = none]
    OBVIOUS
  <2>3. /\ l \in ConnRecord /\ SameTask(k, l) /\ l.accounted = k.accounted
        /\ l.closed = k.closed /\ l.ending = k.ending
        /\ l.socket = "destroyed" /\ l.out = o /\ l.wire = none
    BY <1>1, <1>2, <1>4, <2>1, <2>2, NoOutput DEF ConnRecord, SameTask
  <2>4. Pending(l) <= Pending(k) /\ Pending(l) \in Nat /\ Pending(k) \in Nat
    <3>1. Len(none) = 0 /\ none \in Seq(Chunk)
      BY <2>1, NoOutput
    <3>2. PICK i \in Nat : i = Len(o)
      OBVIOUS
    <3>3. PICK j \in Nat : j = Len(w)
      OBVIOUS
    <3>4. Pending(l) = i + 0
      BY <2>3, <3>1, <3>2, PendingOf
    <3>5. Pending(k) = i + j
      BY <1>2, <1>3, <3>2, <3>3, PendingOf
    <3>6. QED
      BY <3>4, <3>5
  <2>5. Decent(l) /\ UpToDate(l)
    BY <1>1, <2>3, <2>4, Limits DEF Decent, UpToDate, Unreachable, SameTask
  <2>6. PICK m : m = Edit(n, c, l)
    OBVIOUS
  <2>7. m \in Loose(S \ {c}) /\ m \in Outputs(n)
    <3>1. l.arrived <= Asked(c)
      BY <2>3, LooseType DEF SameTask
    <3>2. QED
      BY <1>1, <2>3, <2>5, <2>6, <3>1, EditLoose, EditOutputs
  <2>8. [n EXCEPT !.conn[c] =
           [@ EXCEPT !.socket = "destroyed", !.wire = <<>>]] = m
    BY <1>1, <2>1, <2>2, <2>6 DEF NetRecord, ConnRecord, Edit
  <2>9. a = [ok |-> FALSE, net |-> m]
    BY <1>4, <2>8 DEF Sent, No
  <2>10. l.received = k.received
    BY <1>1, <2>2 DEF ConnRecord
  <2>11. Says(k, l, chunk)
    BY <1>1, <2>1, <2>3, <2>10, LostOutput DEF Says
  <2>12. Only(n, m, c) /\ m.conn[c] = l
    BY <1>1, <2>3, <2>6, EditType DEF Only
  <2>13. QED
    BY <2>7, <2>9, <2>11, <2>12
<1>5. CASE k.socket # "ended"
  <2>1. PICK v \in Seq(Chunk) : v = Append(w, chunk) /\ Len(v) = Len(w) + 1
    BY OneMore
  <2>2. PICK p \in BOOLEAN : p = (Len(v) >= HighWater)
    <3>1. Len(v) \in Nat /\ HighWater \in Nat
      BY Limits
    <3>2. (Len(v) >= HighWater) \in BOOLEAN
      BY <3>1, SMT
    <3>3. QED
      BY <3>2, Zenon
  <2>3. Len(o) + Len(v) <= Pending(k) + 1
    <3>1. Pending(k) = Len(o) + Len(w)
      BY <1>2, <1>3, PendingOf
    <3>2. PICK i \in Nat : i = Len(o)
      OBVIOUS
    <3>3. PICK j \in Nat : j = Len(w)
      OBVIOUS
    <3>4. QED
      BY <2>1, <3>1, <3>2, <3>3
  <2>4. PICK l : l = [k EXCEPT !.out = o, !.wire = v, !.pressed = p]
    OBVIOUS
  <2>5. PICK m : m = Edit(n, c, l)
    OBVIOUS
  <2>6. m \in Loose(S \cup {c}) /\ m \in Outputs(n)
    BY <1>1, <2>3, <2>4, <2>5, Joined
  <2>7. [n EXCEPT !.conn[c] = [@ EXCEPT !.wire = v, !.pressed = p]] = m
    BY <1>1, <1>2, <2>4, <2>5 DEF NetRecord, ConnRecord, Edit
  <2>8. a = Account(m, c, 0)
    BY <1>3, <1>5, <2>1, <2>2, <2>7 DEF Sent
  <2>9. /\ a.ok \in BOOLEAN /\ a = [ok |-> a.ok, net |-> a.net]
        /\ a.net \in Loose(S \ {c}) /\ a.net \in Outputs(n)
        /\ Only(m, a.net, c) /\ Quieter(m.conn[c], a.net.conn[c])
    BY <1>1, <2>6, <2>8, AccountAfter
  <2>10. k.socket = "open"
    BY <1>1, <1>5 DEF ConnRecord, Unreachable
  <2>11. /\ l \in ConnRecord /\ l.received = k.received /\ l.socket = "open"
         /\ l.out = <<>> /\ l.wire = Append(k.wire, chunk)
    BY <1>1, <1>2, <1>3, <2>1, <2>4, <2>10 DEF ConnRecord
  <2>12. Says(k, l, chunk)
    BY <1>1, <2>10, <2>11, ChunkSent
  <2>13. Only(n, m, c) /\ m.conn[c] = l
    BY <1>1, <2>5, <2>11, EditType DEF Only
  <2>14. m \in NetRecord /\ a.net \in NetRecord
    BY <2>6, <2>9 DEF Outputs
  <2>15. Only(n, a.net, c) /\ Says(k, a.net.conn[c], chunk)
    BY <1>1, <2>9, <2>12, <2>13, <2>14, SaysAfter
  <2>16. QED
    BY <2>9, <2>15
<1>6. QED
  BY <1>4, <1>5

(* After a write, or an attempt at one, the account of the connection is   *)
(* right, unless nothing was done because nobody is to hear of it.         *)
LEMMA WriteSettles ==
  ASSUME NEW S, NEW n \in Loose(S), NEW c \in Conn,
         NEW chunk \in Chunk, NEW r, r = Write(n, c, chunk)
  PROVE  /\ r.ok \in BOOLEAN /\ r = [ok |-> r.ok, net |-> r.net]
         /\ r.net \in Loose(S) /\ r.net \in Outputs(n)
         /\ Mute(n.conn[c]) => r.net = n /\ ~ r.ok
         /\ ~ Mute(n.conn[c]) => r.net \in Loose(S \ {c})
         /\ Only(n, r.net, c) /\ Says(n.conn[c], r.net.conn[c], chunk)
<1>1. PICK k : k = n.conn[c]
  OBVIOUS
<1>2. n \in NetRecord /\ k \in ConnRecord /\ Decent(k)
  BY <1>1, LooseType
<1>3. CASE Mute(k)
  <2>1. r = [ok |-> FALSE, net |-> n]
    BY <1>1, <1>3 DEF Write, No
  <2>2. Says(k, k, chunk)
    BY <1>2, <1>3, QuieterReflexive DEF Says, Quieter, Reaches
  <2>3. QED
    BY <1>1, <1>2, <1>3, <2>1, <2>2, OutputsReflexive DEF Only
<1>4. SUFFICES ASSUME ~ Mute(k)
               PROVE  /\ r.ok \in BOOLEAN /\ r = [ok |-> r.ok, net |-> r.net]
                      /\ r.net \in Loose(S \ {c}) /\ r.net \in Outputs(n)
                      /\ Only(n, r.net, c) /\ Says(k, r.net.conn[c], chunk)
  <2>1. Loose(S \ {c}) \subseteq Loose(S)
    BY Looser
  <2>2. QED
    BY <1>1, <1>3, <2>1
<1>5. ~ k.closed /\ ~ k.ending /\ ~ Unreachable(k)
  BY <1>4 DEF Mute
<1>6. CASE Pending(k) + 1 > MaxPending
  <2>1. r = [ok |-> FALSE, net |-> Disconnect(n, c)]
    BY <1>1, <1>4, <1>6 DEF Write, No
  <2>2. PICK m : m = Disconnect(n, c)
    OBVIOUS
  <2>3. Only(n, m, c) /\ Quieter(k, m.conn[c]) /\ ~ Reaches(m.conn[c])
    BY <1>1, <2>2, DisconnectQuiet
  <2>4. QED
    BY <1>1, <1>5, <2>1, <2>2, <2>3, DisconnectLoose DEF Quieter, Says
<1>7. CASE ~ (Pending(k) + 1 > MaxPending)
  <2>1. PICK a : a = Account(n, c, 1)
    OBVIOUS
  <2>2. r = WriteBehind(k, a, c, chunk)
    BY <1>1, <1>4, <1>7, <2>1 DEF Write
  <2>3. /\ a = [ok |-> a.ok, net |-> a.net] /\ a.ok \in BOOLEAN
        /\ a.net \in Loose(S \ {c}) /\ a.net \in Outputs(n)
        /\ a.ok => a.net.conn[c] = [k EXCEPT !.accounted = Held(k)]
        /\ Only(n, a.net, c) /\ Quieter(k, a.net.conn[c])
        /\ ~ a.ok => ~ Reaches(a.net.conn[c])
    <3>1. /\ a = [ok |-> a.ok, net |-> a.net] /\ a.ok \in BOOLEAN
          /\ a.net \in Loose(S \ {c}) /\ a.net \in Outputs(n)
          /\ a.ok => a.net.conn[c] = [k EXCEPT !.accounted = Held(k)]
      BY <1>1, <1>5, <2>1, AccountSettles
    <3>2. /\ Only(n, a.net, c) /\ Quieter(k, a.net.conn[c])
          /\ ~ a.ok => ~ Reaches(a.net.conn[c])
      BY <1>1, <1>5, <2>1, AccountQuiet
    <3>3. QED
      BY <3>1, <3>2
  <2>4. CASE ~ a.ok
    <3>1. r = a
      BY <2>2, <2>4 DEF WriteBehind
    <3>2. Says(k, a.net.conn[c], chunk)
      BY <2>3, <2>4 DEF Quieter, Says
    <3>3. QED
      BY <2>3, <3>1, <3>2
  <2>5. CASE a.ok
    <3>1. PICK m : m = a.net
      OBVIOUS
    <3>2. PICK l : l = m.conn[c]
      OBVIOUS
    <3>3. /\ l.out = k.out /\ l.wire = k.wire
          /\ l.closed = k.closed /\ l.ending = k.ending
          /\ l.socket = k.socket
      BY <1>2, <2>3, <2>5, <3>1, <3>2 DEF ConnRecord
    <3>4. Pending(l) + 1 <= MaxPending
      <4>1. PICK i \in Nat : i = Pending(k)
        BY <1>2, HeldType
      <4>2. Pending(l) = i
        BY <3>3, <4>1, Zenon DEF Pending
      <4>3. QED
        BY <1>7, <4>1, <4>2, Limits
    <3>5. PICK T : T = S \ {c}
      OBVIOUS
    <3>6. m \in Loose(T) /\ m \in Outputs(n) /\ T \ {c} = T
      BY <2>3, <3>1, <3>5
    <3>7. \/ r = Queued(m, c, chunk)
          \/ r = Sent(m, c, chunk) /\ l.out = <<>>
      BY <2>2, <2>5, <3>1, <3>3 DEF WriteBehind
    <3>8. ~ Mute(l)
      BY <1>4, <3>3 DEF Mute, Unreachable
    <3>9. /\ r.ok \in BOOLEAN /\ r = [ok |-> r.ok, net |-> r.net]
          /\ r.net \in Loose(T \ {c}) /\ r.net \in Outputs(m)
          /\ Only(m, r.net, c) /\ Says(l, r.net.conn[c], chunk)
      <4>1. CASE r = Queued(m, c, chunk)
        BY <3>2, <3>4, <3>6, <3>8, <4>1, QueuedSettles
      <4>2. CASE r = Sent(m, c, chunk) /\ l.out = <<>>
        BY <3>2, <3>4, <3>6, <3>8, <4>2, SentSettles
      <4>3. QED
        BY <3>7, <4>1, <4>2
    <3>10. r.net \in Outputs(n)
      BY <1>2, <3>6, <3>9, OutputsTransitive
    <3>11. Says(k, r.net.conn[c], chunk)
      <4>1. l \in ConnRecord /\ r.net.conn[c] \in ConnRecord
        BY <3>2, <3>6, <3>9, LooseType
      <4>2. Quieter(k, l)
        BY <2>3, <3>1, <3>2
      <4>3. QED
        BY <1>2, <3>9, <4>1, <4>2, QuieterThenSays
    <3>12. Only(n, r.net, c)
      BY <2>3, <3>1, <3>9 DEF Only
    <3>13. QED
      BY <3>5, <3>6, <3>9, <3>10, <3>11, <3>12
  <2>6. QED
    BY <2>3, <2>4, <2>5
<1>8. QED
  BY <1>6, <1>7

-----------------------------------------------------------------------------
(* Loops of writes.                                                        *)

Sending(S, n) == Loose(S) \cap Outputs(n)

LEMMA SendingBegins ==
  ASSUME NEW S, NEW n \in Loose(S)
  PROVE  n \in Sending(S, n)
BY LooseType, OutputsReflexive DEF Sending

LEMMA SendingGoesOn ==
  ASSUME NEW S, NEW n \in Loose(S), NEW m \in Sending(S, n),
         NEW o \in Sending(S, m)
  PROVE  o \in Sending(S, n)
BY LooseType, OutputsTransitive DEF Sending

LEMMA WriteSends ==
  ASSUME NEW S, NEW n \in Loose(S), NEW c \in Conn, NEW chunk \in Chunk
  PROVE  Write(n, c, chunk).net \in Sending(S, n)
BY WriteSettles DEF Sending

LEMMA MessageType ==
  ASSUME NEW ch \in Channel, NEW event \in Announcement \cup {"note"}
  PROVE  Message(ch, event) \in Chunk
BY DEF Message, Chunk

(* Messages go in between the replies.                                     *)
LEMMA WriteChats ==
  ASSUME NEW S, NEW n \in Loose(S), NEW c \in Conn, NEW chunk \in Chunk,
         ~ IsReply(chunk)
  PROVE  Write(n, c, chunk).net \in Chatting(n)
<1>1. PICK m : m = Write(n, c, chunk).net
  OBVIOUS
<1>2. m \in Outputs(n) /\ Only(n, m, c) /\ Says(n.conn[c], m.conn[c], chunk)
  BY <1>1, WriteSettles
<1>3. n \in NetRecord /\ m \in NetRecord /\ SameTask(n.conn[c], m.conn[c])
  BY <1>2, LooseType DEF Outputs
<1>4. n.conn[c] \in ConnRecord /\ m.conn[c] \in ConnRecord
  BY <1>3, ConnType
<1>5. PICK s : s = plan.script[c]
  OBVIOUS
<1>6. \A t \in Int : Continues(s, chunk, t, t)
  BY DEF Continues
<1>7. \A t \in Int : Heard(s, n.conn[c], t) => Heard(s, m.conn[c], t)
  BY <1>2, <1>4, <1>6, SaidHeard
<1>8. Chat(s, n.conn[c], m.conn[c])
  BY <1>3, <1>7 DEF Chat, SameTask
<1>9. QED
  BY <1>1, <1>2, <1>3, <1>5, <1>8, OnlyChatting

Informing(S, n) == Sending(S, n) \cap Chatting(n)

LEMMA InformingBegins ==
  ASSUME NEW S, NEW n \in Loose(S)
  PROVE  n \in Informing(S, n)
BY SendingBegins, LooseType, ChatReflexive DEF Informing, Chatting

LEMMA InformingGoesOn ==
  ASSUME NEW S, NEW n \in Loose(S), NEW m \in Informing(S, n),
         NEW o \in Informing(S, m)
  PROVE  o \in Informing(S, n)
<1>1. n \in NetRecord /\ o \in Sending(S, n)
  BY LooseType, SendingGoesOn DEF Informing
<1>2. o \in Chatting(n)
  BY <1>1, ChattingTransitive DEF Informing
<1>3. QED
  BY <1>1, <1>2 DEF Informing

(* The parameter of the fold is the message.                               *)
WriteOp(chunk, m, c) == Write(m, c, chunk).net
Writing == INSTANCE FoldTheorems WITH Op <- WriteOp

LEMMA PublishInforms ==
  ASSUME NEW S, NEW n \in Loose(S), NEW ch \in Channel,
         NEW event \in Announcement \cup {"note"}
  PROVE  Publish(n, ch, event) \in Informing(S, n)
<1>1. Publish(n, ch, event) = Writing!Folded(Message(ch, event), n, n.hub[ch])
  BY Zenon DEF Publish, WriteOp, Writing!Folded, FoldLeft,
     Writing!MapThenFoldSet, MapThenFoldSet, Writing!Top, Max
<1>2. PICK chunk \in Chunk : chunk = Message(ch, event)
  BY MessageType
<1>3. PICK seq \in Seq(Conn) : seq = n.hub[ch]
  BY LooseType DEF NetRecord
<1>4. PICK A : A = Informing(S, n)
  OBVIOUS
<1>5. PICK B : B = Conn
  OBVIOUS
<1>6. \A a \in A, b \in B : WriteOp(chunk, a, b) \in A
  <2>1. SUFFICES ASSUME NEW a \in Informing(S, n), NEW b \in Conn
                 PROVE  Write(a, b, chunk).net \in Informing(S, n)
    BY <1>4, <1>5 DEF WriteOp
  <2>2. a \in Loose(S)
    BY DEF Informing, Sending
  <2>3. ~ IsReply(chunk)
    BY <1>2 DEF IsReply, Message
  <2>4. Write(a, b, chunk).net \in Informing(S, a)
    BY <2>2, <2>3, WriteSends, WriteChats DEF Informing
  <2>5. QED
    BY <2>4, InformingGoesOn
<1>7. Writing!Folded(chunk, n, seq) \in A
  BY <1>4, <1>5, <1>6, InformingBegins, Writing!FoldLeftInvariant
<1>8. QED
  BY <1>1, <1>2, <1>3, <1>4, <1>7

PublishOp(p, m, e) == Publish(m, Invalidate, e)
Publishing == INSTANCE FoldTheorems WITH Op <- PublishOp

LEMMA PublishAllInforms ==
  ASSUME NEW S, NEW n \in Loose(S), NEW events \in Seq(Announcement)
  PROVE  PublishAll(n, events) \in Informing(S, n)
<1>1. PublishAll(n, events) = Publishing!Folded(0, n, events)
  BY Zenon DEF PublishAll, PublishOp, Publishing!Folded, FoldLeft, Publishing!MapThenFoldSet, MapThenFoldSet, Publishing!Top, Max
<1>2. PICK A : A = Informing(S, n)
  OBVIOUS
<1>3. PICK B : B = Announcement
  OBVIOUS
<1>4. \A a \in A, b \in B : PublishOp(0, a, b) \in A
  <2>1. SUFFICES ASSUME NEW a \in Informing(S, n), NEW b \in Announcement
                 PROVE  Publish(a, Invalidate, b) \in Informing(S, n)
    BY <1>2, <1>3 DEF PublishOp
  <2>2. a \in Loose(S)
    BY DEF Informing, Sending
  <2>3. Publish(a, Invalidate, b) \in Informing(S, a)
    BY <2>2, ServerAssumption, PublishInforms
  <2>4. QED
    BY <2>3, InformingGoesOn
<1>5. Publishing!Folded(0, n, events) \in A
  BY <1>2, <1>3, <1>4, InformingBegins, Publishing!FoldLeftInvariant
<1>6. QED
  BY <1>1, <1>2, <1>5

LEMMA ReplyType ==
  ASSUME NEW n \in NetRecord, NEW c \in Conn, NEW kind \in ReplyKind
  PROVE  [kind |-> kind, re |-> n.conn[c].taken] \in Chunk
<1>1. n.conn[c].taken \in Nat
  BY ConnType DEF ConnRecord
<1>2. QED
  BY <1>1 DEF Chunk

LEMMA ReplySends ==
  ASSUME NEW S, NEW n \in Loose(S), NEW c \in Conn, NEW kind \in ReplyKind
  PROVE  /\ Reply(n, c, kind) \in Sending(S, n)
         /\ Mute(n.conn[c]) => Reply(n, c, kind) = n
         /\ ~ Mute(n.conn[c]) => Reply(n, c, kind) \in Loose(S \ {c})
<1>1. PICK chunk \in Chunk : chunk = [kind |-> kind, re |-> n.conn[c].taken]
  BY LooseType, ReplyType
<1>2. Reply(n, c, kind) = Write(n, c, chunk).net
  BY <1>1 DEF Reply
<1>3. QED
  BY <1>2, WriteSettles DEF Sending

-----------------------------------------------------------------------------
(* Turns.                                                                  *)

(* An edit that neither moves output nor ends the connection, and does not *)
(* make one that is closed hold more.                                      *)
Handled(k, l) ==
  /\ l.accounted = k.accounted /\ l.socket = k.socket
  /\ l.closed = k.closed /\ l.ending = k.ending /\ l.pressed = k.pressed
  /\ l.out = k.out /\ l.wire = k.wire
  /\ l.arrived = k.arrived /\ l.taken <= l.arrived

LEMMA HandledLoose ==
  ASSUME NEW S, NEW n \in Loose(S), NEW c \in Conn, NEW l \in ConnRecord,
         Handled(n.conn[c], l),
         ~ l.closed \/ Held(l) <= Held(n.conn[c])
  PROVE  /\ Edit(n, c, l) \in Loose(S \cup {c})
         /\ Held(l) = Held(n.conn[c]) => Edit(n, c, l) \in Loose(S)
<1>1. PICK k : k = n.conn[c]
  OBVIOUS
<1>2. /\ k \in ConnRecord /\ Decent(k) /\ (c \notin S => UpToDate(k))
      /\ Handled(k, l)
  BY <1>1, LooseType
<1>3. Held(k) \in Nat /\ Held(l) \in Nat
  BY <1>2, HeldType DEF Decent, Handled
<1>4. Pending(l) = Pending(k)
  BY <1>2, Zenon DEF Pending, Handled
<1>5. l.closed => Held(l) <= Held(k)
  BY <1>1
<1>6. k.accounted \in Nat
  BY <1>2 DEF ConnRecord
<1>7. Decent(l)
  <2>1. PICK h \in Nat : h = Held(k)
    BY <1>3
  <2>2. PICK i \in Nat : i = Held(l)
    BY <1>3
  <2>3. k.closed /\ ~ Unreachable(k) => h <= k.accounted
    BY <1>2, <2>1 DEF Decent
  <2>4. l.closed /\ ~ Unreachable(l) => i <= l.accounted
    BY <1>2, <1>5, <1>6, <2>1, <2>2, <2>3 DEF Handled, Unreachable
  <2>5. QED
    BY <1>2, <1>4, <2>2, <2>4 DEF Decent, Handled
<1>8. l.accounted = n.conn[c].accounted /\ l.arrived <= Asked(c)
  BY <1>1, <1>2, LooseType DEF Handled
<1>9. Edit(n, c, l) \in Loose(S \cup {c})
  BY <1>7, <1>8, EditLoose
<1>10. ASSUME Held(l) = Held(k) PROVE Edit(n, c, l) \in Loose(S)
  <2>1. c \notin S => UpToDate(l)
    BY <1>2, <1>10 DEF UpToDate, Handled, Unreachable
  <2>2. QED
    BY <1>7, <1>8, <2>1, EditLoose
<1>11. QED
  BY <1>1, <1>9, <1>10

LEMMA LoopExact ==
  ASSUME NEW n \in Exact, NEW c \in Conn,
         NEW state \in {"idle", "running", "waiting"}
  PROVE  [n EXCEPT !.conn[c].loop = state] \in Exact
<1>1. PICK x : x = n.conn[c]
  OBVIOUS
<1>2. n \in NetRecord /\ x \in ConnRecord /\ Decent(x)
  BY <1>1, LooseType DEF Exact
<1>3. PICK y : y = [x EXCEPT !.loop = state]
  OBVIOUS
<1>4. /\ y \in ConnRecord
      /\ y.active = x.active /\ y.arrived = x.arrived /\ y.taken = x.taken
      /\ y.tx = x.tx /\ y.watch = x.watch /\ y.subs = x.subs
      /\ y.out = x.out /\ y.wire = x.wire
      /\ y.accounted = x.accounted /\ y.socket = x.socket
      /\ y.closed = x.closed /\ y.ending = x.ending /\ y.pressed = x.pressed
  BY <1>2, <1>3 DEF ConnRecord
<1>5. Handled(n.conn[c], y)
  BY <1>1, <1>2, <1>4 DEF Handled, Decent
<1>6. Held(y) = Held(n.conn[c]) /\ Held(y) <= Held(n.conn[c])
  <2>1. Weight(y) = Weight(x)
    BY <1>4, SameParts
  <2>2. PICK h \in Nat : h = Held(x)
    BY <1>2, HeldType DEF Decent
  <2>3. Held(y) = h
    BY <1>2, <1>4, <2>1, <2>2, HeldType
  <2>4. QED
    BY <1>1, <2>2, <2>3
<1>7. PICK S : S = {}
  OBVIOUS
<1>8. n \in Loose(S)
  BY <1>7 DEF Exact
<1>9. Edit(n, c, y) \in Loose(S)
  BY <1>4, <1>5, <1>6, <1>8, HandledLoose
<1>10. [n EXCEPT !.conn[c].loop = state] = Edit(n, c, y)
  BY <1>1, <1>2, <1>3 DEF Edit, NetRecord, ConnRecord
<1>11. QED
  BY <1>7, <1>9, <1>10 DEF Exact

(* The turn is over: the account is right, whatever it was before.         *)
LEMMA TurnedExact ==
  ASSUME NEW S, NEW n \in Loose(S), NEW c \in Conn, S \subseteq {c}
  PROVE  /\ Turned(n, c) \in Exact
         /\ [Turned(n, c) EXCEPT !.conn[c].loop = "idle"] \in Exact
<1>1. PICK k : k = n.conn[c]
  OBVIOUS
<1>2. n \in NetRecord /\ k \in ConnRecord /\ Decent(k)
  BY <1>1, LooseType
<1>3. PICK l : l = [k EXCEPT !.active = 0]
  OBVIOUS
<1>4. /\ l \in ConnRecord /\ l.active = 0 /\ l.arrived = k.arrived
      /\ l.taken = k.taken /\ l.tx = k.tx /\ l.watch = k.watch
      /\ l.subs = k.subs /\ l.out = k.out /\ l.wire = k.wire
      /\ l.accounted = k.accounted /\ l.socket = k.socket
      /\ l.closed = k.closed /\ l.ending = k.ending /\ l.pressed = k.pressed
  BY <1>2, <1>3 DEF ConnRecord
<1>5. Held(l) <= Held(k)
  <2>1. Weight(l) = Weight(k)
    BY <1>4, SameParts
  <2>2. Held(l) = (k.arrived - k.taken) + 0 + Weight(k)
    BY <1>4, <2>1, HeldType
  <2>3. Held(k) = (k.arrived - k.taken) + k.active + Weight(k)
    BY <1>2, HeldType
  <2>4. /\ k.arrived \in Nat /\ k.taken \in Nat /\ k.active \in Nat
        /\ Weight(k) \in Nat
    BY <1>2, HeldType DEF ConnRecord
  <2>5. QED
    BY <2>2, <2>3, <2>4
<1>6. Handled(k, l)
  BY <1>2, <1>4 DEF Handled, Decent
<1>7. PICK m : m = Edit(n, c, l)
  OBVIOUS
<1>8. PICK T : T = S \cup {c}
  OBVIOUS
<1>9. m \in Loose(T) /\ T \ {c} = {}
  BY <1>1, <1>5, <1>6, <1>4, <1>7, <1>8, HandledLoose
<1>10. [n EXCEPT !.conn[c].active = 0] = m
  BY <1>1, <1>2, <1>3, <1>7 DEF Edit, NetRecord, ConnRecord
<1>11. PICK a : a = Account(m, c, 0)
  OBVIOUS
<1>12. a.ok \in BOOLEAN /\ a.net \in Exact
  BY <1>9, <1>11, AccountSettles DEF Exact
<1>13. Turned(n, c) = GoesOn(a, c)
  BY <1>10, <1>11 DEF Turned
<1>14. PICK state \in {"idle", "running"} :
         GoesOn(a, c) = [a.net EXCEPT !.conn[c].loop = state]
  BY DEF GoesOn
<1>15. PICK b \in Exact : b = a.net
  BY <1>12
<1>16. Turned(n, c) \in Exact
  <2>1. [b EXCEPT !.conn[c].loop = state] \in Exact
    BY LoopExact
  <2>2. QED
    BY <1>13, <1>14, <1>15, <2>1
<1>17. QED
  BY <1>16, LoopExact

(* endSocket() ends the connection only with its account up to date, or    *)
(* does nothing.                                                           *)
LEMMA EndSocketLoose ==
  ASSUME NEW S, NEW n \in Loose(S), NEW c \in Conn,
         Mute(n.conn[c]) \/ UpToDate(n.conn[c])
  PROVE  EndSocket(n, c) \in Loose(S \cup {c})
<1>1. PICK k : k = n.conn[c]
  OBVIOUS
<1>2. n \in NetRecord /\ k \in ConnRecord /\ Decent(k)
  BY <1>1, LooseType
<1>3. CASE k.closed
  <2>1. EndSocket(n, c) = n
    BY <1>1, <1>3 DEF EndSocket
  <2>2. QED
    BY <2>1, Looser
<1>4. CASE ~ k.closed
  <2>1. PICK now \in BOOLEAN : now <=> (~ k.pressed /\ k.out = <<>>)
    OBVIOUS
  <2>2. now = (~ k.pressed /\ k.out = <<>>)
    BY <2>1, SMT
  <2>3. PICK s : s = IF now /\ k.socket = "open" THEN "ended" ELSE k.socket
    OBVIOUS
  <2>4. /\ s \in {"none", "open", "ended", "destroyed", "gone"}
        /\ s \in {"none", "destroyed", "gone"} <=> Unreachable(k)
        /\ s = "none" <=> k.socket = "none"
        /\ s = "gone" <=> k.socket = "gone"
    BY <1>2, <2>3 DEF ConnRecord, Unreachable
  <2>5. PICK l : l = [k EXCEPT !.ending = TRUE, !.closed = now, !.socket = s]
    OBVIOUS
  <2>6. /\ l \in ConnRecord /\ l.active = k.active /\ l.arrived = k.arrived
        /\ l.taken = k.taken /\ l.tx = k.tx /\ l.watch = k.watch
        /\ l.subs = k.subs /\ l.out = k.out /\ l.wire = k.wire
        /\ l.accounted = k.accounted /\ l.pressed = k.pressed
        /\ l.ending = TRUE /\ l.closed = now /\ l.socket = s
    BY <1>2, <2>4, <2>5 DEF ConnRecord
  <2>7. Pending(l) = Pending(k) /\ Held(l) = Held(k) /\ Held(k) \in Nat
    <3>1. Weight(l) = Weight(k) /\ Pending(l) = Pending(k)
      BY <2>6, SameParts
    <3>2. QED
      BY <1>2, <2>6, <3>1, HeldType DEF Decent
  <2>8. now /\ ~ Unreachable(k) => k.accounted = Held(k)
    BY <1>1, <1>2, <1>4, <2>1 DEF Mute, UpToDate, Decent
  <2>9. Decent(l)
    <3>1. l.ending /\ ~ l.closed => l.pressed \/ l.out # <<>>
      BY <2>1, <2>6
    <3>2. Unreachable(l) <=> Unreachable(k)
      BY <2>4, <2>6 DEF Unreachable
    <3>3. l.closed /\ ~ Unreachable(l) => Held(l) <= l.accounted
      BY <2>6, <2>7, <2>8, <3>2
    <3>4. l.socket \notin {"none", "gone"}
      BY <1>2, <1>4, <2>4, <2>6 DEF Decent
    <3>5. QED
      BY <1>2, <2>4, <2>6, <2>7, <3>1, <3>3, <3>4 DEF Decent
  <2>10. Edit(n, c, l) \in Loose(S \cup {c})
    <3>1. l.arrived <= Asked(c)
      BY <1>1, <2>6, LooseType
    <3>2. QED
      BY <1>1, <2>6, <2>9, <3>1, EditLoose
  <2>11. EndSocket(n, c) = Edit(n, c, l)
    BY <1>1, <1>4, <2>2, <2>3, <2>5 DEF EndSocket, Edit
  <2>12. QED
    BY <2>10, <2>11
<1>5. QED
  BY <1>3, <1>4

(* The others are told what there is to tell while a command of c runs.    *)
Others(c, n) ==
  \A d \in Conn : d # c => Chat(plan.script[d], conn[d], n.conn[d])

(* All but the request that is being served has its reply; all has.        *)
Due(c, k) ==
  /\ k.taken = conn[c].taken + 1 /\ k.active = 1 /\ k.socket # "none"
  /\ Heard(plan.script[c], k, k.taken - 1)

Answered(c, k) == k.socket # "none" /\ Heard(plan.script[c], k, k.taken)

Ended(c, n) ==
  /\ n.conn[c].active = 0 /\ n.conn[c].loop \in {"idle", "running"}
  /\ Answered(c, n.conn[c]) /\ Others(c, n)

(* Between the start of a command of c and its reply, and after its turn.  *)
Underway(c) == {n \in Loose({c}) : Due(c, n.conn[c]) /\ Others(c, n)}

AtRest(c) == {n \in Exact : Ended(c, n)}

LEMMA OthersOnly ==
  ASSUME NEW c \in Conn, NEW n, NEW m, Others(c, n), Only(n, m, c)
  PROVE  Others(c, m)
BY DEF Others, Only

LEMMA OthersChat ==
  ASSUME NEW c \in Conn, NEW n, NEW m \in Chatting(n), Others(c, n)
  PROVE  Others(c, m)
BY ChatTransitive DEF Others, Chatting

LEMMA DueOutput ==
  ASSUME NEW c \in Conn, NEW n \in NetRecord, NEW m \in Outputs(n),
         m \in Chatting(n), Due(c, n.conn[c])
  PROVE  Due(c, m.conn[c])
<1>1. PICK k : k = n.conn[c]
  OBVIOUS
<1>2. PICK l : l = m.conn[c]
  OBVIOUS
<1>3. PICK s : s = plan.script[c]
  OBVIOUS
<1>4. k \in ConnRecord /\ SameTask(k, l) /\ Chat(s, k, l)
  BY <1>1, <1>2, <1>3, ConnType DEF Outputs, Chatting
<1>5. PICK t \in Int : t = k.taken - 1
  BY <1>4 DEF ConnRecord
<1>6. Heard(s, k, t)
  BY <1>1, <1>3, <1>5 DEF Due
<1>7. Heard(s, l, t) /\ l.taken = k.taken
  BY <1>4, <1>6 DEF Chat, SameTask
<1>8. QED
  BY <1>1, <1>2, <1>3, <1>4, <1>5, <1>7 DEF Due, SameTask

LEMMA UnderwayGoesOn ==
  ASSUME NEW c \in Conn, NEW n \in Underway(c), NEW m \in Informing({c}, n)
  PROVE  m \in Underway(c)
<1>1. n \in NetRecord
  BY LooseType DEF Underway
<1>2. m \in Loose({c}) /\ m \in Outputs(n) /\ m \in Chatting(n)
  BY DEF Informing, Sending
<1>3. QED
  BY <1>1, <1>2, DueOutput, OthersChat DEF Underway

LoopSet(n, c, state) == [n EXCEPT !.conn[c].loop = state]

LEMMA SetLoop ==
  ASSUME NEW n \in NetRecord, NEW c \in Conn,
         NEW state \in {"idle", "running"}
  PROVE  /\ LoopSet(n, c, state) \in NetRecord
         /\ Only(n, LoopSet(n, c, state), c)
         /\ LoopSet(n, c, state).conn[c] = [n.conn[c] EXCEPT !.loop = state]
         /\ Quieter(n.conn[c], LoopSet(n, c, state).conn[c])
<1>1. PICK k : k = n.conn[c]
  OBVIOUS
<1>2. PICK l : l = [k EXCEPT !.loop = state]
  OBVIOUS
<1>3. k \in ConnRecord
  BY <1>1, ConnType
<1>4. /\ l \in ConnRecord /\ l.received = k.received /\ l.wire = k.wire
      /\ l.out = k.out /\ l.socket = k.socket /\ l.closed = k.closed
      /\ l.ending = k.ending
  BY <1>2, <1>3 DEF ConnRecord
<1>5. PICK m : m = LoopSet(n, c, state)
  OBVIOUS
<1>6. m = Edit(n, c, l)
  BY <1>5, <1>1, <1>2 DEF LoopSet, Edit, NetRecord, ConnRecord
<1>7. /\ m \in NetRecord /\ m.conn[c] = l
      /\ \A d \in Conn : d # c => m.conn[d] = n.conn[d]
  <2>1. PICK e : e = Edit(n, c, l)
    OBVIOUS
  <2>2. /\ e \in NetRecord /\ e.conn[c] = l
        /\ \A d \in Conn : d # c => e.conn[d] = n.conn[d]
    BY <1>4, <2>1, EditType
  <2>3. m = e
    BY <1>6, <2>1
  <2>4. QED
    BY <2>2, <2>3
<1>8. Quieter(k, l)
  BY <1>3, <1>4, SameOutput
<1>9. QED
  BY <1>1, <1>2, <1>5, <1>7, <1>8 DEF Only

LEMMA HeardStays ==
  ASSUME NEW c \in Conn, NEW k \in ConnRecord, NEW l \in ConnRecord,
         Answered(c, k), Quieter(k, l), l.taken = k.taken,
         l.socket = "none" => k.socket = "none"
  PROVE  Answered(c, l)
BY QuieterHeard DEF Answered

LEMMA LoopSetEnds ==
  ASSUME NEW c \in Conn, NEW n \in NetRecord, n.conn[c].active = 0,
         Answered(c, n.conn[c]), Others(c, n),
         NEW state \in {"idle", "running"},
         NEW m, m = LoopSet(n, c, state)
  PROVE  Ended(c, m) /\ m \in NetRecord
<1>1. PICK k : k = n.conn[c]
  OBVIOUS
<1>2. PICK l : l = m.conn[c]
  OBVIOUS
<1>3. /\ m \in NetRecord /\ Only(n, m, c) /\ Quieter(n.conn[c], m.conn[c])
      /\ m.conn[c] = [n.conn[c] EXCEPT !.loop = state]
  <2>1. PICK e : e = LoopSet(n, c, state)
    OBVIOUS
  <2>2. /\ e \in NetRecord /\ Only(n, e, c) /\ Quieter(n.conn[c], e.conn[c])
        /\ e.conn[c] = [n.conn[c] EXCEPT !.loop = state]
    BY <2>1, SetLoop
  <2>3. m = e
    BY <2>1
  <2>4. QED
    BY <2>2, <2>3
<1>4. n.conn[c] \in ConnRecord /\ m.conn[c] \in ConnRecord
  BY <1>3, ConnType
<1>5. k \in ConnRecord /\ l \in ConnRecord
  BY <1>1, <1>2, <1>4
<1>6. Quieter(k, l) /\ l = [k EXCEPT !.loop = state]
  BY <1>1, <1>2, <1>3
<1>7. /\ l.active = k.active /\ l.taken = k.taken /\ l.socket = k.socket
      /\ l.loop = state
  BY <1>5, <1>6 DEF ConnRecord
<1>8. Answered(c, l)
  BY <1>1, <1>5, <1>6, <1>7, HeardStays
<1>9. Others(c, m)
  BY <1>3, OthersOnly
<1>10. QED
  BY <1>1, <1>2, <1>3, <1>7, <1>8, <1>9 DEF Ended

LEMMA TurnedEnds ==
  ASSUME NEW S, NEW n \in Loose(S), NEW c \in Conn, S \subseteq {c},
         Answered(c, n.conn[c]), Others(c, n)
  PROVE  /\ Ended(c, Turned(n, c))
         /\ Ended(c, LoopSet(Turned(n, c), c, "idle"))
<1>1. PICK k : k = n.conn[c]
  OBVIOUS
<1>2. n \in NetRecord /\ k \in ConnRecord /\ Decent(k)
  BY <1>1, LooseType
<1>3. PICK l : l = [k EXCEPT !.active = 0]
  OBVIOUS
<1>4. /\ l \in ConnRecord /\ l.active = 0 /\ l.arrived = k.arrived
      /\ l.taken = k.taken /\ l.tx = k.tx /\ l.watch = k.watch
      /\ l.subs = k.subs /\ l.out = k.out /\ l.wire = k.wire
      /\ l.received = k.received
      /\ l.accounted = k.accounted /\ l.socket = k.socket
      /\ l.closed = k.closed /\ l.ending = k.ending /\ l.pressed = k.pressed
  BY <1>2, <1>3 DEF ConnRecord
<1>5. Held(l) <= Held(k)
  <2>1. Weight(l) = Weight(k)
    BY <1>4, SameParts
  <2>2. Held(l) = (k.arrived - k.taken) + 0 + Weight(k)
    BY <1>4, <2>1, HeldType
  <2>3. Held(k) = (k.arrived - k.taken) + k.active + Weight(k)
    BY <1>2, HeldType
  <2>4. /\ k.arrived \in Nat /\ k.taken \in Nat /\ k.active \in Nat
        /\ Weight(k) \in Nat
    BY <1>2, HeldType DEF ConnRecord
  <2>5. QED
    BY <2>2, <2>3, <2>4
<1>6. Handled(k, l)
  BY <1>2, <1>4 DEF Handled, Decent
<1>7. PICK m : m = Edit(n, c, l)
  OBVIOUS
<1>8. PICK T : T = S \cup {c}
  OBVIOUS
<1>9. m \in Loose(T)
  BY <1>1, <1>5, <1>6, <1>4, <1>7, <1>8, HandledLoose
<1>10. [n EXCEPT !.conn[c].active = 0] = m
  BY <1>1, <1>2, <1>3, <1>7 DEF Edit, NetRecord, ConnRecord
<1>11. m.conn[c] = l /\ Only(n, m, c)
  BY <1>2, <1>4, <1>7, EditType DEF Only
<1>12. Quieter(k, l) /\ Answered(c, l)
  BY <1>1, <1>2, <1>4, SameOutput, HeardStays
<1>13. PICK a : a = Account(m, c, 0)
  OBVIOUS
<1>14. PICK b : b = a.net
  OBVIOUS
<1>15. b \in Outputs(m) /\ Only(m, b, c) /\ Quieter(l, b.conn[c])
  BY <1>9, <1>11, <1>13, <1>14, AccountSettles, AccountQuiet
<1>16. /\ b \in NetRecord /\ b.conn[c] \in ConnRecord /\ b.conn[c].active = 0
       /\ b.conn[c].taken = l.taken
       /\ b.conn[c].socket = "none" => l.socket = "none"
  BY <1>4, <1>11, <1>15, ConnType DEF Outputs, SameTask
<1>17. Answered(c, b.conn[c])
  BY <1>4, <1>12, <1>15, <1>16, HeardStays
<1>18. Others(c, b)
  BY <1>11, <1>15, OthersOnly
<1>19. PICK e : e = Turned(n, c)
  OBVIOUS
<1>20. e = GoesOn(a, c)
  BY <1>10, <1>13, <1>19 DEF Turned
<1>21. PICK state \in {"idle", "running"} : e = LoopSet(b, c, state)
  BY <1>14, <1>20 DEF GoesOn, LoopSet
<1>22. Ended(c, e) /\ e \in NetRecord
  BY <1>16, <1>17, <1>18, <1>21, LoopSetEnds
<1>23. PICK g : g = LoopSet(e, c, "idle")
  OBVIOUS
<1>24. Ended(c, g)
  <2>1. e.conn[c].active = 0 /\ Answered(c, e.conn[c]) /\ Others(c, e)
    BY <1>22 DEF Ended
  <2>2. QED
    BY <1>22, <1>23, <2>1, LoopSetEnds
<1>25. QED
  BY <1>19, <1>22, <1>23, <1>24

LEMMA EndSocketAnswers ==
  ASSUME NEW n \in NetRecord, NEW c \in Conn, Answered(c, n.conn[c]),
         Others(c, n)
  PROVE  /\ Answered(c, EndSocket(n, c).conn[c])
         /\ Others(c, EndSocket(n, c))
<1>1. PICK k : k = n.conn[c]
  OBVIOUS
<1>2. k \in ConnRecord
  BY <1>1, ConnType
<1>3. CASE k.closed
  <2>1. EndSocket(n, c) = n
    BY <1>1, <1>3 DEF EndSocket
  <2>2. QED
    BY <2>1
<1>4. CASE ~ k.closed
  <2>1. PICK now \in BOOLEAN : now <=> (~ k.pressed /\ k.out = <<>>)
    OBVIOUS
  <2>2. now = (~ k.pressed /\ k.out = <<>>)
    BY <2>1, SMT
  <2>3. PICK s : s = IF now /\ k.socket = "open" THEN "ended" ELSE k.socket
    OBVIOUS
  <2>4. PICK l : l = [k EXCEPT !.ending = TRUE, !.closed = now, !.socket = s]
    OBVIOUS
  <2>5. /\ l \in ConnRecord /\ l.taken = k.taken /\ l.out = k.out
        /\ l.wire = k.wire /\ l.received = k.received /\ l.ending = TRUE
        /\ l.socket = s
    BY <1>2, <2>3, <2>4 DEF ConnRecord
  <2>6. ~ Reaches(l)
    BY <2>5 DEF Reaches, Mute
  <2>7. Quieter(k, l)
    <3>1. CASE s = k.socket
      BY <1>2, <2>5, <2>6, <3>1, QuietOutput
    <3>2. CASE s = "ended"
      BY <1>2, <2>5, <3>2, LostIsQuieter
    <3>3. QED
      BY <2>3, <3>1, <3>2
  <2>8. Answered(c, l)
    BY <1>1, <1>2, <2>3, <2>5, <2>7, HeardStays
  <2>9. EndSocket(n, c) = Edit(n, c, l)
    BY <1>1, <1>4, <2>2, <2>3, <2>4 DEF EndSocket, Edit
  <2>10. Edit(n, c, l).conn[c] = l /\ Only(n, Edit(n, c, l), c)
    BY <2>5, EditType DEF Only
  <2>11. QED
    BY <2>8, <2>9, <2>10, OthersOnly
<1>5. QED
  BY <1>3, <1>4

(* The reply to a request, or one more to SUBSCRIBE.                       *)
LEMMA ReplyAnswers ==
  ASSUME NEW S, NEW n \in Loose(S), NEW c \in Conn, NEW kind \in ReplyKind,
         NEW k, k = n.conn[c], k.socket # "none",
         \/ Heard(plan.script[c], k, k.taken - 1)
         \/ /\ Heard(plan.script[c], k, k.taken)
            /\ plan.script[c][k.taken].cmd \in Many,
         NEW chunk, chunk = [kind |-> kind, re |-> k.taken],
         NEW m, m = Write(n, c, chunk).net
  PROVE  Answered(c, m.conn[c]) /\ Only(n, m, c)
<1>1. PICK s : s = plan.script[c]
  OBVIOUS
<1>2. PICK l : l = m.conn[c]
  OBVIOUS
<1>3. chunk \in Chunk
  BY LooseType, ReplyType
<1>4. m \in Outputs(n) /\ Only(n, m, c) /\ Says(k, l, chunk)
  BY <1>2, <1>3, WriteSettles
<1>5. k \in ConnRecord /\ l \in ConnRecord /\ SameTask(k, l)
  BY <1>2, <1>4, LooseType, ConnType DEF Outputs
<1>6. PICK u \in Nat : u = k.taken
  BY <1>5 DEF ConnRecord
<1>7. IsReply(chunk) /\ chunk.re = u
  BY <1>6 DEF IsReply, ReplyKind
<1>8. \E t \in Int : Heard(s, k, t) /\ Continues(s, chunk, t, u)
  <2>1. CASE Heard(s, k, u - 1)
    <3>1. Continues(s, chunk, u - 1, u)
      <4>1. u = (u - 1) + 1
        OBVIOUS
      <4>2. QED
        BY <1>7, <4>1 DEF Continues
    <3>2. QED
      BY <2>1, <3>1
  <2>2. CASE Heard(s, k, u) /\ s[u].cmd \in Many
    <3>1. Continues(s, chunk, u, u)
      BY <1>7, <2>2 DEF Continues
    <3>2. QED
      BY <2>2, <3>1
  <2>3. QED
    BY <1>1, <1>6, <2>1, <2>2
<1>9. Heard(s, l, u)
  BY <1>3, <1>4, <1>5, <1>8, SaidHeard
<1>10. QED
  BY <1>1, <1>2, <1>4, <1>5, <1>6, <1>9 DEF Answered, SameTask

LEMMA AnswerExact ==
  ASSUME NEW c \in Conn, NEW n \in Underway(c), NEW kind \in ReplyKind
  PROVE  /\ Turned(Reply(n, c, kind), c) \in AtRest(c)
         /\ Hangs(Reply(n, c, kind), c) \in AtRest(c)
         /\ Answer(n, c, kind) => net' \in AtRest(c)
<1>1. PICK S : S = {c}
  OBVIOUS
<1>2. PICK m : m = Reply(n, c, kind)
  OBVIOUS
<1>3. n \in Loose(S) /\ Due(c, n.conn[c]) /\ Others(c, n)
  BY <1>1 DEF Underway
<1>4. /\ m \in Loose(S)
      /\ Mute(n.conn[c]) => m = n
      /\ ~ Mute(n.conn[c]) => m \in Loose(S \ {c})
  BY <1>2, <1>3, ReplySends DEF Sending
<1>5. Mute(m.conn[c]) \/ UpToDate(m.conn[c])
  BY <1>3, <1>4, LooseType
<1>6. PICK e : e = EndSocket(m, c)
  OBVIOUS
<1>7. e \in Loose(S)
  <2>1. e \in Loose(S \cup {c}) /\ S \cup {c} = S
    BY <1>1, <1>4, <1>5, <1>6, EndSocketLoose
  <2>2. QED
    BY <2>1
<1>8. Answered(c, m.conn[c]) /\ Others(c, m)
  <2>1. PICK chunk : chunk = [kind |-> kind, re |-> n.conn[c].taken]
    OBVIOUS
  <2>2. m = Write(n, c, chunk).net
    BY <1>2, <2>1 DEF Reply
  <2>3. /\ n.conn[c].socket # "none"
        /\ Heard(plan.script[c], n.conn[c], n.conn[c].taken - 1)
    BY <1>3 DEF Due
  <2>4. Answered(c, m.conn[c]) /\ Only(n, m, c)
    BY <1>3, <2>1, <2>2, <2>3, ReplyAnswers
  <2>5. QED
    BY <1>3, <2>4, OthersOnly
<1>9. Answered(c, e.conn[c]) /\ Others(c, e)
  BY <1>4, <1>6, <1>8, LooseType, EndSocketAnswers
<1>10. Turned(m, c) \in AtRest(c)
  BY <1>1, <1>4, <1>8, TurnedExact, TurnedEnds DEF AtRest
<1>11. Hangs(m, c) \in AtRest(c)
  BY <1>1, <1>6, <1>7, <1>9, TurnedExact, TurnedEnds DEF Hangs, LoopSet, AtRest
<1>12. QED
  BY <1>2, <1>10, <1>11 DEF Answer

(* While a command runs, its connection is open and its account may wait.  *)
Busy(c) == {n \in Underway(c) : ~ n.conn[c].closed}

(* The request that is being served stays the one.                         *)
Carried(k, l) ==
  /\ Handled(k, l)
  /\ l.taken = k.taken /\ l.active = k.active /\ l.received = k.received

LEMMA HandledBusy ==
  ASSUME NEW c \in Conn, NEW n \in Busy(c), NEW l \in ConnRecord,
         Carried(n.conn[c], l)
  PROVE  Edit(n, c, l) \in Busy(c)
<1>1. PICK S : S = {c}
  OBVIOUS
<1>2. PICK k : k = n.conn[c]
  OBVIOUS
<1>3. /\ n \in Loose(S) /\ n \in NetRecord /\ k \in ConnRecord
      /\ ~ k.closed /\ Due(c, k) /\ Others(c, n)
  BY <1>1, <1>2, LooseType DEF Busy, Underway
<1>4. /\ Handled(k, l) /\ ~ l.closed
      /\ l.taken = k.taken /\ l.active = k.active /\ l.socket = k.socket
      /\ l.received = k.received /\ l.wire = k.wire /\ l.out = k.out
      /\ l.closed = k.closed /\ l.ending = k.ending
  BY <1>2, <1>3 DEF Carried, Handled
<1>5. PICK m : m = Edit(n, c, l)
  OBVIOUS
<1>6. m \in Loose(S)
  <2>1. m \in Loose(S \cup {c}) /\ S \cup {c} = S
    BY <1>1, <1>2, <1>3, <1>4, <1>5, HandledLoose
  <2>2. QED
    BY <2>1
<1>7. m.conn[c] = l /\ Only(n, m, c)
  BY <1>3, <1>5, EditType DEF Only
<1>8. Due(c, l)
  <2>1. Quieter(k, l)
    BY <1>3, <1>4, SameOutput
  <2>2. QED
    BY <1>3, <1>4, <2>1, QuieterHeard DEF Due
<1>9. Others(c, m)
  BY <1>3, <1>7, OthersOnly
<1>10. QED
  BY <1>1, <1>4, <1>5, <1>6, <1>7, <1>8, <1>9 DEF Busy, Underway

(* Between two requests every request taken has its reply, but for the one *)
(* of a loop that waits.                                                   *)
Attended(s, k) ==
  /\ k.active = 1 <=> k.loop = "waiting"
  /\ Heard(s, k, k.taken - k.active)

Attending(n) == \A c \in Conn : Attended(plan.script[c], n.conn[c])

LEMMA BegunBusy ==
  ASSUME net \in Exact, Attending(net), NEW c \in Conn, Proceeds(c)
  PROVE  Begun(c) \in Busy(c)
<1>1. PICK n : n = net
  OBVIOUS
<1>2. PICK k : k = n.conn[c]
  OBVIOUS
<1>3. PICK S : S = {c}
  OBVIOUS
<1>4. /\ n \in Loose(S) /\ n \in NetRecord /\ k \in ConnRecord /\ Decent(k)
      /\ ~ k.closed /\ k.arrived > k.taken /\ k.loop = "running"
      /\ k = conn[c]
  BY <1>1, <1>2, <1>3, Looser, LooseType DEF Exact, Proceeds, conn
<1>5. PICK t \in Nat : t = k.taken + 1 /\ t <= k.arrived
  BY <1>4 DEF ConnRecord
<1>6. PICK l : l = [k EXCEPT !.taken = t, !.active = 1]
  OBVIOUS
<1>7. /\ l \in ConnRecord /\ Handled(k, l) /\ l.taken = t /\ l.active = 1
      /\ l.received = k.received /\ l.wire = k.wire /\ l.out = k.out
      /\ l.socket = k.socket /\ l.closed = k.closed /\ l.ending = k.ending
  BY <1>4, <1>5, <1>6 DEF ConnRecord, Handled
<1>8. PICK m : m = Edit(n, c, l)
  OBVIOUS
<1>9. m \in Loose(S)
  <2>1. m \in Loose(S \cup {c}) /\ S \cup {c} = S
    BY <1>2, <1>3, <1>4, <1>7, <1>8, HandledLoose
  <2>2. QED
    BY <2>1
<1>10. m.conn[c] = l /\ Only(n, m, c)
  BY <1>4, <1>7, <1>8, EditType DEF Only
<1>11. Due(c, l)
  <2>1. Attended(plan.script[c], k)
    BY <1>1, <1>2 DEF Attending
  <2>2. k.active = 0
    BY <1>4, <2>1 DEF Attended, ConnRecord
  <2>3. Heard(plan.script[c], k, t - 1)
    <3>1. k.taken - k.active = t - 1
      BY <1>4, <1>5, <2>2 DEF ConnRecord
    <3>2. QED
      BY <2>1, <3>1 DEF Attended
  <2>4. Quieter(k, l)
    BY <1>4, <1>7, SameOutput
  <2>5. Heard(plan.script[c], l, t - 1)
    BY <1>4, <1>7, <2>3, <2>4, QuieterHeard
  <2>6. k.socket # "none"
    BY <1>4 DEF Decent
  <2>7. QED
    BY <1>4, <1>5, <1>7, <2>5, <2>6 DEF Due
<1>12. Others(c, m)
  BY <1>1, <1>10, ChatReflexive DEF Others, Only, conn
<1>13. Begun(c) = m
  BY <1>1, <1>2, <1>4, <1>5, <1>6, <1>8 DEF Begun, Edit, conn
<1>14. QED
  BY <1>3, <1>4, <1>7, <1>9, <1>10, <1>11, <1>12, <1>13 DEF Busy, Underway

LEMMA BusyEdits ==
  ASSUME NEW c \in Conn, NEW n \in Busy(c)
  PROVE  /\ [n EXCEPT !.conn[c].authed = TRUE] \in Busy(c)
         /\ \A w \in WatchTable : [n EXCEPT !.conn[c].watch = w] \in Busy(c)
         /\ [n EXCEPT !.conn[c].watch = <<>>] \in Busy(c)
         /\ [n EXCEPT !.conn[c] = [@ EXCEPT !.multi = TRUE, !.txFailed = FALSE]]
              \in Busy(c)
         /\ WithoutTx(n, c) \in Busy(c)
         /\ \A b \in BOOLEAN : [n EXCEPT !.conn[c].txFailed = b] \in Busy(c)
         /\ \A req \in Command : [n EXCEPT !.conn[c].tx = Append(@, req)]
              \in Busy(c)
         /\ [n EXCEPT !.conn[c].subMode = TRUE] \in Busy(c)
<1>1. PICK k : k = n.conn[c]
  OBVIOUS
<1>2. n \in NetRecord /\ k \in ConnRecord /\ k.taken <= k.arrived
  BY <1>1, LooseType DEF Busy, Underway, Decent
<1>3. ASSUME NEW l \in ConnRecord, Carried(k, l)
      PROVE  Edit(n, c, l) \in Busy(c)
  BY <1>1, <1>2, <1>3, HandledBusy
<1>4. [n EXCEPT !.conn[c].authed = TRUE] \in Busy(c)
  <2>1. PICK l : l = [k EXCEPT !.authed = TRUE]
    OBVIOUS
  <2>2. l \in ConnRecord /\ Carried(k, l)
    BY <1>2, <2>1 DEF ConnRecord, Handled, Carried
  <2>3. [n EXCEPT !.conn[c].authed = TRUE] = Edit(n, c, l)
    BY <1>1, <1>2, <2>1 DEF Edit, NetRecord, ConnRecord
  <2>4. QED
    BY <1>3, <2>2, <2>3
<1>5. ASSUME NEW w \in WatchTable
      PROVE  [n EXCEPT !.conn[c].watch = w] \in Busy(c)
  <2>1. PICK l : l = [k EXCEPT !.watch = w]
    OBVIOUS
  <2>2. l \in ConnRecord /\ Carried(k, l)
    BY <1>2, <2>1 DEF ConnRecord, Handled, Carried
  <2>3. [n EXCEPT !.conn[c].watch = w] = Edit(n, c, l)
    BY <1>1, <1>2, <2>1 DEF Edit, NetRecord, ConnRecord
  <2>4. QED
    BY <1>3, <2>2, <2>3
<1>6. [n EXCEPT !.conn[c].watch = <<>>] \in Busy(c)
  BY <1>5, NoWatch
<1>7. [n EXCEPT !.conn[c] = [@ EXCEPT !.multi = TRUE, !.txFailed = FALSE]]
        \in Busy(c)
  <2>1. PICK l : l = [k EXCEPT !.multi = TRUE, !.txFailed = FALSE]
    OBVIOUS
  <2>2. l \in ConnRecord /\ Carried(k, l)
    BY <1>2, <2>1 DEF ConnRecord, Handled, Carried
  <2>3. [n EXCEPT !.conn[c] = [@ EXCEPT !.multi = TRUE, !.txFailed = FALSE]]
          = Edit(n, c, l)
    BY <1>1, <2>1 DEF Edit
  <2>4. QED
    BY <1>3, <2>2, <2>3
<1>8. WithoutTx(n, c) \in Busy(c)
  <2>1. PICK none : none = <<>>
    OBVIOUS
  <2>2. none \in WatchTable /\ none \in Seq(Command)
    BY <2>1, NoWatch
  <2>3. PICK l : l = [k EXCEPT !.multi = FALSE, !.tx = none, !.watch = none]
    OBVIOUS
  <2>4. l \in ConnRecord /\ Carried(k, l)
    BY <1>2, <2>2, <2>3 DEF ConnRecord, Handled, Carried
  <2>5. WithoutTx(n, c) = Edit(n, c, l)
    BY <1>1, <2>1, <2>3 DEF Edit, WithoutTx
  <2>6. QED
    BY <1>3, <2>4, <2>5
<1>9. ASSUME NEW b \in BOOLEAN
      PROVE  [n EXCEPT !.conn[c].txFailed = b] \in Busy(c)
  <2>1. PICK l : l = [k EXCEPT !.txFailed = b]
    OBVIOUS
  <2>2. l \in ConnRecord /\ Carried(k, l)
    BY <1>2, <2>1 DEF ConnRecord, Handled, Carried
  <2>3. [n EXCEPT !.conn[c].txFailed = b] = Edit(n, c, l)
    BY <1>1, <1>2, <2>1 DEF Edit, NetRecord, ConnRecord
  <2>4. QED
    BY <1>3, <2>2, <2>3
<1>10. ASSUME NEW req \in Command
       PROVE  [n EXCEPT !.conn[c].tx = Append(@, req)] \in Busy(c)
  <2>1. PICK tx \in Seq(Command) : tx = Append(k.tx, req)
    <3>1. k.tx \in Seq(Command)
      BY <1>2 DEF ConnRecord
    <3>2. QED
      BY <3>1, AppendProperties
  <2>2. PICK l : l = [k EXCEPT !.tx = tx]
    OBVIOUS
  <2>3. l \in ConnRecord /\ Carried(k, l)
    BY <1>2, <2>2 DEF ConnRecord, Handled, Carried
  <2>4. [n EXCEPT !.conn[c].tx = Append(@, req)] = Edit(n, c, l)
    BY <1>1, <1>2, <2>1, <2>2 DEF Edit, NetRecord, ConnRecord
  <2>5. QED
    BY <1>3, <2>3, <2>4
<1>11. [n EXCEPT !.conn[c].subMode = TRUE] \in Busy(c)
  <2>1. PICK l : l = [k EXCEPT !.subMode = TRUE]
    OBVIOUS
  <2>2. l \in ConnRecord /\ Carried(k, l)
    BY <1>2, <2>1 DEF ConnRecord, Handled, Carried
  <2>3. [n EXCEPT !.conn[c].subMode = TRUE] = Edit(n, c, l)
    BY <1>1, <1>2, <2>1 DEF Edit, NetRecord, ConnRecord
  <2>4. QED
    BY <1>3, <2>2, <2>3
<1>12. QED
  BY <1>4, <1>5, <1>6, <1>7, <1>8, <1>9, <1>10, <1>11

-----------------------------------------------------------------------------
(* The hub.                                                                *)

ChooseOp(chosen, kept, x) == KeepChosen(chosen, kept, x)
Choosing == INSTANCE FoldTheorems WITH Op <- ChooseOp

LEMMA FilterType ==
  ASSUME NEW B, NEW seqn \in Seq(B), NEW chosen
  PROVE  Filter(seqn, chosen) \in Seq(B)
<1>1. PICK empty : empty = <<>>
  OBVIOUS
<1>2. Filter(seqn, chosen) = Choosing!Folded(chosen, empty, seqn)
  BY <1>1, Zenon DEF Filter, ChooseOp, Choosing!Folded, FoldLeft,
     Choosing!MapThenFoldSet, MapThenFoldSet, Choosing!Top, Max
<1>3. PICK A : A = Seq(B)
  OBVIOUS
<1>4. \A kept \in A, x \in B : ChooseOp(chosen, kept, x) \in A
  BY <1>3, AppendProperties DEF ChooseOp, KeepChosen
<1>5. empty \in A
  BY <1>1, <1>3
<1>6. Choosing!Folded(chosen, empty, seqn) \in A
  BY <1>3, <1>4, <1>5, Choosing!FoldLeftInvariant
<1>7. QED
  BY <1>2, <1>3, <1>6

LEMMA HubLoose ==
  ASSUME NEW S, NEW n \in Loose(S), NEW h \in [Channel -> Seq(Conn)],
         NEW m, m = [n EXCEPT !.hub = h]
  PROVE  m \in Loose(S) /\ m.conn = n.conn /\ m.hub = h
<1>1. n \in NetRecord
  BY LooseType
<1>2. /\ m \in NetRecord /\ m.conn = n.conn /\ m.inflight = n.inflight
      /\ m.hub = h
  BY <1>1 DEF NetRecord
<1>3. Total(m) = Total(n)
  BY <1>1, <1>2, TotalOfSame
<1>4. QED
  BY <1>2, <1>3 DEF Loose

(* The hub says nothing.                                                   *)
LEMMA HubQuiet ==
  ASSUME NEW S, NEW n \in Loose(S), NEW m \in Loose(S), m.conn = n.conn
  PROVE  m \in Chatting(n)
<1>1. m \in NetRecord
  BY LooseType
<1>2. QED
  BY <1>1, ChatReflexive DEF Chatting

LEMMA HubBusy ==
  ASSUME NEW c \in Conn, NEW n \in Busy(c), NEW h \in [Channel -> Seq(Conn)],
         NEW m, m = [n EXCEPT !.hub = h]
  PROVE  m \in Busy(c)
<1>1. n \in Loose({c}) /\ m \in Loose({c}) /\ m.conn = n.conn
  BY HubLoose DEF Busy, Underway
<1>2. Others(c, m) /\ Due(c, m.conn[c])
  BY <1>1 DEF Busy, Underway, Others
<1>3. QED
  BY <1>1, <1>2 DEF Busy, Underway

LEMMA ListenBusy ==
  ASSUME NEW c \in Conn, NEW n \in Busy(c), NEW ch \in Channel
  PROVE  Listen(n, c, ch) \in Busy(c)
<1>1. PICK k : k = n.conn[c]
  OBVIOUS
<1>2. /\ n \in NetRecord /\ k \in ConnRecord /\ n \in Loose({c})
      /\ ~ n.conn[c].closed /\ k.taken <= k.arrived
  BY <1>1, LooseType DEF Busy, Underway, Decent
<1>3. CASE ch \in k.subs
  BY <1>1, <1>3 DEF Listen
<1>4. CASE ch \notin k.subs
  <2>1. PICK s : s = k.subs \cup {ch}
    OBVIOUS
  <2>2. s \in Subscriptions
    <3>1. k.subs \in SUBSET Channel /\ IsFiniteSet(k.subs)
      BY <1>2 DEF ConnRecord, Subscriptions
    <3>2. IsFiniteSet(s)
      BY <2>1, <3>1, FS_AddElement
    <3>3. QED
      BY <2>1, <3>1, <3>2 DEF Subscriptions
  <2>3. PICK l : l = [k EXCEPT !.subs = s]
    OBVIOUS
  <2>4. l \in ConnRecord /\ Carried(k, l)
    BY <1>2, <2>2, <2>3 DEF ConnRecord, Handled, Carried
  <2>5. PICK e : e = Edit(n, c, l)
    OBVIOUS
  <2>6. e \in Busy(c)
    BY <1>1, <1>2, <2>4, <2>5, HandledBusy
  <2>7. PICK q \in Seq(Conn) : q = Append(n.hub[ch], c)
    <3>1. n.hub[ch] \in Seq(Conn)
      BY <1>2 DEF NetRecord
    <3>2. QED
      BY <3>1, AppendProperties
  <2>8. PICK h : h = [n.hub EXCEPT ![ch] = q]
    OBVIOUS
  <2>9. h \in [Channel -> Seq(Conn)]
    BY <1>2, <2>8 DEF NetRecord
  <2>10. PICK m : m = [e EXCEPT !.hub = h]
    OBVIOUS
  <2>11. m \in Busy(c)
    BY <2>6, <2>9, <2>10, HubBusy
  <2>12. Listen(n, c, ch) = m
    <3>1. Listen(n, c, ch) =
            [n EXCEPT !.conn[c].subs = s, !.hub[ch] = q]
      BY <1>1, <1>4, <2>1, <2>7 DEF Listen
    <3>2. QED
      BY <1>1, <1>2, <2>3, <2>5, <2>8, <2>10, <3>1 DEF Edit, NetRecord, ConnRecord
  <2>13. QED
    BY <2>11, <2>12
<1>5. QED
  BY <1>3, <1>4

(* The request being served has a reply and may have more.                 *)
Replying(c) ==
  {n \in Loose({c}) :
     /\ n.conn[c].taken = conn[c].taken + 1
     /\ Answered(c, n.conn[c]) /\ Others(c, n)}

LEMMA ReplyingEdits ==
  ASSUME NEW c \in Conn, NEW n \in Replying(c), NEW m \in Loose({c}),
         Only(n, m, c), Carried(n.conn[c], m.conn[c])
  PROVE  m \in Replying(c)
<1>1. PICK k : k = n.conn[c]
  OBVIOUS
<1>2. PICK l : l = m.conn[c]
  OBVIOUS
<1>3. k \in ConnRecord /\ l \in ConnRecord
  BY <1>1, <1>2, LooseType DEF Replying
<1>4. /\ Answered(c, k) /\ k.taken = conn[c].taken + 1 /\ Others(c, n)
      /\ Carried(k, l)
  BY <1>1, <1>2 DEF Replying
<1>5. Quieter(k, l) /\ l.taken = k.taken /\ l.socket = k.socket
  BY <1>3, <1>4, SameOutput DEF Carried, Handled
<1>6. Answered(c, l)
  BY <1>3, <1>4, <1>5, HeardStays
<1>7. Others(c, m)
  BY <1>4, OthersOnly
<1>8. QED
  BY <1>2, <1>4, <1>5, <1>6, <1>7 DEF Replying

LEMMA UnlistenReplying ==
  ASSUME NEW c \in Conn, NEW n \in Replying(c), NEW ch
  PROVE  Unlisten(n, c, ch) \in Replying(c)
<1>1. PICK k : k = n.conn[c]
  OBVIOUS
<1>2. /\ n \in NetRecord /\ k \in ConnRecord /\ Decent(k)
      /\ n \in Loose({c})
  BY <1>1, LooseType DEF Replying
<1>3. PICK s : s = k.subs \ {ch}
  OBVIOUS
<1>4. /\ s \in Subscriptions
      /\ Cardinality(s) \in Nat /\ Cardinality(k.subs) \in Nat
      /\ Cardinality(s) <= Cardinality(k.subs)
  <2>1. k.subs \in SUBSET Channel /\ IsFiniteSet(k.subs) /\ s \subseteq k.subs
    BY <1>2, <1>3 DEF ConnRecord, Subscriptions
  <2>2. QED
    BY <2>1, FS_Subset, FS_CardinalityType DEF Subscriptions
<1>5. PICK l : l = [k EXCEPT !.subs = s]
  OBVIOUS
<1>6. /\ l \in ConnRecord /\ Carried(k, l) /\ Handled(k, l) /\ l.active = k.active
      /\ l.arrived = k.arrived /\ l.taken = k.taken
      /\ l.tx = k.tx /\ l.watch = k.watch /\ l.subs = s
  BY <1>2, <1>4, <1>5 DEF ConnRecord, Carried, Handled, Decent
<1>7. Held(l) <= Held(k)
  <2>1. PICK x \in Nat : x = Cardinality(k.subs)
    BY <1>4
  <2>2. PICK y \in Nat : y = Cardinality(s) /\ y <= x
    BY <1>4, <2>1
  <2>3. PICK t \in Nat : t = Len(k.tx)
    BY <1>2 DEF ConnRecord
  <2>4. PICK w \in Nat : w = Cardinality(DOMAIN k.watch)
    BY <1>2, FiniteWatch DEF ConnRecord
  <2>5. PICK p \in Nat : p = Pending(k)
    BY <1>2, HeldType
  <2>6. Pending(l) = p
    BY <1>6, <2>5, Zenon DEF Pending, Handled
  <2>7. Weight(k) = t + w + x + p
    BY <2>1, <2>3, <2>4, <2>5 DEF Weight
  <2>8. Weight(l) = t + w + y + p
    BY <1>6, <2>2, <2>3, <2>4, <2>6 DEF Weight
  <2>9. PICK a \in Int : a = (k.arrived - k.taken) + k.active
    BY <1>2 DEF ConnRecord
  <2>10. Held(k) = a + Weight(k) /\ Held(l) = a + Weight(l)
    BY <1>2, <1>6, <2>9, HeldType
  <2>11. QED
    BY <2>2, <2>7, <2>8, <2>10
<1>8. PICK S : S = {c}
  OBVIOUS
<1>9. PICK e : e = Edit(n, c, l)
  OBVIOUS
<1>10. e \in Loose(S) /\ S \cup {c} = S
  <2>1. S \cup {c} = S /\ n \in Loose(S)
    BY <1>2, <1>8
  <2>2. e \in Loose(S \cup {c})
    BY <1>1, <1>6, <1>7, <1>9, <2>1, HandledLoose
  <2>3. QED
    BY <2>1, <2>2
<1>11. PICK h : h = [n.hub EXCEPT ![ch] = Filter(@, Conn \ {c})]
  OBVIOUS
<1>12. h \in [Channel -> Seq(Conn)]
  <2>1. n.hub \in [Channel -> Seq(Conn)]
    BY <1>2 DEF NetRecord
  <2>2. \A d \in Channel : Filter(n.hub[d], Conn \ {c}) \in Seq(Conn)
    BY <2>1, FilterType
  <2>3. QED
    BY <1>11, <2>1, <2>2
<1>13. PICK m : m = [e EXCEPT !.hub = h]
  OBVIOUS
<1>14. m \in Loose(S) /\ m.conn = e.conn
  BY <1>10, <1>12, <1>13, HubLoose
<1>15. Unlisten(n, c, ch) = m
  <2>1. Unlisten(n, c, ch) =
          [n EXCEPT !.conn[c].subs = s,
                    !.hub[ch] = Filter(n.hub[ch], Conn \ {c})]
    BY <1>1, <1>3 DEF Unlisten
  <2>2. QED
    BY <1>1, <1>2, <1>5, <1>9, <1>11, <1>13, <2>1 DEF Edit, NetRecord, ConnRecord
<1>16. m.conn[c] = l /\ Only(n, m, c)
  BY <1>2, <1>6, <1>9, <1>14, EditType DEF Only
<1>17. QED
  BY <1>1, <1>6, <1>8, <1>14, <1>15, <1>16, ReplyingEdits

LEMMA RequestType ==
  ASSUME plan \in Scenario, net \in Exact, NEW c \in Conn, Proceeds(c),
         NEW req, req = Requested(c)
  PROVE  /\ req.cmd \in Transactional => req \in Command
         /\ req.cmd = "WATCH" => req.keys \in Seq(Key)
         /\ req.cmd = "SUBSCRIBE" => /\ req.channels \in Seq(Channel)
                                    /\ req.channels # <<>>
         /\ req.cmd = "PUBLISH" => req.channel \in Channel
<1>1. PICK script \in Seq(Request) : script = plan.script[c]
  BY DEF Scenario
<1>2. PICK i \in Nat : i = conn[c].taken /\ i + 1 <= Len(script)
  <2>1. /\ conn[c] \in ConnRecord /\ conn[c].arrived <= Len(script)
        /\ conn[c].arrived > conn[c].taken
    BY <1>1, LooseType DEF Exact, Proceeds, conn, Asked
  <2>2. QED
    BY <2>1 DEF ConnRecord
<1>3. req = script[i + 1]
  BY <1>1, <1>2 DEF Requested
<1>4. req \in Request
  BY <1>2, <1>3
<1>5. /\ req.cmd = "WATCH" => req.keys \in Seq(Key)
      /\ req.cmd = "SUBSCRIBE" => /\ req.channels \in Seq(Channel)
                                 /\ req.channels # <<>>
      /\ req.cmd = "PUBLISH" => req.channel \in Channel
  BY <1>4 DEF Request, Command
<1>6. req.cmd \in Transactional => req \in Command
  BY <1>4 DEF Request, Transactional
<1>7. QED
  BY <1>5, <1>6

ListenOp(c, m, ch) == Listen(m, c, ch)
Listening == INSTANCE FoldTheorems WITH Op <- ListenOp

LEMMA ListeningBusy ==
  ASSUME NEW c \in Conn, NEW n \in Busy(c), NEW chs \in Seq(Channel)
  PROVE  FoldLeft(LAMBDA m, ch : Listen(m, c, ch), n, chs) \in Busy(c)
<1>1. FoldLeft(LAMBDA m, ch : Listen(m, c, ch), n, chs)
        = Listening!Folded(c, n, chs)
  BY Zenon DEF ListenOp, Listening!Folded, FoldLeft,
     Listening!MapThenFoldSet, MapThenFoldSet, Listening!Top, Max
<1>2. PICK A : A = Busy(c)
  OBVIOUS
<1>3. PICK B : B = Channel
  OBVIOUS
<1>4. \A a \in A, b \in B : ListenOp(c, a, b) \in A
  BY <1>2, <1>3, ListenBusy DEF ListenOp
<1>5. Listening!Folded(c, n, chs) \in A
  BY <1>2, <1>3, <1>4, Listening!FoldLeftInvariant
<1>6. QED
  BY <1>1, <1>2, <1>5

(* The parameter of the fold is the connection and the kind of reply.      *)
AcknowledgeOp(p, m, ch) == Reply(m, p[1], p[2])
Acknowledging == INSTANCE FoldTheorems WITH Op <- AcknowledgeOp

(* The first channel has the reply that is due, the others one more each.  *)
LEMMA ReplyReplying ==
  ASSUME NEW c \in Conn, NEW kind \in ReplyKind,
         NEW n \in Loose({c}), n.conn[c].taken = conn[c].taken + 1,
         Others(c, n), n.conn[c].socket # "none",
         \/ Heard(plan.script[c], n.conn[c], n.conn[c].taken - 1)
         \/ /\ Heard(plan.script[c], n.conn[c], n.conn[c].taken)
            /\ Requested(c).cmd \in Many,
         NEW chunk, chunk = [kind |-> kind, re |-> n.conn[c].taken],
         NEW r, r = Write(n, c, chunk)
  PROVE  r.net \in Replying(c) /\ r = [ok |-> r.ok, net |-> r.net]
         /\ r.ok \in BOOLEAN
<1>1. PICK S : S = {c}
  OBVIOUS
<1>2. PICK k : k = n.conn[c]
  OBVIOUS
<1>3. PICK m : m = r.net
  OBVIOUS
<1>4. n \in Loose(S) /\ n \in NetRecord
  BY <1>1, LooseType
<1>5. chunk \in Chunk
  BY <1>4, ReplyType
<1>6. /\ r.ok \in BOOLEAN /\ r = [ok |-> r.ok, net |-> r.net]
      /\ r.net \in Loose(S) /\ r.net \in Outputs(n)
  <2>1. PICK b \in Chunk : b = chunk
    BY <1>5
  <2>2. ASSUME NEW x, x = Write(n, c, b)
        PROVE  /\ x.ok \in BOOLEAN /\ x = [ok |-> x.ok, net |-> x.net]
               /\ x.net \in Loose(S) /\ x.net \in Outputs(n)
    BY <1>4, <2>2, WriteSettles, ZenonT(30)
  <2>3. r = Write(n, c, b)
    BY <2>1
  <2>4. QED
    BY <2>2, <2>3
<1>7. Answered(c, m.conn[c]) /\ Only(n, m, c)
  <2>1. plan.script[c][k.taken] = Requested(c)
    BY <1>2 DEF Requested
  <2>2. \/ Heard(plan.script[c], k, k.taken - 1)
        \/ /\ Heard(plan.script[c], k, k.taken)
           /\ plan.script[c][k.taken].cmd \in Many
    BY <1>2, <2>1
  <2>3. k.socket # "none" /\ chunk = [kind |-> kind, re |-> k.taken]
    BY <1>2
  <2>4. m = Write(n, c, chunk).net
    BY <1>3
  <2>5. QED
    BY <1>2, <1>4, <2>2, <2>3, <2>4, ReplyAnswers
<1>8. m.conn[c].taken = n.conn[c].taken
  BY <1>3, <1>6 DEF Outputs, SameTask
<1>9. Others(c, m)
  BY <1>7, OthersOnly
<1>10. m \in Replying(c)
  BY <1>1, <1>3, <1>6, <1>7, <1>8, <1>9 DEF Replying
<1>11. QED
  BY <1>3, <1>6, <1>10

LEMMA AcknowledgeReplies ==
  ASSUME NEW c \in Conn, NEW n \in Underway(c), Requested(c).cmd \in Many,
         NEW kind \in ReplyKind, NEW chs \in Seq(Channel), chs # <<>>
  PROVE  Acknowledge(n, c, chs, kind) \in Replying(c)
<1>1. PICK p : p = <<c, kind>>
  OBVIOUS
<1>2. p[1] = c /\ p[2] = kind
  BY <1>1
<1>3. Acknowledge(n, c, chs, kind) = Acknowledge(n, p[1], chs, p[2])
  BY <1>2, Zenon
<1>4. Acknowledge(n, p[1], chs, p[2]) = Acknowledging!Folded(p, n, chs)
  BY Zenon DEF Acknowledge, AcknowledgeOp, Acknowledging!Folded,
     FoldLeft, Acknowledging!MapThenFoldSet,
     MapThenFoldSet, Acknowledging!Top, Max
<1>5. PICK len \in Nat : len = Len(chs) /\ DOMAIN chs = 1 .. len /\ len # 0
  OBVIOUS
<1>6. PICK U : U = Underway(c)
  OBVIOUS
<1>7. PICK R : R = Replying(c)
  OBVIOUS
<1>8. PICK A : A = [i \in 0 .. len |-> IF i = 0 THEN U ELSE R]
  OBVIOUS
<1>9. A[0] = U /\ \A i \in 1 .. len : A[i] = R
  BY <1>5, <1>8
<1>10. \A m \in U : \A ch : AcknowledgeOp(p, m, ch) \in R
  <2>1. SUFFICES ASSUME NEW m \in Underway(c), NEW ch
                 PROVE  AcknowledgeOp(p, m, ch) \in Replying(c)
    BY <1>6, <1>7
  <2>2. PICK chunk : chunk = [kind |-> kind, re |-> m.conn[c].taken]
    OBVIOUS
  <2>3. Write(m, c, chunk).net \in Replying(c)
    <3>1. /\ m \in Loose({c}) /\ m.conn[c].taken = conn[c].taken + 1
          /\ Others(c, m) /\ m.conn[c].socket # "none"
          /\ Heard(plan.script[c], m.conn[c], m.conn[c].taken - 1)
      BY DEF Underway, Due
    <3>2. QED
      BY <2>2, <3>1, ReplyReplying
  <2>4. QED
    BY <1>2, <2>2, <2>3 DEF AcknowledgeOp, Reply
<1>11. \A m \in R : \A ch : AcknowledgeOp(p, m, ch) \in R
  <2>1. SUFFICES ASSUME NEW m \in Replying(c), NEW ch
                 PROVE  AcknowledgeOp(p, m, ch) \in Replying(c)
    BY <1>7
  <2>2. PICK chunk : chunk = [kind |-> kind, re |-> m.conn[c].taken]
    OBVIOUS
  <2>3. Write(m, c, chunk).net \in Replying(c)
    <3>1. /\ m \in Loose({c}) /\ m.conn[c].taken = conn[c].taken + 1
          /\ Others(c, m) /\ m.conn[c].socket # "none"
          /\ Heard(plan.script[c], m.conn[c], m.conn[c].taken)
      BY DEF Replying, Answered
    <3>2. QED
      BY <2>2, <3>1, ReplyReplying
  <2>4. QED
    BY <1>2, <2>2, <2>3 DEF AcknowledgeOp, Reply
<1>12. Acknowledging!Stages(p, A, chs, len)
  <2>1. SUFFICES ASSUME NEW i \in 1 .. len, NEW a \in A[i - 1]
                 PROVE  AcknowledgeOp(p, a, chs[i]) \in A[i]
    BY DEF Acknowledging!Stages
  <2>2. a \in U \/ a \in R
    <3>1. CASE i = 1
      <4>1. i - 1 = 0
        BY <3>1
      <4>2. QED
        BY <1>9, <4>1
    <3>2. CASE i # 1
      <4>1. i - 1 \in 1 .. len
        BY <1>5, <3>2
      <4>2. QED
        BY <1>9, <4>1
    <3>3. QED
      BY <3>1, <3>2
  <2>3. QED
    BY <1>9, <1>10, <1>11, <2>2
<1>13. Acknowledging!Folded(p, n, chs) \in A[len]
  BY <1>5, <1>6, <1>9, <1>12, Acknowledging!FoldLeftStages
<1>14. QED
  BY <1>3, <1>4, <1>5, <1>7, <1>9, <1>13

LEMMA DroppingReplies ==
  ASSUME NEW c \in Conn, NEW n \in Replying(c), Requested(c).cmd \in Many,
         NEW ch, NEW r, r = Dropping(n, c, ch)
  PROVE  r = [ok |-> r.ok, net |-> r.net] /\ r.ok \in BOOLEAN
         /\ r.net \in Replying(c)
<1>1. PICK m \in Replying(c) : m = Unlisten(n, c, ch)
  BY UnlistenReplying
<1>2. m.conn[c].taken = n.conn[c].taken
  BY DEF Replying
<1>3. PICK chunk : chunk = [kind |-> "unsubscribed", re |-> m.conn[c].taken]
  OBVIOUS
<1>4. r = Write(m, c, chunk) /\ "unsubscribed" \in ReplyKind
  BY <1>1, <1>2, <1>3 DEF Dropping, ReplyKind
<1>5. /\ m \in Loose({c}) /\ m.conn[c].taken = conn[c].taken + 1
      /\ Others(c, m) /\ m.conn[c].socket # "none"
      /\ Heard(plan.script[c], m.conn[c], m.conn[c].taken)
  BY DEF Replying, Answered
<1>6. QED
  BY <1>3, <1>4, <1>5, ReplyReplying

DropOp(c, r, ch) == IF r.ok THEN Dropping(r.net, c, ch) ELSE r
DropAll == INSTANCE FoldTheorems WITH Op <- DropOp

LEMMA DroppingAllReplies ==
  ASSUME NEW c \in Conn, NEW n \in Replying(c), Requested(c).cmd \in Many,
         NEW B, NEW chs \in Seq(B)
  PROVE  FoldLeft(LAMBDA r, ch : IF r.ok THEN Dropping(r.net, c, ch) ELSE r,
                  Yes(n), chs).net \in Replying(c)
<1>1. PICK base : base = Yes(n)
  OBVIOUS
<1>2. FoldLeft(LAMBDA r, ch : IF r.ok THEN Dropping(r.net, c, ch) ELSE r,
               base, chs) = DropAll!Folded(c, base, chs)
  BY Zenon DEF DropOp, DropAll!Folded, FoldLeft,
     DropAll!MapThenFoldSet, MapThenFoldSet, DropAll!Top, Max
<1>3. PICK L : L = Replying(c)
  OBVIOUS
<1>4. PICK A : A = [ok : BOOLEAN, net : L]
  OBVIOUS
<1>5. base \in A
  BY <1>1, <1>3, <1>4 DEF Yes
<1>6. \A a \in A, b \in B : DropOp(c, a, b) \in A
  <2>1. SUFFICES ASSUME NEW a \in A, NEW b \in B
                 PROVE  DropOp(c, a, b) \in A
    OBVIOUS
  <2>2. a.net \in Replying(c)
    BY <1>3, <1>4
  <2>3. PICK r : r = Dropping(a.net, c, b)
    OBVIOUS
  <2>4. r = [ok |-> r.ok, net |-> r.net] /\ r.ok \in BOOLEAN /\ r.net \in L
    BY <1>3, <2>2, <2>3, DroppingReplies
  <2>5. r \in A
    BY <1>4, <2>4
  <2>6. QED
    BY <2>3, <2>5 DEF DropOp
<1>7. DropAll!Folded(c, base, chs) \in A
  BY <1>5, <1>6, DropAll!FoldLeftInvariant
<1>8. QED
  BY <1>1, <1>2, <1>3, <1>4, <1>7

(* What is not answered is an UNSUBSCRIBE, which need not be.              *)
LEMMA UnsubscribeReplying ==
  ASSUME NEW c \in Conn, NEW n \in Underway(c),
         Requested(c).cmd = "UNSUBSCRIBE"
  PROVE  n \in Replying(c)
<1>1. PICK k : k = n.conn[c]
  OBVIOUS
<1>2. PICK s : s = plan.script[c]
  OBVIOUS
<1>3. PICK u \in Nat : u = k.taken
  BY <1>1, LooseType DEF Underway, ConnRecord
<1>4. /\ s[u].cmd = "UNSUBSCRIBE" /\ Heard(s, k, u - 1) /\ k.socket # "none"
      /\ u = conn[c].taken + 1
  BY <1>1, <1>2, <1>3 DEF Underway, Due, Requested
<1>5. k \in ConnRecord
  BY <1>1, LooseType DEF Underway
<1>6. PICK o \in Seq(Chunk) : o = Output(k)
  BY <1>5, OutputParts
<1>7. ASSUME Reaches(k) PROVE Served(s, o, u)
  <2>1. Served(s, o, u - 1)
    BY <1>4, <1>6, <1>7 DEF Heard
  <2>2. \A i \in 1 .. u : Replied(s, o, Len(o), i)
    BY <1>4, <2>1 DEF Served, Replied
  <2>3. \A i \in DOMAIN o : IsReply(o[i]) => o[i].re <= u
    <3>1. \A i \in DOMAIN o : IsReply(o[i]) => o[i].re \in Nat
      BY <1>6, ReplyNumber
    <3>2. QED
      BY <2>1, <3>1 DEF Served
  <2>4. QED
    BY <2>2, <2>3 DEF Served
<1>8. Heard(s, k, u)
  BY <1>4, <1>6, <1>7 DEF Heard
<1>9. QED
  BY <1>1, <1>2, <1>3, <1>4, <1>8 DEF Underway, Replying, Answered

(* The end of a turn whose replies are out.                                *)
LEMMA ReplyingRests ==
  ASSUME NEW c \in Conn, NEW n \in Replying(c)
  PROVE  Turned(n, c) \in AtRest(c)
<1>1. PICK S : S = {c}
  OBVIOUS
<1>2. n \in Loose(S) /\ Answered(c, n.conn[c]) /\ Others(c, n)
  BY <1>1 DEF Replying
<1>3. QED
  BY <1>1, <1>2, TurnedExact, TurnedEnds DEF AtRest

LEMMA UnsubscribedRests ==
  ASSUME NEW c \in Conn, NEW n \in Replying(c)
  PROVE  Unsubscribed(n, c) \in AtRest(c)
<1>1. PICK k : k = n.conn[c]
  OBVIOUS
<1>2. /\ n \in NetRecord /\ k \in ConnRecord /\ Decent(k)
      /\ n \in Loose({c})
  BY <1>1, LooseType DEF Replying
<1>3. PICK b \in BOOLEAN : b = (k.subs # {})
  OBVIOUS
<1>4. PICK l : l = [k EXCEPT !.subMode = b]
  OBVIOUS
<1>5. /\ l \in ConnRecord /\ Carried(k, l) /\ Handled(k, l)
      /\ l.active = k.active /\ l.arrived = k.arrived /\ l.taken = k.taken
      /\ l.tx = k.tx /\ l.watch = k.watch /\ l.subs = k.subs
      /\ l.out = k.out /\ l.wire = k.wire
  BY <1>2, <1>3, <1>4 DEF ConnRecord, Carried, Handled, Decent
<1>6. Held(l) <= Held(k)
  <2>1. Weight(l) = Weight(k)
    BY <1>5, SameParts
  <2>2. PICK h \in Nat : h = Held(k)
    BY <1>2, HeldType DEF Decent
  <2>3. Held(l) = h
    BY <1>2, <1>5, <2>1, <2>2, HeldType
  <2>4. QED
    BY <2>2, <2>3
<1>7. PICK S : S = {c}
  OBVIOUS
<1>8. PICK m : m = Edit(n, c, l)
  OBVIOUS
<1>9. m \in Loose(S)
  <2>1. S \cup {c} = S /\ n \in Loose(S)
    BY <1>2, <1>7
  <2>2. m \in Loose(S \cup {c})
    BY <1>1, <1>5, <1>6, <1>8, <2>1, HandledLoose
  <2>3. QED
    BY <2>1, <2>2
<1>10. [n EXCEPT !.conn[c].subMode = n.conn[c].subs # {}] = m
  BY <1>1, <1>2, <1>3, <1>4, <1>8 DEF Edit, NetRecord, ConnRecord
<1>11. m.conn[c] = l /\ Only(n, m, c)
  BY <1>2, <1>5, <1>8, EditType DEF Only
<1>12. Turned(m, c) \in AtRest(c)
  BY <1>1, <1>5, <1>7, <1>9, <1>11, ReplyingEdits, ReplyingRests
<1>13. QED
  BY <1>10, <1>12 DEF Unsubscribed

-----------------------------------------------------------------------------
(* Waiting for SAVE and LOAD.                                              *)

(* The owner of a job waits for it, until its connection closes.           *)
Awaited(k, re) ==
  /\ k.loop = "waiting" /\ k.socket # "none"
  /\ k.socket # "gone" => re = k.taken

(* Nobody waits for two jobs.                                              *)
Orderly(n, js) ==
  \A i \in DOMAIN js : js[i].owner \in Conn =>
    /\ Awaited(n.conn[js[i].owner], js[i].re)
    /\ \A j \in DOMAIN js : js[j].owner = js[i].owner => j = i

Patient(n, js) == Attending(n) /\ Orderly(n, js)

NoJob(js, c) == \A i \in DOMAIN js : js[i].owner # c

LEMMA ChatAttended ==
  ASSUME NEW s, NEW k \in ConnRecord, NEW l \in ConnRecord, Chat(s, k, l),
         Attended(s, k)
  PROVE  Attended(s, l)
<1>1. /\ l.active = 1 <=> l.loop = "waiting"
      /\ l.active = k.active
  BY DEF Attended, Chat
<1>2. PICK t \in Int : t = k.taken - k.active /\ Heard(s, k, t)
  BY DEF Attended, ConnRecord
<1>3. Heard(s, l, t)
  BY <1>2 DEF Chat
<1>4. CASE l.socket = "gone"
  <2>1. ~ Reaches(l)
    BY <1>4 DEF Reaches
  <2>2. QED
    BY <1>1, <1>3, <2>1 DEF Attended, Heard
<1>5. CASE l.taken = k.taken
  BY <1>1, <1>2, <1>3, <1>5 DEF Attended
<1>6. QED
  BY <1>4, <1>5 DEF Chat

LEMMA ChatAwaited ==
  ASSUME NEW s, NEW k, NEW l, Chat(s, k, l), NEW re, Awaited(k, re)
  PROVE  Awaited(l, re)
BY DEF Chat, Awaited

LEMMA ChatPatient ==
  ASSUME NEW n \in NetRecord, NEW m \in Chatting(n), NEW js, Patient(n, js)
  PROVE  Patient(m, js)
<1>1. ASSUME NEW c \in Conn
      PROVE  /\ Chat(plan.script[c], n.conn[c], m.conn[c])
             /\ n.conn[c] \in ConnRecord /\ m.conn[c] \in ConnRecord
  BY ConnType DEF Chatting
<1>2. Attending(m)
  BY <1>1, ChatAttended DEF Patient, Attending
<1>3. ASSUME NEW i \in DOMAIN js, js[i].owner \in Conn
      PROVE  /\ Awaited(m.conn[js[i].owner], js[i].re)
             /\ \A j \in DOMAIN js : js[j].owner = js[i].owner => j = i
  <2>1. PICK c \in Conn : c = js[i].owner
    BY <1>3
  <2>2. /\ Awaited(n.conn[c], js[i].re)
        /\ \A j \in DOMAIN js : js[j].owner = js[i].owner => j = i
    BY <1>3, <2>1 DEF Patient, Orderly
  <2>3. Awaited(m.conn[c], js[i].re)
    BY <1>1, <2>2, ChatAwaited
  <2>4. QED
    BY <2>1, <2>2, <2>3
<1>4. QED
  BY <1>2, <1>3 DEF Patient, Orderly

(* What c does is its own affair while it does not wait.                   *)
LEMMA EndedPatient ==
  ASSUME net \in NetRecord, NEW js, Patient(net, js), NEW c \in Conn,
         NoJob(js, c), NEW m \in NetRecord, Others(c, m),
         Attended(plan.script[c], m.conn[c])
  PROVE  Patient(m, js)
<1>1. ASSUME NEW d \in Conn, d # c
      PROVE  /\ Chat(plan.script[d], net.conn[d], m.conn[d])
             /\ net.conn[d] \in ConnRecord /\ m.conn[d] \in ConnRecord
  BY <1>1, ConnType DEF Others, conn
<1>2. Attending(m)
  <2>1. SUFFICES ASSUME NEW d \in Conn
                 PROVE  Attended(plan.script[d], m.conn[d])
    BY DEF Attending
  <2>2. CASE d # c
    BY <1>1, <2>2, ChatAttended DEF Patient, Attending
  <2>3. QED
    BY <2>2
<1>3. ASSUME NEW i \in DOMAIN js, js[i].owner \in Conn
      PROVE  /\ Awaited(m.conn[js[i].owner], js[i].re)
             /\ \A j \in DOMAIN js : js[j].owner = js[i].owner => j = i
  <2>1. PICK d \in Conn : d = js[i].owner /\ d # c
    BY <1>3 DEF NoJob
  <2>2. /\ Awaited(net.conn[d], js[i].re)
        /\ \A j \in DOMAIN js : js[j].owner = js[i].owner => j = i
    BY <1>3, <2>1 DEF Patient, Orderly
  <2>3. Awaited(m.conn[d], js[i].re)
    BY <1>1, <2>1, <2>2, ChatAwaited
  <2>4. QED
    BY <2>1, <2>2, <2>3
<1>4. QED
  BY <1>2, <1>3 DEF Patient, Orderly

LEMMA EndedAttended ==
  ASSUME NEW c \in Conn, NEW m \in NetRecord, Ended(c, m)
  PROVE  Attended(plan.script[c], m.conn[c])
<1>1. PICK k \in ConnRecord : k = m.conn[c]
  BY ConnType
<1>2. /\ k.active = 0 /\ k.loop # "waiting"
      /\ Heard(plan.script[c], k, k.taken)
  BY <1>1 DEF Ended, Answered
<1>3. k.taken - k.active = k.taken
  BY <1>2 DEF ConnRecord
<1>4. QED
  BY <1>1, <1>2, <1>3 DEF Attended

(* A connection whose loop does not wait, or that is new, has no job.      *)
LEMMA NotWaiting ==
  ASSUME NEW n, NEW js, Patient(n, js), NEW c \in Conn,
         n.conn[c].loop # "waiting" \/ n.conn[c].socket = "none"
  PROVE  NoJob(js, c)
BY DEF Patient, Orderly, Awaited, NoJob

(* A job joins the queue, its owner waiting for it.                        *)
LEMMA OrderlyAppend ==
  ASSUME NEW m, NEW js \in Seq(Job), NEW job \in Job, Patient(m, js),
         job.owner \in Conn => /\ Awaited(m.conn[job.owner], job.re)
                               /\ NoJob(js, job.owner),
         NEW g, g = Append(js, job)
  PROVE  g \in Seq(Job) /\ Patient(m, g)
<1>1. PICK n \in Nat : n = Len(js) /\ DOMAIN js = 1 .. n
  OBVIOUS
<1>2. /\ g \in Seq(Job) /\ DOMAIN g = 1 .. n + 1 /\ g[n + 1] = job
      /\ \A i \in 1 .. n : g[i] = js[i]
  BY <1>1, AppendProperties
<1>3. ASSUME NEW i \in 1 .. n, js[i].owner \in Conn
      PROVE  /\ Awaited(m.conn[js[i].owner], js[i].re)
             /\ \A j \in 1 .. n : js[j].owner = js[i].owner => j = i
  BY <1>1, <1>3 DEF Patient, Orderly
<1>4. job.owner \in Conn => \A i \in 1 .. n : js[i].owner # job.owner
  BY <1>1 DEF NoJob
<1>5. ASSUME NEW i \in DOMAIN g, g[i].owner \in Conn
      PROVE  /\ Awaited(m.conn[g[i].owner], g[i].re)
             /\ \A j \in DOMAIN g : g[j].owner = g[i].owner => j = i
  <2>1. CASE i = n + 1
    BY <1>1, <1>2, <1>4, <1>5, <2>1
  <2>2. CASE i \in 1 .. n
    BY <1>1, <1>2, <1>3, <1>4, <1>5, <2>2
  <2>3. QED
    BY <1>1, <1>2, <2>1, <2>2
<1>6. QED
  BY <1>2, <1>5 DEF Patient, Orderly

(* The first job leaves the queue, and its owner has no other.             *)
LEMMA OrderlyTail ==
  ASSUME NEW m, NEW js \in Seq(Job), js # <<>>, Patient(m, js),
         NEW job, job = Head(js), NEW g, g = Tail(js)
  PROVE  /\ job \in Job /\ g \in Seq(Job) /\ Patient(m, g)
         /\ job.owner \in Conn => /\ Awaited(m.conn[job.owner], job.re)
                                  /\ NoJob(g, job.owner)
<1>1. PICK n \in Nat : n + 1 = Len(js) /\ DOMAIN js = 1 .. n + 1
  <2>1. PICK len \in Nat : len = Len(js) /\ len # 0
    OBVIOUS
  <2>2. QED
    BY <2>1
<1>2. /\ job \in Job /\ job = js[1] /\ g \in Seq(Job)
      /\ DOMAIN g = 1 .. n /\ \A i \in 1 .. n : g[i] = js[i + 1]
  BY <1>1, HeadTailProperties
<1>3. ASSUME NEW i \in 1 .. n + 1, js[i].owner \in Conn
      PROVE  /\ Awaited(m.conn[js[i].owner], js[i].re)
             /\ \A j \in 1 .. n + 1 : js[j].owner = js[i].owner => j = i
  BY <1>1, <1>3 DEF Patient, Orderly
<1>4. ASSUME NEW i \in DOMAIN g, g[i].owner \in Conn
      PROVE  /\ Awaited(m.conn[g[i].owner], g[i].re)
             /\ \A j \in DOMAIN g : g[j].owner = g[i].owner => j = i
  <2>1. i \in 1 .. n /\ i + 1 \in 1 .. n + 1 /\ g[i] = js[i + 1]
    BY <1>1, <1>2
  <2>2. ASSUME NEW j \in 1 .. n, g[j].owner = g[i].owner
        PROVE  j = i
    <3>1. j + 1 \in 1 .. n + 1 /\ js[j + 1].owner = js[i + 1].owner
      BY <1>1, <1>2, <2>1, <2>2
    <3>2. j + 1 = i + 1
      BY <1>3, <1>4, <2>1, <3>1
    <3>3. QED
      BY <2>1, <3>2
  <2>3. Awaited(m.conn[g[i].owner], g[i].re)
    BY <1>3, <1>4, <2>1
  <2>4. QED
    BY <1>2, <2>2, <2>3
<1>5. Patient(m, g)
  BY <1>4 DEF Patient, Orderly
<1>6. ASSUME job.owner \in Conn
      PROVE  Awaited(m.conn[job.owner], job.re) /\ NoJob(g, job.owner)
  <2>1. /\ Awaited(m.conn[job.owner], job.re)
        /\ \A j \in 1 .. n + 1 : js[j].owner = job.owner => j = 1
    BY <1>1, <1>2, <1>3, <1>6
  <2>2. ASSUME NEW i \in DOMAIN g PROVE g[i].owner # job.owner
    <3>1. i + 1 \in 1 .. n + 1 /\ i + 1 # 1 /\ g[i] = js[i + 1]
      BY <1>1, <1>2
    <3>2. QED
      BY <2>1, <3>1
  <2>3. QED
    BY <2>1, <2>2 DEF NoJob
<1>7. QED
  BY <1>2, <1>5, <1>6

-----------------------------------------------------------------------------
(* Sockets.                                                                *)

(* A connection that is new or gone holds nothing.                         *)
LEMMA EmptyConn ==
  ASSUME NEW l,
         \/ \E b \in BOOLEAN : l = NewConn(b)
         \/ l = NoConn
         \/ l = [NoConn EXCEPT !.socket = "gone"]
         \/ \E k \in ConnRecord : l = Emptied(k)
  PROVE  /\ l \in ConnRecord /\ l.accounted = 0 /\ l.arrived = 0
         /\ Decent(l) /\ UpToDate(l)
         /\ l.socket = "open" => l.active = 0
<1>1. PICK none : none = <<>>
  OBVIOUS
<1>2. /\ none \in Seq(Chunk) /\ none \in Seq(Command) /\ none \in WatchTable
      /\ Len(none) = 0 /\ Cardinality(DOMAIN none) = 0
  BY <1>1, NoOutput, NoWatch
<1>3. PICK empty : empty = {}
  OBVIOUS
<1>4. empty \in Subscriptions /\ Cardinality(empty) = 0
  BY <1>3, FS_EmptySet DEF Subscriptions
<1> DEFINE Bare(s, o, b, e, a) ==
      [socket |-> s, arrived |-> 0, taken |-> 0, active |-> a,
       loop |-> o, authed |-> b,
       multi |-> FALSE, tx |-> none, txFailed |-> FALSE,
       watch |-> none, subs |-> empty, subMode |-> FALSE,
       out |-> none, wire |-> none, received |-> none,
       pressed |-> FALSE, ending |-> FALSE, closed |-> e, accounted |-> 0]
<1>5. PICK s \in {"none", "open", "gone"}, o \in {"idle", "running", "waiting"},
           b \in BOOLEAN, e \in BOOLEAN, a \in {0, 1} :
        /\ l = Bare(s, o, b, e, a) /\ (s = "open" => a = 0)
        /\ s # "open" => e
  <2>1. ASSUME NEW b \in BOOLEAN, l = NewConn(b)
        PROVE  l = Bare("open", "idle", b, FALSE, 0)
    BY <1>1, <1>3, <2>1 DEF NewConn
  <2>2. NoConn = Bare("none", "idle", FALSE, TRUE, 0)
    <3>1. PICK k : k = NewConn(FALSE)
      OBVIOUS
    <3>2. k = Bare("open", "idle", FALSE, FALSE, 0)
      BY <1>1, <1>3, <3>1 DEF NewConn
    <3>3. ASSUME NEW x, x = [k EXCEPT !.socket = "none", !.closed = TRUE]
          PROVE  x = Bare("none", "idle", FALSE, TRUE, 0)
      BY <3>2, <3>3
    <3>4. QED
      BY <3>1, <3>3 DEF NoConn
  <2>3. [NoConn EXCEPT !.socket = "gone"] = Bare("gone", "idle", FALSE, TRUE, 0)
    <3>1. PICK k : k = NoConn
      OBVIOUS
    <3>2. ASSUME NEW x, x = [k EXCEPT !.socket = "gone"]
          PROVE  x = Bare("gone", "idle", FALSE, TRUE, 0)
      BY <2>2, <3>1, <3>2
    <3>3. QED
      BY <3>1, <3>2
  <2>4. ASSUME NEW k \in ConnRecord, l = Emptied(k)
        PROVE  /\ l = Bare("gone", k.loop, FALSE, TRUE, k.active)
               /\ k.loop \in {"idle", "running", "waiting"} /\ k.active \in {0, 1}
    BY <2>2, <2>4 DEF Emptied, ConnRecord
  <2> HIDE DEF Bare
  <2>5. QED
    BY <2>1, <2>2, <2>3, <2>4
<1>6. l \in ConnRecord
  BY <1>2, <1>4, <1>5 DEF ConnRecord
<1>7. PICK z \in Nat : z = Len(none) /\ z = 0
  BY <1>2
<1>8. Pending(l) = 0
  <2>1. l.out = none /\ l.wire = none
    BY <1>5
  <2>2. Pending(l) = z + z
    BY <1>2, <1>7, <2>1, PendingOf
  <2>3. QED
    BY <1>7, <2>2
<1>9. Weight(l) = 0
  <2>1. l.tx = none /\ l.watch = none /\ l.subs = empty
    BY <1>5
  <2>2. Weight(l) = z + Cardinality(DOMAIN none) + Cardinality(empty) + Pending(l)
    BY <1>7, <2>1, Zenon DEF Weight
  <2>3. QED
    BY <1>2, <1>4, <1>7, <1>8, <2>2
<1>10. s = "open" => Held(l) = 0
  BY <1>5, <1>6, <1>9, HeldType
<1>11. /\ l.accounted = 0 /\ l.socket = s /\ l.arrived = 0 /\ l.taken = 0
       /\ l.ending = FALSE /\ l.active = a /\ l.closed = e
  BY <1>5
<1>12. UpToDate(l)
  BY <1>5, <1>10, <1>11 DEF UpToDate, Unreachable
<1>13. Held(l) \in Nat
  BY <1>6, <1>11, HeldType
<1>14. Decent(l)
  BY <1>5, <1>8, <1>10, <1>11, <1>13, Limits DEF Decent, Unreachable
<1>15. QED
  BY <1>5, <1>6, <1>11, <1>12, <1>14

LEMMA AskedType ==
  ASSUME plan \in Scenario, NEW c \in Conn
  PROVE  Asked(c) \in Nat
<1>1. plan.script[c] \in Seq(Request)
  BY DEF Scenario
<1>2. QED
  BY <1>1 DEF Asked

LEMMA ConnectExact ==
  ASSUME plan \in Scenario, NEW n \in Exact, NEW c \in Conn, n.conn[c].socket = "none", NEW l,
         \/ \E b \in BOOLEAN : l = NewConn(b)
         \/ l = [NoConn EXCEPT !.socket = "gone"]
  PROVE  [n EXCEPT !.conn[c] = l] \in Exact
<1>1. /\ l \in ConnRecord /\ l.accounted = 0 /\ l.arrived = 0
      /\ Decent(l) /\ UpToDate(l)
  BY EmptyConn
<1>2. PICK S : S = {}
  OBVIOUS
<1>3. n \in Loose(S)
  BY <1>2 DEF Exact
<1>4. n.conn[c].accounted = 0
  BY <1>3, LooseType DEF Decent
<1>5. Asked(c) \in Nat
  BY AskedType
<1>6. l.arrived <= Asked(c)
  BY <1>1, <1>5
<1>7. Edit(n, c, l) \in Loose(S)
  BY <1>1, <1>2, <1>3, <1>4, <1>6, EditLoose
<1>8. QED
  BY <1>2, <1>7 DEF Edit, Exact

LEMMA AccountExact ==
  ASSUME NEW n \in Exact, NEW c \in Conn, NEW extra \in Nat,
         extra = 0 \/ ~ n.conn[c].closed, NEW a, a = Account(n, c, extra)
  PROVE  /\ a.ok \in BOOLEAN /\ a.net \in Exact /\ a.net \in Chatting(n)
         /\ a.ok => a.net.conn[c] =
                      [n.conn[c] EXCEPT !.accounted = Held(n.conn[c])]
<1>1. PICK S : S = {}
  OBVIOUS
<1>2. n \in Loose(S) /\ S \ {c} = S
  BY <1>1 DEF Exact
<1>3. a.ok \in BOOLEAN /\ a.net \in Loose(S \ {c})
  BY <1>2, AccountSettles
<1>4. a.ok => a.net.conn[c] = [n.conn[c] EXCEPT !.accounted = Held(n.conn[c])]
  BY <1>2, AccountSettles
<1>5. a.net \in Chatting(n)
  BY <1>2, AccountQuiet
<1>6. QED
  BY <1>1, <1>2, <1>3, <1>4, <1>5 DEF Exact

(* What goes out, and what is waited for, is as before.                    *)
LEMMA QuietStep ==
  ASSUME NEW n \in NetRecord, NEW m \in NetRecord, NEW c \in Conn,
         Only(n, m, c), NEW k, k = n.conn[c], NEW l, l = m.conn[c],
         Quieter(k, l), l.active = k.active, l.taken = k.taken,
         l.loop = "waiting" <=> k.loop = "waiting",
         l.socket = "none" <=> k.socket = "none",
         l.socket = "gone" <=> k.socket = "gone"
  PROVE  m \in Chatting(n)
<1>1. k \in ConnRecord /\ l \in ConnRecord
  BY ConnType
<1>2. ASSUME NEW s PROVE Chat(s, k, l)
  <2>1. \A t \in Int : Heard(s, k, t) => Heard(s, l, t)
    BY <1>1, QuieterHeard
  <2>2. QED
    BY <2>1 DEF Chat
<1>3. QED
  BY <1>2, OnlyChatting

LEMMA QuietEdit ==
  ASSUME NEW n \in NetRecord, NEW c \in Conn, NEW k, k = n.conn[c],
         NEW l \in ConnRecord,
         Quieter(k, l), l.active = k.active, l.taken = k.taken,
         l.loop = k.loop,
         l.socket = "none" <=> k.socket = "none",
         l.socket = "gone" <=> k.socket = "gone"
  PROVE  Edit(n, c, l) \in Chatting(n)
<1>1. PICK m : m = Edit(n, c, l)
  OBVIOUS
<1>2. m \in NetRecord /\ m.conn[c] = l /\ Only(n, m, c)
  BY <1>1, EditType DEF Only
<1>3. m \in Chatting(n)
  BY <1>2, QuietStep
<1>4. QED
  BY <1>1, <1>3

LEMMA Itself ==
  ASSUME NEW n \in Exact
  PROVE  n \in Chatting(n)
BY ChatReflexive, LooseType DEF Exact, Chatting

LEMMA LoopChats ==
  ASSUME NEW n \in NetRecord, NEW c \in Conn, n.conn[c].loop # "waiting",
         NEW state \in {"idle", "running"}
  PROVE  LoopSet(n, c, state) \in Chatting(n)
<1>1. PICK m : m = LoopSet(n, c, state)
  OBVIOUS
<1>2. PICK k \in ConnRecord : k = n.conn[c]
  BY ConnType
<1>3. PICK l : l = m.conn[c]
  OBVIOUS
<1>4. /\ m \in NetRecord /\ Only(n, m, c) /\ Quieter(k, l)
      /\ l = [k EXCEPT !.loop = state]
  BY <1>1, <1>2, <1>3, SetLoop
<1>5. /\ l.active = k.active /\ l.taken = k.taken /\ l.socket = k.socket
      /\ l.loop # "waiting" /\ k.loop # "waiting"
  BY <1>2, <1>4 DEF ConnRecord
<1>6. m \in Chatting(n)
  BY <1>2, <1>3, <1>4, <1>5, QuietStep
<1>7. QED
  BY <1>1, <1>6

LEMMA LoopEndsExact ==
  ASSUME NEW n \in Exact, NEW c \in Conn, n.conn[c].loop # "waiting",
         NEW o, o = Account([n EXCEPT !.conn[c].loop = "idle"], c, 0).net
  PROVE  o \in Exact /\ o \in Chatting(n)
<1>1. PICK m : m = [n EXCEPT !.conn[c].loop = "idle"]
  OBVIOUS
<1>2. n \in NetRecord
  BY LooseType DEF Exact
<1>3. m \in Exact /\ m \in Chatting(n)
  BY <1>1, <1>2, LoopExact, LoopChats DEF LoopSet
<1>4. o \in Exact /\ o \in Chatting(m)
  BY <1>1, <1>3, AccountExact
<1>5. QED
  BY <1>2, <1>3, <1>4, ChattingTransitive

LEMMA DisconnectExact ==
  ASSUME NEW n \in Exact, NEW c \in Conn
  PROVE  Disconnect(n, c) \in Exact /\ Disconnect(n, c) \in Chatting(n)
BY DisconnectLoose, DisconnectQuiet DEF Exact


LEMMA AwaitExact ==
  ASSUME NEW c \in Conn, NEW n \in Busy(c), NEW o, o = Await(n, c)
  PROVE  /\ o \in Exact /\ Others(c, o)
         /\ Attended(plan.script[c], o.conn[c])
         /\ Awaited(o.conn[c], n.conn[c].taken)
<1>1. PICK k : k = n.conn[c]
  OBVIOUS
<1>2. /\ n \in NetRecord /\ k \in ConnRecord /\ n \in Loose({c})
      /\ ~ n.conn[c].closed /\ k.taken <= k.arrived
  BY <1>1, LooseType DEF Busy, Underway, Decent
<1>3. PICK l : l = [k EXCEPT !.loop = "waiting"]
  OBVIOUS
<1>4. l \in ConnRecord /\ Carried(k, l) /\ l.loop = "waiting"
  BY <1>2, <1>3 DEF ConnRecord, Handled, Carried
<1>5. PICK m : m = Edit(n, c, l)
  OBVIOUS
<1>6. [n EXCEPT !.conn[c].loop = "waiting"] = m
  BY <1>1, <1>2, <1>3, <1>5 DEF Edit, NetRecord, ConnRecord
<1>7. m \in Busy(c)
  BY <1>1, <1>2, <1>4, <1>5, HandledBusy
<1>8. PICK T : T = {c}
  OBVIOUS
<1>9. m \in Loose(T) /\ m \in NetRecord /\ m.conn[c] = l
  BY <1>2, <1>4, <1>5, <1>7, <1>8, EditType DEF Busy, Underway
<1>10. o = Account(m, c, 0).net
  BY <1>6 DEF Await
<1>11. o \in Loose(T \ {c}) /\ o \in Outputs(m) /\ o \in Chatting(m)
  <2>1. PICK a : a = Account(m, c, 0)
    OBVIOUS
  <2>2. a.net \in Loose(T \ {c}) /\ a.net \in Outputs(m)
    BY <1>9, <2>1, AccountSettles
  <2>3. a.net \in Chatting(m)
    BY <1>9, <2>1, AccountQuiet
  <2>4. QED
    BY <1>10, <2>1, <2>2, <2>3
<1>12. Others(c, m) /\ Due(c, m.conn[c])
  BY <1>7 DEF Busy, Underway
<1>13. Others(c, o) /\ Due(c, o.conn[c])
  BY <1>9, <1>11, <1>12, OthersChat, DueOutput
<1>14. o.conn[c].loop = "waiting" /\ o.conn[c].taken = k.taken
  BY <1>4, <1>9, <1>11 DEF Outputs, SameTask, Carried
<1>15. Attended(plan.script[c], o.conn[c])
  BY <1>13, <1>14 DEF Due, Attended
<1>16. QED
  BY <1>1, <1>8, <1>11, <1>13, <1>14, <1>15 DEF Exact, Due, Awaited

(* More requests have arrived.                                             *)
LEMMA GrownLoose ==
  ASSUME NEW n \in Exact, NEW c \in Conn, ~ n.conn[c].closed,
         NEW x \in Nat, n.conn[c].taken <= x, x <= Asked(c)
  PROVE  /\ [n EXCEPT !.conn[c].arrived = x] \in Loose({c})
         /\ [n EXCEPT !.conn[c].arrived = x] \in Chatting(n)
         /\ ~ [n EXCEPT !.conn[c].arrived = x].conn[c].closed
<1>1. PICK k : k = n.conn[c]
  OBVIOUS
<1>2. n \in NetRecord /\ k \in ConnRecord /\ Decent(k)
  BY <1>1, LooseType DEF Exact
<1>3. PICK l : l = [k EXCEPT !.arrived = x]
  OBVIOUS
<1>4. /\ l \in ConnRecord /\ l.arrived = x /\ l.taken = k.taken
      /\ l.out = k.out /\ l.wire = k.wire
      /\ l.accounted = k.accounted /\ l.socket = k.socket
      /\ l.closed = k.closed /\ l.ending = k.ending /\ l.pressed = k.pressed
      /\ l.received = k.received /\ l.active = k.active /\ l.loop = k.loop
  BY <1>2, <1>3 DEF ConnRecord
<1>5. Pending(l) = Pending(k)
  BY <1>4, Zenon DEF Pending
<1>6. Decent(l)
  BY <1>1, <1>2, <1>4, <1>5 DEF Decent
<1>7. PICK S : S = {}
  OBVIOUS
<1>8. PICK T : T = {c}
  OBVIOUS
<1>9. n \in Loose(S) /\ c \in T /\ S \subseteq T \cup {c}
  BY <1>7, <1>8 DEF Exact
<1>10. Edit(n, c, l) \in Loose(T)
  BY <1>1, <1>4, <1>6, <1>9, EditLoose
<1>11. [n EXCEPT !.conn[c].arrived = x] = Edit(n, c, l)
  BY <1>1, <1>2, <1>3 DEF Edit, NetRecord, ConnRecord
<1>12. Edit(n, c, l).conn[c] = l
  BY <1>2, <1>4, EditType
<1>13. Quieter(k, l)
  BY <1>2, <1>4, SameOutput
<1>14. Edit(n, c, l) \in Chatting(n)
  BY <1>1, <1>2, <1>4, <1>13, QuietEdit
<1>15. QED
  BY <1>1, <1>4, <1>8, <1>10, <1>11, <1>12, <1>14

LEMMA StartedExact ==
  ASSUME NEW c \in Conn, NEW b, b.net \in Exact
  PROVE  Started(b, c) \in Exact /\ Started(b, c) \in Chatting(b.net)
<1>1. PICK n : n = b.net
  OBVIOUS
<1>2. n \in Exact /\ n \in NetRecord
  BY <1>1, LooseType DEF Exact
<1>3. LoopSet(n, c, "running") \in Exact
  BY <1>2, LoopExact DEF LoopSet
<1>4. n.conn[c].loop = "idle" => LoopSet(n, c, "running") \in Chatting(n)
  BY <1>2, LoopChats
<1>5. n \in Chatting(n)
  BY <1>2, ChatReflexive DEF Chatting
<1>6. \/ Started(b, c) = n
      \/ Started(b, c) = LoopSet(n, c, "running") /\ n.conn[c].loop = "idle"
  BY <1>1 DEF Started, LoopSet
<1>7. QED
  BY <1>1, <1>2, <1>3, <1>4, <1>5, <1>6

LEMMA QueueUpExact ==
  ASSUME NEW n \in Exact, NEW c \in Conn, ~ n.conn[c].closed,
         NEW more \in Nat, NEW k, k = n.conn[c],
         k.arrived + more <= Asked(c), Asked(c) \in Nat, MaxQueued \in Nat,
         NEW q, q = QueueUp(Account(n, c, more), c, more,
                            MaxQueued - (k.arrived - k.taken))
  PROVE  q \in Exact /\ q \in Chatting(n)
<1>1. PICK a : a = Account(n, c, more)
  OBVIOUS
<1>2. /\ a.ok \in BOOLEAN /\ a.net \in Exact /\ a.net \in Chatting(n)
      /\ a.ok => a.net.conn[c] = [k EXCEPT !.accounted = Held(k)]
  BY <1>1, AccountExact
<1>3. k \in ConnRecord /\ Decent(k)
  BY LooseType DEF Exact
<1>4. PICK arrived \in Nat : arrived = k.arrived
  BY <1>3 DEF ConnRecord
<1>5. PICK taken \in Nat : taken = k.taken /\ taken <= arrived
  BY <1>3, <1>4 DEF ConnRecord, Decent
<1>6. PICK room \in Int : room = MaxQueued - (k.arrived - k.taken)
                          /\ arrived + room = MaxQueued + taken
  BY <1>4, <1>5
<1>7. CASE ~ a.ok
  BY <1>1, <1>2, <1>7 DEF QueueUp
<1>8. CASE a.ok
  <2>1. PICK m : m = a.net
    OBVIOUS
  <2>2. PICK l : l = m.conn[c]
    OBVIOUS
  <2>3. /\ m \in Exact /\ l = [k EXCEPT !.accounted = Held(k)]
        /\ l.arrived = arrived /\ l.taken = taken /\ l.closed = FALSE
    BY <1>2, <1>3, <1>4, <1>5, <1>8, <2>1, <2>2 DEF ConnRecord
  <2>4. ASSUME NEW x \in Nat, taken <= x, x <= Asked(c)
        PROVE  /\ [m EXCEPT !.conn[c].arrived = x] \in Loose({c})
               /\ [m EXCEPT !.conn[c].arrived = x] \in Chatting(m)
               /\ ~ [m EXCEPT !.conn[c].arrived = x].conn[c].closed
    BY <2>2, <2>3, <2>4, GrownLoose
  <2>5. m \in NetRecord /\ n \in NetRecord /\ m \in Chatting(n)
    BY <1>2, <2>1, <2>3, LooseType DEF Exact
  <2>6. PICK T : T = {c}
    OBVIOUS
  <2>7. CASE more > room
    <3>1. PICK x \in Nat : x = arrived + room
      BY <1>5, <1>6
    <3>2. taken <= x /\ x <= Asked(c)
      BY <1>4, <1>5, <1>6, <2>7, <3>1
    <3>3. PICK o : o = [m EXCEPT !.conn[c].arrived = x]
      OBVIOUS
    <3>4. o \in Loose(T) /\ ~ o.conn[c].closed /\ o \in Chatting(m)
      BY <2>4, <2>6, <3>2, <3>3
    <3>5. Disconnect(o, c) \in Loose(T \ {c}) /\ Disconnect(o, c) \in Chatting(o)
      BY <3>4, DisconnectLoose, DisconnectQuiet
    <3>6. [m EXCEPT !.conn[c].arrived = @ + room] = o
      BY <2>2, <2>3, <2>5, <3>1, <3>3 DEF NetRecord
    <3>7. Disconnect(o, c) \in Exact /\ Disconnect(o, c) \in Chatting(n)
      BY <2>5, <2>6, <3>4, <3>5, ChattingTransitive DEF Exact, Chatting
    <3>8. q = Disconnect(o, c)
      BY <1>1, <1>6, <1>8, <2>1, <2>7, <3>6 DEF QueueUp
    <3>9. QED
      BY <3>7, <3>8
  <2>8. CASE ~ (more > room)
    <3>1. PICK x \in Nat : x = arrived + more
      OBVIOUS
    <3>2. taken <= x /\ x <= Asked(c)
      BY <1>4, <1>5, <3>1
    <3>3. PICK o : o = [m EXCEPT !.conn[c].arrived = x]
      OBVIOUS
    <3>4. o \in Loose(T) /\ o \in Chatting(m)
      BY <2>4, <2>6, <3>2, <3>3
    <3>5. PICK b : b = Account(o, c, 0)
      OBVIOUS
    <3>6. b.net \in Loose(T \ {c}) /\ b.net \in Chatting(o)
      BY <3>4, <3>5, AccountSettles, AccountQuiet
    <3>7. Started(b, c) \in Exact /\ Started(b, c) \in Chatting(b.net)
      BY <2>6, <3>6, StartedExact DEF Exact
    <3>8. [m EXCEPT !.conn[c].arrived = @ + more] = o
      BY <2>2, <2>3, <2>5, <3>1, <3>3 DEF NetRecord
    <3>9. b.net \in Chatting(n)
      BY <2>5, <3>4, <3>6, ChattingTransitive DEF Chatting
    <3>10. q = Started(b, c)
      BY <1>1, <1>6, <1>8, <2>1, <2>8, <3>5, <3>8 DEF QueueUp
    <3>11. QED
      BY <2>5, <3>7, <3>9, <3>10, ChattingTransitive DEF Chatting
  <2>9. QED
    BY <2>7, <2>8
<1>9. QED
  BY <1>7, <1>8


(* The first chunk leaves the buffer of the socket.                        *)
Read(k, wire, received) == [k EXCEPT !.wire = wire, !.received = received]

LEMMA ReadLoose ==
  ASSUME NEW n \in Exact, NEW c \in Conn, NEW k, k = n.conn[c],
         NEW w \in Seq(Chunk), NEW r \in Seq(Chunk), Len(w) <= Len(k.wire),
         NEW l, l = Read(k, w, r), NEW m, m = Edit(n, c, l)
  PROVE  /\ m \in Loose({c}) /\ m.conn[c] = l /\ l \in ConnRecord
         /\ k.socket = "open" => Held(l) <= k.accounted
<1>1. n \in NetRecord /\ k \in ConnRecord /\ Decent(k) /\ UpToDate(k)
      /\ k.arrived <= Asked(c) /\ k.accounted = n.conn[c].accounted
  BY LooseType DEF Exact
<1>3. /\ l \in ConnRecord /\ SameTask(k, l) /\ l.accounted = k.accounted
      /\ l.closed = k.closed /\ l.ending = k.ending /\ l.socket = k.socket
      /\ l.out = k.out /\ l.wire = w /\ l.pressed = k.pressed
  BY <1>1 DEF ConnRecord, SameTask, Read
<1>4. PICK p \in Nat : p = Pending(k) /\ p <= MaxPending
  BY <1>1, HeldType DEF Decent
<1>5. PICK q \in Nat : q = Pending(l) /\ q <= p
  <2>1. PICK o \in Seq(Chunk) : o = k.out
    BY <1>1 DEF ConnRecord
  <2>2. PICK v \in Seq(Chunk) : v = k.wire
    BY <1>1 DEF ConnRecord
  <2>3. p = Len(o) + Len(v) /\ Pending(l) = Len(o) + Len(w)
    BY <1>3, <1>4, <2>1, <2>2, PendingOf
  <2>4. PICK x \in Nat : x = Len(o)
    OBVIOUS
  <2>5. PICK y \in Nat : y = Len(w)
    OBVIOUS
  <2>6. PICK z \in Nat : z = Len(v) /\ y <= z
    BY <2>2, <2>5
  <2>7. QED
    BY <2>3, <2>4, <2>5, <2>6
<1>6. Held(l) <= Held(k)
  <2>1. Weight(l) = Weight(k) - p + q
    BY <1>1, <1>3, <1>4, <1>5, WeightOf DEF SameTask
  <2>2. PICK a \in Int : a = (k.arrived - k.taken) + k.active
    BY <1>1, SMTT(30) DEF ConnRecord
  <2>3. Held(k) = a + Weight(k) /\ Held(l) = a + Weight(l)
    BY <1>1, <1>3, <2>2, HeldType DEF SameTask
  <2>4. Weight(k) \in Nat
    BY <1>1, HeldType
  <2>5. QED
    BY <1>5, <2>1, <2>3, <2>4
<1>7. Held(k) \in Int /\ Held(l) \in Int /\ k.accounted \in Int
  <2>1. k.accounted \in Nat
    BY <1>1 DEF ConnRecord
  <2>2. QED
    BY <1>1, <1>3, <2>1, HeldType
<1>8. ~ Unreachable(k) => Held(l) <= k.accounted
  BY <1>1, <1>6 DEF UpToDate
<1>9. Decent(l)
  BY <1>1, <1>3, <1>4, <1>5, <1>8, Limits DEF Decent, SameTask, Unreachable
<1>10. PICK S : S = {}
  OBVIOUS
<1>11. PICK T : T = {c}
  OBVIOUS
<1>12. n \in Loose(S) /\ c \in T /\ S \subseteq T \cup {c}
  BY <1>10, <1>11 DEF Exact
<1>13. Edit(n, c, l) \in Loose(T)
  <2>1. l.arrived <= Asked(c)
    BY <1>1, <1>3 DEF SameTask
  <2>2. QED
    BY <1>1, <1>3, <1>9, <1>12, <2>1, EditLoose
<1>14. Edit(n, c, l).conn[c] = l
  BY <1>1, <1>3, EditType
<1>15. k.socket = "open" => ~ Unreachable(k)
  BY DEF Unreachable
<1>16. QED
  BY <1>3, <1>8, <1>11, <1>13, <1>14, <1>15

LEMMA ReadChats ==
  ASSUME NEW n \in NetRecord, NEW c \in Conn, NEW k, k = n.conn[c],
         NEW l \in ConnRecord, NEW w, NEW r, l = Read(k, w, r),
         Output(l) = Output(k)
  PROVE  Edit(n, c, l) \in Chatting(n)
<1>1. k \in ConnRecord
  BY ConnType
<1>2. /\ l.active = k.active /\ l.taken = k.taken /\ l.loop = k.loop
      /\ l.socket = k.socket /\ l.closed = k.closed /\ l.ending = k.ending
  BY <1>1 DEF Read, ConnRecord
<1>3. Begins(Output(l), Output(k))
  BY <1>1, OutputParts, BeginsReflexive
<1>4. Quieter(k, l)
  BY <1>2, <1>3 DEF Quieter, Reaches, Mute, Unreachable
<1>5. QED
  BY <1>2, <1>4, QuietEdit

(* What flushOutput() leaves of a connection that is not closed.           *)
Flushed(k, wire, out, many, over) ==
  [k EXCEPT !.wire = wire, !.out = out, !.pressed = many = HighWater,
            !.closed = over, !.socket = IF over THEN "ended" ELSE k.socket]

LEMMA SplitOutput ==
  ASSUME NEW o \in Seq(Chunk), NEW many \in Nat, many <= Len(o)
  PROVE  /\ SubSeq(o, 1, many) \in Seq(Chunk)
         /\ SubSeq(o, many + 1, Len(o)) \in Seq(Chunk)
         /\ Len(SubSeq(o, 1, many)) + Len(SubSeq(o, many + 1, Len(o))) = Len(o)
<1>1. PICK len \in Nat : len = Len(o) /\ many <= len
  OBVIOUS
<1>2. \A i \in 1 .. len : o[i] \in Chunk
  BY <1>1
<1>3. PICK x : x = SubSeq(o, 1, many)
  OBVIOUS
<1>4. x \in Seq(Chunk) /\ Len(x) = many
  <2>1. \A i \in 1 .. many : o[i] \in Chunk
    BY <1>1, <1>2
  <2>2. x \in Seq(Chunk) /\ Len(x) = IF 1 <= many THEN many - 1 + 1 ELSE 0
    BY <1>3, <2>1, SubSeqProperties
  <2>3. QED
    BY <2>2
<1>5. PICK y : y = SubSeq(o, many + 1, len)
  OBVIOUS
<1>6. y \in Seq(Chunk) /\ Len(y) = len - many
  <2>1. \A i \in (many + 1) .. len : o[i] \in Chunk
    BY <1>2
  <2>2. many + 1 \in Int /\ len \in Int
    OBVIOUS
  <2>3. /\ y \in Seq(Chunk)
        /\ Len(y) = IF many + 1 <= len THEN len - (many + 1) + 1 ELSE 0
    BY <1>5, <2>1, <2>2, SubSeqProperties
  <2>4. QED
    BY <1>1, <2>3
<1>7. Len(x) + Len(y) = len
  <2>1. PICK i \in Nat : i = Len(x) /\ i = many
    BY <1>4
  <2>2. PICK j \in Int : j = Len(y) /\ j = len - many
    BY <1>1, <1>6
  <2>3. i + j = len
    BY <1>1, <2>1, <2>2
  <2>4. QED
    BY <2>1, <2>2, <2>3
<1>8. QED
  BY <1>1, <1>3, <1>4, <1>5, <1>6, <1>7

LEMMA SplitJoins ==
  ASSUME NEW o \in Seq(Chunk), NEW many \in Nat, many <= Len(o)
  PROVE  o = SubSeq(o, 1, many) \o SubSeq(o, many + 1, Len(o))
<1>1. PICK len \in Nat : len = Len(o)
  OBVIOUS
<1>2. SubSeq(o, 1, len) = o
  BY <1>1, SubSeqFull
<1>3. 1 \in 1 .. len + 1 /\ many \in 1 - 1 .. len /\ len \in many .. len
  BY <1>1
<1>4. SubSeq(o, 1, many) \o SubSeq(o, many + 1, len) = SubSeq(o, 1, len)
  BY <1>1, <1>3, ConcatAdjacentSubSeq
<1>5. QED
  BY <1>1, <1>2, <1>4

LEMMA FlushLoose ==
  ASSUME NEW c \in Conn, NEW n \in Loose({c}), NEW k, k = n.conn[c],
         k.socket = "open", Held(k) <= k.accounted, k.wire = <<>>
  PROVE  FlushOutput(n, c) \in Loose({c}) /\ FlushOutput(n, c) \in Chatting(n)
<1>1. /\ n \in NetRecord /\ k \in ConnRecord /\ Decent(k)
      /\ k.arrived <= Asked(c) /\ k.accounted = n.conn[c].accounted
  BY LooseType
<1>2. PICK o \in Seq(Chunk) : o = k.out
  BY <1>1 DEF ConnRecord
<1>3. PICK len \in Nat : len = Len(o)
  OBVIOUS
<1>4. PICK many \in Nat :
        /\ many = IF len < HighWater THEN len ELSE HighWater
        /\ many <= len /\ many <= HighWater
  BY <1>3, Limits
<1>5. PICK w \in Seq(Chunk), r \in Seq(Chunk) :
        /\ w = SubSeq(o, 1, many) /\ r = SubSeq(o, many + 1, Len(o))
        /\ Len(w) + Len(r) = len
  BY <1>3, <1>4, SplitOutput
<1>6. PICK over \in BOOLEAN : over <=> k.ending /\ many < HighWater
  OBVIOUS
<1>7. PICK l : l = Flushed(k, w, r, many, over)
  OBVIOUS
<1>8. /\ l \in ConnRecord /\ SameTask(k, l) /\ l.accounted = k.accounted
      /\ l.closed = over /\ l.ending = k.ending
      /\ l.socket = (IF over THEN "ended" ELSE k.socket)
      /\ l.out = r /\ l.wire = w /\ l.pressed = (many = HighWater)
  <2>1. (many = HighWater) \in BOOLEAN
    OBVIOUS
  <2>2. PICK p \in BOOLEAN : p = (many = HighWater)
    BY <2>1
  <2>3. l = [k EXCEPT !.wire = w, !.out = r, !.pressed = p, !.closed = over,
                      !.socket = IF over THEN "ended" ELSE k.socket]
    BY <1>7, <2>2 DEF Flushed
  <2>4. QED
    BY <1>1, <2>2, <2>3, ZenonT(60) DEF ConnRecord, SameTask
<1>9. PICK p \in Nat : p = Pending(k) /\ p <= MaxPending
  BY <1>1, HeldType DEF Decent
<1>10. PICK q \in Nat : q = Pending(l) /\ q <= p
  <2>1. PICK v \in Seq(Chunk) : v = k.wire
    BY <1>1 DEF ConnRecord
  <2>2. p = Len(o) + Len(v) /\ Pending(l) = Len(r) + Len(w)
    BY <1>2, <1>8, <1>9, <2>1, PendingOf
  <2>3. PICK i \in Nat : i = Len(v)
    OBVIOUS
  <2>4. PICK j \in Nat : j = Len(w)
    OBVIOUS
  <2>5. PICK h \in Nat : h = Len(r)
    OBVIOUS
  <2>6. p = len + i /\ Pending(l) = h + j /\ j + h = len
    BY <1>3, <1>5, <2>2, <2>3, <2>4, <2>5
  <2>7. QED
    BY <2>6
<1>11. Held(l) <= l.accounted
  <2>1. Weight(l) = Weight(k) - p + q
    BY <1>1, <1>8, <1>9, <1>10, WeightOf DEF SameTask
  <2>2. PICK a \in Int : a = (k.arrived - k.taken) + k.active
    BY <1>1, SMTT(30) DEF ConnRecord
  <2>3. Held(k) = a + Weight(k) /\ Held(l) = a + Weight(l)
    BY <1>1, <1>8, <2>2, HeldType DEF SameTask
  <2>4. Weight(k) \in Nat
    BY <1>1, HeldType
  <2>5. PICK x \in Nat : x = k.accounted
    BY <1>1 DEF ConnRecord
  <2>6. QED
    BY <1>8, <1>10, <2>1, <2>3, <2>4, <2>5
<1>12. l.ending /\ ~ l.closed => l.pressed
  BY <1>4, <1>6, <1>8, Limits
<1>13. Decent(l)
  <2>1. Pending(l) <= MaxPending
    BY <1>9, <1>10, Limits
  <2>2. l.taken <= l.arrived /\ l.socket \notin {"none", "gone"}
    BY <1>1, <1>8 DEF Decent, SameTask
  <2>3. QED
    BY <1>11, <1>12, <2>1, <2>2 DEF Decent
<1>14. PICK T : T = {c}
  OBVIOUS
<1>15. Edit(n, c, l) \in Loose(T)
  <2>1. l.arrived <= Asked(c)
    BY <1>1, <1>8 DEF SameTask
  <2>2. n \in Loose(T) /\ c \in T /\ T \subseteq T \cup {c}
    BY <1>14
  <2>3. QED
    BY <1>1, <1>8, <1>13, <2>1, <2>2, EditLoose
<1>16. \/ FlushOutput(n, c) = n
       \/ FlushOutput(n, c) = Edit(n, c, l) /\ ~ k.closed
  <2>1. CASE k.closed
    BY <2>1 DEF FlushOutput
  <2>2. CASE ~ k.closed
    <3>1. /\ n.conn[c].out = o /\ Len(n.conn[c].out) = len
          /\ SubSeq(n.conn[c].out, 1, many) = w
          /\ SubSeq(n.conn[c].out, many + 1, Len(n.conn[c].out)) = r
          /\ n.conn[c].ending = k.ending /\ n.conn[c].socket = k.socket
          /\ ~ n.conn[c].closed
      BY <1>2, <1>3, <1>5, <2>2
    <3>2. [n EXCEPT !.conn[c] =
             [@ EXCEPT !.wire = w, !.out = r, !.pressed = many = HighWater,
                       !.closed = over,
                       !.socket = IF over THEN "ended" ELSE k.socket]]
            = Edit(n, c, l)
      BY <1>7 DEF Edit, Flushed
    <3>3. over = (k.ending /\ many < HighWater)
      BY <1>1, <1>4, <1>6 DEF ConnRecord
    <3>4. FlushOutput(n, c)
            = [n EXCEPT !.conn[c] =
                 [@ EXCEPT !.wire = w, !.out = r, !.pressed = many = HighWater,
                           !.closed = over,
                           !.socket = IF over THEN "ended" ELSE k.socket]]
      BY <1>4, <3>1, <3>3, Zenon DEF FlushOutput
    <3>5. QED
      BY <2>2, <3>2, <3>4
  <2>3. QED
    BY <2>1, <2>2
<1>17. ASSUME ~ k.closed
       PROVE  Edit(n, c, l) \in Chatting(n)
  <2>1. l.received = k.received /\ l.ending = k.ending
    BY <1>1, <1>5, <1>6, <1>7, <1>8 DEF Flushed, ConnRecord
  <2>2. Output(l) = Output(k)
    <3>1. PICK x \in Seq(Chunk) : x = k.received
      BY <1>1, OutputParts
    <3>2. PICK none : none = <<>>
      OBVIOUS
    <3>3. none \in Seq(Chunk) /\ k.wire = none /\ x = x \o none
      BY <3>2, NoOutput, ConcatEmptySeq
    <3>4. Parts(k, x, none, o, x)
      BY <1>2, <3>1, <3>3 DEF Parts
    <3>5. Output(k) = x \o o
      BY <3>4, OutputOf
    <3>6. PICK y \in Seq(Chunk) : y = x \o w
      BY ConcatProperties
    <3>7. Parts(l, x, w, r, y)
      BY <1>8, <2>1, <3>1, <3>6 DEF Parts
    <3>8. o = w \o r
      BY <1>3, <1>4, <1>5, SplitJoins
    <3>9. y \o r = x \o o
      BY <3>6, <3>8, ConcatAssociative
    <3>10. CASE ~ over
      <4>1. l.socket = "open"
        BY <1>8, <3>10
      <4>2. Output(l) = y \o r
        BY <3>7, <4>1, OutputOf
      <4>3. QED
        BY <3>5, <3>9, <4>2
    <3>11. CASE over
      <4>1. many = len /\ l.socket # "open"
        BY <1>4, <1>6, <1>8, <3>11
      <4>2. r = none
        BY <1>3, <1>5, <3>2, <4>1, SubSeqEmpty
      <4>3. y \o r = y
        BY <3>2, <3>6, <4>2, ConcatEmptySeq
      <4>4. Output(l) = y
        BY <3>7, <4>1, OutputOf
      <4>5. QED
        BY <3>5, <3>9, <4>3, <4>4
    <3>12. QED
      BY <3>10, <3>11
  <2>3. Begins(Output(l), Output(k))
    BY <1>1, <2>2, OutputParts, BeginsReflexive
  <2>4. Quieter(k, l)
    BY <1>17, <1>8, <2>1, <2>2, <2>3 DEF Quieter, Reaches, Mute, Unreachable
  <2>5. l.active = k.active /\ l.taken = k.taken /\ l.loop = k.loop
    BY <1>8 DEF SameTask
  <2>6. l.socket \notin {"none", "gone"}
    BY <1>8
  <2>7. QED
    BY <1>1, <1>8, <2>4, <2>5, <2>6, QuietEdit
<1>18. n \in Chatting(n)
  BY <1>1, ChatReflexive DEF Chatting
<1>19. QED
  BY <1>14, <1>15, <1>16, <1>17, <1>18

LEMMA HeadThenTail ==
  ASSUME NEW v \in Seq(Chunk), v # <<>>
  PROVE  v = <<Head(v)>> \o Tail(v)
<1>1. PICK len \in Nat : len = Len(v) /\ len # 0
  OBVIOUS
<1>2. 1 \in 1 .. len /\ len \in 1 .. len
  BY <1>1
<1>3. SubSeq(v, 1, len) = <<v[1]>> \o SubSeq(v, 2, len)
  BY <1>1, <1>2, SubSeqRecursiveFirst
<1>4. SubSeq(v, 1, len) = v /\ Tail(v) = SubSeq(v, 2, len)
  BY <1>1, SubSeqFull, TailIsSubSeq
<1>5. Head(v) = v[1]
  OBVIOUS
<1>6. QED
  BY <1>3, <1>4, <1>5

LEMMA HeadMoves ==
  ASSUME NEW r \in Seq(Chunk), NEW v \in Seq(Chunk), v # <<>>
  PROVE  Append(r, Head(v)) \o Tail(v) = r \o v
<1>1. PICK h \in Chunk, t \in Seq(Chunk) : h = Head(v) /\ t = Tail(v)
  BY HeadTailProperties
<1>2. PICK one : one = <<h>>
  OBVIOUS
<1>3. Append(r, h) = r \o one /\ one \in Seq(Chunk)
  BY <1>2, AppendIsConcat
<1>4. v = one \o t
  BY <1>1, <1>2, HeadThenTail
<1>5. (r \o one) \o t = r \o (one \o t)
  BY <1>3, ConcatAssociative
<1>6. QED
  BY <1>1, <1>3, <1>4, <1>5

LEMMA TakenExact ==
  ASSUME NEW n \in Exact, NEW c \in Conn, n.conn[c].wire # <<>>
  PROVE  Taken(n, c) \in Exact /\ Taken(n, c) \in Chatting(n)
<1>1. PICK k : k = n.conn[c]
  OBVIOUS
<1>2. n \in NetRecord /\ k \in ConnRecord
  BY <1>1, LooseType DEF Exact
<1>3. PICK v \in Seq(Chunk) : v = k.wire /\ v # <<>>
  BY <1>1, <1>2 DEF ConnRecord
<1>4. PICK w \in Seq(Chunk) : w = Tail(v) /\ Len(w) <= Len(k.wire)
  <2>1. PICK w : w = Tail(v)
    OBVIOUS
  <2>2. w \in Seq(Chunk) /\ Len(w) = Len(v) - 1
    BY <1>3, <2>1, HeadTailProperties
  <2>3. PICK i \in Nat : i = Len(v)
    OBVIOUS
  <2>4. Len(w) <= Len(k.wire)
    BY <1>3, <2>2, <2>3
  <2>5. QED
    BY <2>1, <2>2, <2>4
<1>5. PICK r \in Seq(Chunk) : r = Append(k.received, Head(v))
  <2>1. Head(v) \in Chunk /\ k.received \in Seq(Chunk)
    BY <1>2, <1>3, HeadTailProperties DEF ConnRecord
  <2>2. Append(k.received, Head(v)) \in Seq(Chunk)
    BY <2>1, AppendProperties
  <2>3. QED
    BY <2>2
<1>6. PICK l : l = Read(k, w, r)
  OBVIOUS
<1>7. PICK m : m = Edit(n, c, l)
  OBVIOUS
<1>8. /\ m \in Loose({c}) /\ m.conn[c] = l /\ l \in ConnRecord
      /\ k.socket = "open" => Held(l) <= k.accounted
  <2>1. Len(w) <= Len(k.wire)
    BY <1>4
  <2>2. QED
    BY <1>1, <1>6, <1>7, <2>1, ReadLoose, SMTT(30)
<1>9. /\ l.socket = k.socket /\ l.accounted = k.accounted
      /\ l.received = r /\ l.wire = w /\ l.out = k.out
  BY <1>2, <1>6 DEF Read, ConnRecord
<1>10. [n EXCEPT !.conn[c] =
          [@ EXCEPT !.wire = Tail(k.wire),
                    !.received = Append(k.received, Head(k.wire))]] = m
  BY <1>1, <1>3, <1>4, <1>5, <1>6, <1>7 DEF Edit, Read
<1>11. PICK x : x = IF k.pressed /\ Len(k.wire) = 1 /\ k.socket = "open"
                    THEN FlushOutput(m, c) ELSE m
  OBVIOUS
<1>12. x \in Loose({c}) /\ x \in Chatting(m)
  <2>1. m \in NetRecord
    BY <1>8, LooseType
  <2>2. m \in Chatting(m)
    BY <2>1, ChatReflexive DEF Chatting
  <2>3. CASE k.socket = "open" /\ Len(v) = 1
    <3>1. w = <<>>
      BY <1>3, <1>4, <2>3
    <3>2. FlushOutput(m, c) \in Loose({c}) /\ FlushOutput(m, c) \in Chatting(m)
      BY <1>8, <1>9, <2>3, <3>1, FlushLoose
    <3>3. QED
      BY <1>8, <1>11, <2>2, <3>2
  <2>4. CASE ~ (k.socket = "open" /\ Len(v) = 1)
    BY <1>3, <1>8, <1>11, <2>2, <2>4
  <2>5. QED
    BY <2>3, <2>4
<1>13. Taken(n, c) = Account(x, c, 0).net
  BY <1>1, <1>10, <1>11, Zenon DEF Taken
<1>14. PICK T : T = {c}
  OBVIOUS
<1>15. /\ Account(x, c, 0).net \in Loose(T \ {c})
       /\ Account(x, c, 0).net \in Chatting(x)
  BY <1>12, <1>14, AccountSettles, AccountQuiet
<1>16. Output(l) = Output(k)
  <2>1. PICK y \in Seq(Chunk) : y = k.received
    BY <1>2, OutputParts
  <2>2. PICK o \in Seq(Chunk) : o = k.out
    BY <1>2, OutputParts
  <2>3. PICK p \in Seq(Chunk) : p = y \o v
    BY ConcatProperties
  <2>4. r \o w = p
    BY <1>3, <1>4, <1>5, <2>1, <2>3, HeadMoves
  <2>5. Parts(k, y, v, o, p) /\ Parts(l, r, w, o, p)
    BY <1>3, <1>9, <2>1, <2>2, <2>3, <2>4 DEF Parts
  <2>6. CASE k.socket = "open"
    <3>1. Output(k) = p \o o
      BY <2>5, <2>6, OutputOf
    <3>2. Output(l) = p \o o
      BY <1>9, <2>5, <2>6, OutputOf
    <3>3. QED
      BY <3>1, <3>2
  <2>7. CASE k.socket # "open"
    <3>1. Output(k) = p
      BY <2>5, <2>7, OutputOf
    <3>2. Output(l) = p
      BY <1>9, <2>5, <2>7, OutputOf
    <3>3. QED
      BY <3>1, <3>2
  <2>8. QED
    BY <2>6, <2>7
<1>17. Account(x, c, 0).net \in Chatting(n)
  <2>1. m \in Chatting(n)
    BY <1>1, <1>2, <1>6, <1>7, <1>8, <1>16, ReadChats
  <2>2. x \in Chatting(n)
    BY <1>2, <1>12, <2>1, ChattingTransitive
  <2>3. QED
    BY <1>2, <1>15, <2>2, ChattingTransitive
<1>18. QED
  BY <1>13, <1>14, <1>15, <1>17 DEF Exact

(* Nothing more is heard of a connection that is gone.                     *)
LEMMA EmptyHeard ==
  ASSUME NEW l, l.received = <<>>, l.wire = <<>>, l.out = <<>>, NEW s
  PROVE  InOrder(s, Output(l)) /\ Served(s, Output(l), 0)
<1>1. PICK none : none = <<>>
  OBVIOUS
<1>2. none \in Seq(Chunk) /\ none = none \o none
  BY <1>1, NoOutput, ConcatEmptySeq
<1>3. Parts(l, none, none, none, none)
  BY <1>1, <1>2 DEF Parts
<1>4. Output(l) = none
  BY <1>2, <1>3, OutputOf
<1>5. DOMAIN none = {} /\ Len(none) = 0
  BY <1>1
<1>6. QED
  BY <1>4, <1>5 DEF InOrder, Served

LEMMA NewAttended ==
  ASSUME NEW l,
         \/ \E b \in BOOLEAN : l = NewConn(b)
         \/ l = NoConn
         \/ l = [NoConn EXCEPT !.socket = "gone"],
         NEW s
  PROVE  Attended(s, l)
<1> DEFINE Fresh(k) == /\ k.active = 0 /\ k.loop = "idle" /\ k.taken = 0
                       /\ k.received = <<>> /\ k.wire = <<>> /\ k.out = <<>>
<1>1. Fresh(l)
  <2>1. \A b : Fresh(NewConn(b))
    BY DEF NewConn
  <2>2. Fresh(NoConn)
    BY DEF NewConn, NoConn
  <2>3. Fresh([NoConn EXCEPT !.socket = "gone"])
    <3>1. PICK k : k = NoConn /\ DOMAIN k = DOMAIN NewConn(FALSE)
      BY DEF NoConn
    <3>2. ASSUME NEW x, x = [k EXCEPT !.socket = "gone"]
          PROVE  Fresh(x)
      BY <2>2, <3>1, <3>2 DEF NewConn
    <3>3. QED
      BY <3>1, <3>2
  <2> HIDE DEF Fresh
  <2>4. QED
    BY <2>1, <2>2, <2>3
<1>2. InOrder(s, Output(l)) /\ Served(s, Output(l), 0)
  BY <1>1, EmptyHeard
<1>3. l.taken - l.active = 0
  BY <1>1
<1>4. QED
  BY <1>1, <1>2, <1>3 DEF Attended, Heard

LEMMA EmptiedChats ==
  ASSUME NEW k \in ConnRecord, k.socket # "none", NEW s
  PROVE  Chat(s, k, Emptied(k))
<1>1. PICK l : l = Emptied(k)
  OBVIOUS
<1>2. /\ l.socket = "gone" /\ l.active = k.active /\ l.loop = k.loop
      /\ l.received = <<>> /\ l.wire = <<>> /\ l.out = <<>>
  BY <1>1 DEF Emptied, NoConn, NewConn
<1>3. InOrder(s, Output(l))
  BY <1>2, EmptyHeard
<1>4. \A t : Heard(s, l, t)
  BY <1>2, <1>3 DEF Heard, Reaches
<1>5. QED
  BY <1>1, <1>2, <1>4 DEF Chat

(* "close": the account of c is released.                                  *)
LEMMA CleanupExact ==
  ASSUME plan \in Scenario, NEW n \in Exact, NEW c \in Conn,
         n.conn[c].socket # "none"
  PROVE  Cleanup(n, c) \in Exact /\ Cleanup(n, c) \in Chatting(n)
<1>1. PICK k : k = n.conn[c]
  OBVIOUS
<1>2. /\ n \in NetRecord /\ k \in ConnRecord
      /\ n.inflight \in Nat /\ n.inflight = Total(n)
      /\ n.inflight <= MaxInflight
      /\ k.accounted \in Nat /\ k.accounted <= n.inflight
  BY <1>1, LooseType DEF Exact, ConnRecord
<1>3. PICK l : l = Emptied(k)
  OBVIOUS
<1>4. /\ l \in ConnRecord /\ l.accounted = 0 /\ l.arrived = 0
      /\ Decent(l) /\ UpToDate(l)
  BY <1>2, <1>3, EmptyConn
<1>5. PICK h : h = [ch \in Channel |-> Filter(n.hub[ch], Conn \ {c})]
  OBVIOUS
<1>6. h \in [Channel -> Seq(Conn)]
  <2>1. ASSUME NEW ch \in Channel
        PROVE  Filter(n.hub[ch], Conn \ {c}) \in Seq(Conn)
    <3>1. n.hub[ch] \in Seq(Conn)
      BY <1>2 DEF NetRecord
    <3>2. QED
      BY <3>1, FilterType
  <2>2. QED
    BY <1>5, <2>1
<1>7. PICK x \in Nat : x = n.inflight - k.accounted /\ x <= MaxInflight
  BY <1>2, Limits
<1>8. PICK m : m = [n EXCEPT !.inflight = x, !.conn[c] = l, !.hub = h]
  OBVIOUS
<1>9. Cleanup(n, c) = m
  BY <1>1, <1>3, <1>5, <1>7, <1>8 DEF Cleanup
<1>10. /\ m \in NetRecord /\ m.conn[c] = l /\ m.inflight = x
       /\ \A d \in Conn : d # c => m.conn[d] = n.conn[d]
  <2>1. PICK f : f = [n.conn EXCEPT ![c] = l]
    OBVIOUS
  <2>2. n.conn \in [Conn -> ConnRecord]
    BY <1>2 DEF NetRecord
  <2>3. /\ f \in [Conn -> ConnRecord] /\ f[c] = l
        /\ \A d \in Conn : d # c => f[d] = n.conn[d]
    BY <1>4, <2>1, <2>2
  <2>4. m = [conn |-> f, inflight |-> x, hub |-> h]
    BY <1>2, <1>8, <2>1 DEF NetRecord
  <2>5. QED
    BY <1>6, <2>3, <2>4 DEF NetRecord
<1>11. Total(m) = x
  <2>1. \A d \in Conn : d # c => m.conn[d].accounted = n.conn[d].accounted
    BY <1>10
  <2>2. Total(m) = Total(n) - k.accounted + l.accounted
    BY <1>1, <1>2, <1>10, <2>1, TotalOfOther
  <2>3. QED
    BY <1>2, <1>4, <1>7, <2>2
<1>12. ASSUME NEW d \in Conn
       PROVE  /\ Decent(m.conn[d]) /\ m.conn[d].arrived <= Asked(d)
              /\ UpToDate(m.conn[d])
  <2>1. CASE d = c
    <3>1. Asked(c) \in Nat
      BY AskedType
    <3>2. QED
      BY <1>4, <1>10, <2>1, <3>1
  <2>2. CASE d # c
    BY <1>10, <2>2, LooseType DEF Exact
  <2>3. QED
    BY <2>1, <2>2
<1>13. m \in Exact
  BY <1>7, <1>10, <1>11, <1>12 DEF Exact, Loose
<1>14. m \in Chatting(n)
  <2>1. Chat(plan.script[c], k, l)
    BY <1>1, <1>2, <1>3, EmptiedChats
  <2>2. QED
    BY <1>1, <1>2, <1>10, <2>1, OnlyChatting DEF Only
<1>15. QED
  BY <1>9, <1>13, <1>14

(* Many connections change, none of their accounts.                        *)
LEMMA ManyExact ==
  ASSUME NEW n \in Exact, NEW f \in [Conn -> ConnRecord],
         \A c \in Conn : /\ f[c].accounted = n.conn[c].accounted
                         /\ f[c].arrived = n.conn[c].arrived
                         /\ Decent(f[c]) /\ UpToDate(f[c])
                         /\ SameTask(n.conn[c], f[c])
                         /\ Quieter(n.conn[c], f[c])
  PROVE  /\ [n EXCEPT !.conn = f] \in Exact
         /\ [n EXCEPT !.conn = f] \in Chatting(n)
<1>1. PICK m : m = [n EXCEPT !.conn = f]
  OBVIOUS
<1>2. /\ n \in NetRecord /\ n.inflight = Total(n) /\ n.inflight <= MaxInflight
      /\ \A c \in Conn : n.conn[c].arrived <= Asked(c)
  BY LooseType DEF Exact
<1>3. m \in NetRecord /\ m.conn = f /\ m.inflight = n.inflight
  BY <1>1, <1>2 DEF NetRecord
<1>4. Total(m) = Total(n)
  BY <1>2, <1>3, TotalOfSame
<1>5. m \in Exact
  BY <1>2, <1>3, <1>4 DEF Exact, Loose
<1>6. m \in Chatting(n)
  BY <1>2, <1>3, ConnType, QuietChat DEF Chatting
<1>7. QED
  BY <1>1, <1>5, <1>6

(* close() ends a socket, or destroys it after the deadline.               *)
Shut(k) == [k EXCEPT !.socket = "ended"]

LEMMA ShutDecent ==
  ASSUME NEW k \in ConnRecord, Decent(k), UpToDate(k)
  PROVE  /\ k.socket = "open" =>
              /\ Shut(k) \in ConnRecord /\ Shut(k).accounted = k.accounted
              /\ Shut(k).arrived = k.arrived
              /\ Decent(Shut(k)) /\ UpToDate(Shut(k))
              /\ SameTask(k, Shut(k)) /\ Quieter(k, Shut(k))
         /\ Destroyed(k) \in ConnRecord /\ Destroyed(k).accounted = k.accounted
         /\ Destroyed(k).arrived = k.arrived
         /\ Decent(Destroyed(k)) /\ UpToDate(Destroyed(k))
         /\ SameTask(k, Destroyed(k)) /\ Quieter(k, Destroyed(k))
<1>1. ASSUME k.socket = "open"
      PROVE  /\ Shut(k) \in ConnRecord /\ Shut(k).accounted = k.accounted
             /\ Shut(k).arrived = k.arrived
             /\ Decent(Shut(k)) /\ UpToDate(Shut(k))
             /\ SameTask(k, Shut(k)) /\ Quieter(k, Shut(k))
  <2>1. PICK l : l = Shut(k)
    OBVIOUS
  <2>2. /\ l \in ConnRecord /\ SameTask(k, l) /\ l.accounted = k.accounted
        /\ l.closed = k.closed /\ l.ending = k.ending /\ l.socket = "ended"
        /\ l.out = k.out /\ l.wire = k.wire /\ l.pressed = k.pressed
        /\ l.received = k.received
    BY <1>1, <2>1 DEF ConnRecord, SameTask, Shut
  <2>3. Pending(l) = Pending(k) /\ Weight(l) = Weight(k)
    BY <2>2, SameParts DEF SameTask
  <2>4. Held(l) = Held(k)
    BY <2>2, <2>3, HeldType DEF SameTask
  <2>5. PICK h \in Nat : h = Held(k) /\ h = k.accounted
    <3>1. Held(k) = k.accounted /\ k.accounted \in Nat
      BY <1>1 DEF UpToDate, Unreachable, ConnRecord
    <3>2. QED
      BY <3>1
  <2>6. l.accounted = Held(l) /\ Held(l) <= l.accounted
    BY <2>2, <2>4, <2>5
  <2>7. Decent(l) /\ UpToDate(l)
    BY <2>2, <2>3, <2>6 DEF Decent, UpToDate, SameTask
  <2>8. Quieter(k, l)
    BY <2>2, LostIsQuieter
  <2>9. QED
    BY <2>1, <2>2, <2>7, <2>8 DEF SameTask
<1>2. CASE k.socket # "ended"
  BY <1>1, <1>2, QuieterReflexive DEF Destroyed, SameTask
<1>3. CASE k.socket = "ended"
  <2>1. PICK none : none = <<>>
    OBVIOUS
  <2>2. none \in Seq(Chunk) /\ Len(none) = 0
    BY <2>1, NoOutput
  <2>3. PICK l : l = [k EXCEPT !.socket = "destroyed", !.wire = none]
    OBVIOUS
  <2>4. /\ l \in ConnRecord /\ SameTask(k, l) /\ l.accounted = k.accounted
        /\ l.closed = k.closed /\ l.ending = k.ending /\ l.socket = "destroyed"
        /\ l.out = k.out /\ l.wire = none /\ l.pressed = k.pressed
        /\ l.received = k.received
    BY <1>3, <2>2, <2>3 DEF ConnRecord, SameTask
  <2>5. Pending(l) <= MaxPending
    <3>1. PICK o \in Seq(Chunk) : o = k.out
      BY DEF ConnRecord
    <3>2. PICK v \in Seq(Chunk) : v = k.wire
      BY DEF ConnRecord
    <3>3. Pending(k) = Len(o) + Len(v) /\ Pending(l) = Len(o) + Len(none)
      BY <2>2, <2>4, <3>1, <3>2, PendingOf
    <3>4. PICK x \in Nat : x = Len(o)
      OBVIOUS
    <3>5. PICK y \in Nat : y = Len(v)
      OBVIOUS
    <3>6. PICK p \in Nat : p = Pending(k) /\ p <= MaxPending
      BY HeldType DEF Decent
    <3>7. p = x + y /\ Pending(l) = x + 0
      BY <2>2, <3>3, <3>4, <3>5, <3>6
    <3>8. QED
      BY <3>6, <3>7, Limits
  <2>6. Decent(l) /\ UpToDate(l)
    BY <2>4, <2>5 DEF Decent, UpToDate, SameTask, Unreachable
  <2>7. Destroyed(k) = l
    BY <1>3, <2>1, <2>3 DEF Destroyed
  <2>8. Quieter(k, l)
    BY <2>1, <2>4, LostIsQuieter
  <2>9. QED
    BY <1>1, <2>4, <2>6, <2>7, <2>8 DEF SameTask
<1>4. QED
  BY <1>2, <1>3

LEMMA CloseExact ==
  ASSUME NEW n \in Exact, NEW S, S = Exact \cap Chatting(n)
  PROVE  /\ [n EXCEPT !.conn = [c \in Conn |->
               IF n.conn[c].socket # "open" THEN n.conn[c]
               ELSE [n.conn[c] EXCEPT !.socket = "ended"]]] \in S
         /\ [n EXCEPT !.conn = [c \in Conn |-> Destroyed(n.conn[c])]] \in S
         /\ [n EXCEPT !.hub = [ch \in Channel |-> <<>>]] \in S
<1>1. \A c \in Conn : /\ n.conn[c] \in ConnRecord /\ Decent(n.conn[c])
                     /\ UpToDate(n.conn[c])
  BY LooseType DEF Exact
<1>2. PICK f : f = [c \in Conn |-> IF n.conn[c].socket # "open" THEN n.conn[c]
                                   ELSE Shut(n.conn[c])]
  OBVIOUS
<1>3. [n EXCEPT !.conn = f] \in S
  <2>1. ASSUME NEW c \in Conn
        PROVE  /\ f[c] \in ConnRecord
               /\ f[c].accounted = n.conn[c].accounted
               /\ f[c].arrived = n.conn[c].arrived
               /\ Decent(f[c]) /\ UpToDate(f[c])
               /\ SameTask(n.conn[c], f[c]) /\ Quieter(n.conn[c], f[c])
    <3>1. CASE n.conn[c].socket = "open"
      BY <1>1, <1>2, <3>1, ShutDecent
    <3>2. CASE n.conn[c].socket # "open"
      BY <1>1, <1>2, <3>2, QuieterReflexive DEF SameTask
    <3>3. QED
      BY <3>1, <3>2
  <2>2. f \in [Conn -> ConnRecord]
    BY <1>2, <2>1
  <2>3. QED
    BY <2>1, <2>2, ManyExact
<1>4. PICK g : g = [c \in Conn |-> Destroyed(n.conn[c])]
  OBVIOUS
<1>5. [n EXCEPT !.conn = g] \in S
  <2>1. ASSUME NEW c \in Conn
        PROVE  /\ g[c] \in ConnRecord
               /\ g[c].accounted = n.conn[c].accounted
               /\ g[c].arrived = n.conn[c].arrived
               /\ Decent(g[c]) /\ UpToDate(g[c])
               /\ SameTask(n.conn[c], g[c]) /\ Quieter(n.conn[c], g[c])
    BY <1>1, <1>4, ShutDecent
  <2>2. g \in [Conn -> ConnRecord]
    BY <1>4, <2>1
  <2>3. QED
    BY <2>1, <2>2, ManyExact
<1>6. PICK none : none = <<>>
  OBVIOUS
<1>7. PICK h : h = [ch \in Channel |-> none]
  OBVIOUS
<1>8. h \in [Channel -> Seq(Conn)]
  <2>1. none \in Seq(Conn)
    BY <1>6
  <2>2. QED
    BY <1>7, <2>1
<1>9. [n EXCEPT !.hub = h] \in S
  <2>1. PICK m : m = [n EXCEPT !.hub = h]
    OBVIOUS
  <2>2. m \in Exact /\ m.conn = n.conn
    BY <1>8, <2>1, HubLoose DEF Exact
  <2>3. m \in Chatting(n)
    BY <2>2, HubQuiet DEF Exact
  <2>4. QED
    BY <2>1, <2>2, <2>3
<1>10. QED
  BY <1>2, <1>3, <1>4, <1>5, <1>6, <1>7, <1>9 DEF Shut

LEMMA LeavesExact ==
  ASSUME NEW n \in Exact, NEW next, Leaves(n, next)
  PROVE  net' \in Exact /\ net' \in Chatting(n)
<1>1. net' = n \/ net' = [n EXCEPT !.hub = [ch \in Channel |-> <<>>]]
  BY DEF Leaves
<1>2. PICK S : S = Exact \cap Chatting(n)
  OBVIOUS
<1>3. n \in NetRecord
  BY LooseType DEF Exact
<1>4. n \in Chatting(n)
  BY <1>3, ChatReflexive DEF Chatting
<1>5. [n EXCEPT !.hub = [ch \in Channel |-> <<>>]] \in S
  BY <1>2, CloseExact
<1>6. QED
  BY <1>1, <1>2, <1>4, <1>5

=============================================================================
