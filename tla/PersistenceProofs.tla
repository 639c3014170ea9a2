-------------------------- MODULE PersistenceProofs --------------------------
(***************************************************************************)
(* Theorems about Persistence for every value of its constants: the files  *)
(* and the fields keep their types, every record that is appended has a    *)
(* new number, and a log that cannot be read through is left alone.        *)
(*                                                                         *)
(* The inductive invariants are TInv, the types together with the facts    *)
(* about the cache that KVCacheOpsProofs carries along, and LogInv, which  *)
(* ties seq, status and the snapshot to what is in the log.  LogInv, and   *)
(* the two theorems that rest on it, assume TearsShow: an append that      *)
(* fails leaves nothing, or a part of its record.  If it could leave the   *)
(* whole record without the newline, the next append would join it and     *)
(* the log would be corrupt with nobody knowing.                           *)
(***************************************************************************)
EXTENDS Persistence, KVCacheOpsProofs

-----------------------------------------------------------------------------
(* Reading a log.                                                          *)

LEMMA NoneIsNoNumber == None \notin Nat
BY CacheAssumption

(* A bounded set of numbers has a largest one.                             *)
LEMMA MaxOfBounded ==
  ASSUME NEW S \in SUBSET Nat, S # {}, NEW b \in Nat, \A y \in S : y <= b
  PROVE  Max(S) \in S /\ \A y \in S : y <= Max(S)
<1>1. PICK T : T = {m \in Nat : \A y \in S : y <= m}
  OBVIOUS
<1>2. b \in T /\ T \in SUBSET Nat /\ T # {}
  BY <1>1
<1>3. PICK m \in T : \A n \in T : ~ (n < m)
  BY <1>2, LeastNumber
<1>4. m \in Nat /\ \A y \in S : y <= m
  BY <1>1, <1>3
<1>5. m \in S
  <2>1. SUFFICES ASSUME m \notin S PROVE FALSE
    OBVIOUS
  <2>2. \A y \in S : y <= m - 1
    BY <1>4, <2>1
  <2>3. m - 1 \in Nat
    <3>1. PICK y \in S : TRUE
      OBVIOUS
    <3>2. y \in Nat /\ y <= m - 1
      BY <2>2
    <3>3. QED
      BY <3>2, <1>4
  <2>4. m - 1 \in T
    BY <2>2, <2>3, <1>1
  <2>5. QED
    BY <2>4, <1>3, <1>4
<1>6. \E x \in S : \A y \in S : x >= y
  BY <1>4, <1>5
<1>7. Max(S) \in S /\ \A y \in S : Max(S) >= y
  BY <1>6, Zenon DEF Max
<1>8. QED
  BY <1>7

LEMMA MaxOfTwo ==
  ASSUME NEW a \in Nat, NEW b \in Nat
  PROVE  Max({a, b}) \in Nat /\ a <= Max({a, b}) /\ b <= Max({a, b})
<1>1. PICK S : S = {a, b}
  OBVIOUS
<1>2. S \in SUBSET Nat /\ S # {} /\ a + b \in Nat /\ \A y \in S : y <= a + b
  BY <1>1
<1>3. Max(S) \in S /\ \A y \in S : y <= Max(S)
  BY <1>2, MaxOfBounded
<1>4. QED
  BY <1>1, <1>3

LEMMA LineType ==
  ASSUME NEW line \in Line
  PROVE  /\ line.kind \in {"record", "torn", "bad"}
         /\ line.kind = "record" => line.seq \in Nat \cup {None}
         /\ NumberOf(line) \in Nat \cup {None}
BY DEF Line, NumberOf

(* Every line can be read.                                                 *)
ReadThrough(lines) == \A i \in 1 .. Len(lines) : Readable(lines, i)

LEMMA GoodLengthReads ==
  ASSUME NEW lines \in Seq(Line)
  PROVE  /\ GoodLength(lines) \in 0 .. Len(lines)
         /\ \A i \in 1 .. GoodLength(lines) : Readable(lines, i)
         /\ ReadThrough(lines) => GoodLength(lines) = Len(lines)
<1>1. PICK S : S = {n \in 0 .. Len(lines) : \A i \in 1 .. n : Readable(lines, i)}
  OBVIOUS
<1>2. Len(lines) \in Nat
  OBVIOUS
<1>3. 0 \in S
  BY <1>1, <1>2
<1>4. S \in SUBSET Nat /\ S # {} /\ \A y \in S : y <= Len(lines)
  BY <1>1, <1>2, <1>3
<1>5. Max(S) \in S /\ \A y \in S : y <= Max(S)
  BY <1>2, <1>4, MaxOfBounded
<1>6. GoodLength(lines) = Max(S)
  BY <1>1 DEF GoodLength
<1>7. ReadThrough(lines) => Len(lines) \in S
  BY <1>1, <1>2 DEF ReadThrough
<1>8. QED
  BY <1>1, <1>2, <1>5, <1>6, <1>7, SMTT(30)

LEMMA AllReadIsReadThrough ==
  ASSUME NEW f \in LogFile
  PROVE  AllRead(f) <=> ReadThrough(f.lines)
<1>1. f.lines \in Seq(Line)
  BY DEF LogFile
<1>2. QED
  BY <1>1, GoodLengthReads DEF AllRead, ReadThrough

(* What a reader keeps can be read.                                        *)
LEMMA PrefixReads ==
  ASSUME NEW lines \in Seq(Line), NEW n \in 0 .. Len(lines),
         \A i \in 1 .. n : Readable(lines, i)
  PROVE  /\ SubSeq(lines, 1, n) \in Seq(Line)
         /\ Len(SubSeq(lines, 1, n)) = n
         /\ ReadThrough(SubSeq(lines, 1, n))
<1>1. PICK t : t = SubSeq(lines, 1, n)
  OBVIOUS
<1>2. t \in Seq(Line) /\ Len(t) = n /\ \A i \in 1 .. n : t[i] = lines[i]
  BY <1>1
<1>3. ASSUME NEW i \in 1 .. n PROVE Readable(t, i)
  <2>1. Readable(lines, i) /\ t[i] = lines[i]
    BY <1>2
  <2>2. \A j \in 1 .. i - 1 : t[j] = lines[j]
    BY <1>2
  <2>3. QED
    BY <2>1, <2>2 DEF Readable
<1>4. QED
  BY <1>1, <1>2, <1>3 DEF ReadThrough

LEMMA GoodLinesRead ==
  ASSUME NEW f \in LogFile
  PROVE  /\ GoodLines(f) \in Seq(Line)
         /\ Len(GoodLines(f)) <= Len(f.lines)
         /\ ReadThrough(GoodLines(f))
         /\ AllRead(f) => GoodLines(f) = f.lines
<1>1. f.lines \in Seq(Line)
  BY DEF LogFile
<1>2. PICK n \in 0 .. Len(f.lines) : n = GoodLength(f.lines)
  BY <1>1, GoodLengthReads
<1>3. \A i \in 1 .. n : Readable(f.lines, i)
  BY <1>1, <1>2, GoodLengthReads
<1>4. GoodLines(f) = SubSeq(f.lines, 1, n)
  BY <1>2 DEF GoodLines
<1>5. n = Len(f.lines) => SubSeq(f.lines, 1, n) = f.lines
  BY <1>1
<1>6. QED
  BY <1>1, <1>2, <1>3, <1>4, <1>5, PrefixReads DEF AllRead

(* A file without the torn tail can be read, and is what was read of it.   *)
LEMMA WithoutTailReads ==
  ASSUME NEW f \in LogFile, TornTail(f)
  PROVE  /\ WithoutTail(f) \in LogFile
         /\ WithoutTail(f).ended
         /\ WithoutTail(f).lines = GoodLines(f)
         /\ Len(WithoutTail(f).lines) < Len(f.lines)
         /\ AllRead(WithoutTail(f))
<1>1. f.lines \in Seq(Line) /\ Len(f.lines) \in Nat
  BY DEF LogFile
<1>2. GoodLength(f.lines) = Len(f.lines) - 1
  BY DEF TornTail
<1>3. WithoutTail(f).lines = GoodLines(f)
  BY <1>2, Zenon DEF WithoutTail, GoodLines, Front
<1>4. GoodLines(f) \in Seq(Line) /\ ReadThrough(GoodLines(f))
  BY GoodLinesRead
<1>5. WithoutTail(f) \in LogFile /\ WithoutTail(f).ended
  BY <1>3, <1>4 DEF WithoutTail, LogFile
<1>6. AllRead(WithoutTail(f))
  BY <1>3, <1>4, <1>5, AllReadIsReadThrough
<1>7. Len(GoodLines(f)) < Len(f.lines)
  <2>1. GoodLength(f.lines) \in 0 .. Len(f.lines)
    BY <1>1, GoodLengthReads
  <2>2. Len(GoodLines(f)) = GoodLength(f.lines)
    BY <1>1, <2>1 DEF GoodLines
  <2>3. QED
    BY <1>1, <1>2, <2>2
<1>8. QED
  BY <1>3, <1>5, <1>6, <1>7

(* No line carries a number above n.                                       *)
NumberedUpTo(lines, n) ==
  \A i \in 1 .. Len(lines) :
    NumberOf(lines[i]) # None => NumberOf(lines[i]) <= n

LEMMA LastSequenceBounds ==
  ASSUME NEW lines \in Seq(Line)
  PROVE  /\ LastSequence(lines) \in Nat
         /\ NumberedUpTo(lines, LastSequence(lines))
<1>1. PICK n \in Nat : n = Len(lines) /\ DOMAIN lines = 1 .. n
  OBVIOUS
<1>2. \A i \in 1 .. n : NumberOf(lines[i]) \in Nat \cup {None}
  BY <1>1, LineType
<1>3. PICK M : M = {m \in Nat : m <= n =>
                      \E b \in Nat : \A i \in 1 .. m :
                        NumberOf(lines[i]) # None => NumberOf(lines[i]) <= b}
  OBVIOUS
<1>4. 0 \in M
  BY <1>3
<1>5. ASSUME NEW m \in Nat, m \in M PROVE m + 1 \in M
  <2>1. SUFFICES ASSUME m + 1 <= n
                 PROVE  \E b \in Nat : \A i \in 1 .. (m + 1) :
                          NumberOf(lines[i]) # None => NumberOf(lines[i]) <= b
    BY <1>3
  <2>2. PICK b \in Nat : \A i \in 1 .. m :
          NumberOf(lines[i]) # None => NumberOf(lines[i]) <= b
    BY <1>3, <1>5, <2>1
  <2>3. m + 1 \in 1 .. n
    BY <2>1
  <2>4. PICK x : x = NumberOf(lines[m + 1])
    OBVIOUS
  <2>5. CASE x = None
    <3>1. \A i \in 1 .. (m + 1) : i \in 1 .. m \/ i = m + 1
      OBVIOUS
    <3>2. QED
      BY <3>1, <2>2, <2>4, <2>5
  <2>6. CASE x # None
    <3>1. x \in Nat
      BY <1>2, <2>3, <2>4, <2>6
    <3>2. b + x \in Nat
      BY <3>1
    <3>3. ASSUME NEW i \in 1 .. (m + 1), NumberOf(lines[i]) # None
          PROVE  NumberOf(lines[i]) <= b + x
      <4>1. CASE i = m + 1
        BY <4>1, <3>1, <2>4
      <4>2. CASE i \in 1 .. m
        <5>1. NumberOf(lines[i]) \in Nat
          BY <4>2, <3>3, <1>2, <2>1
        <5>2. NumberOf(lines[i]) <= b
          BY <4>2, <3>3, <2>2
        <5>3. QED
          BY <5>1, <5>2, <3>1
      <4>3. QED
        BY <4>1, <4>2
    <3>4. QED
      BY <3>2, <3>3
  <2>7. QED
    BY <2>5, <2>6
<1>6. n \in M
  BY <1>4, <1>5, SetInduction
<1>7. PICK b \in Nat : \A i \in 1 .. n :
        NumberOf(lines[i]) # None => NumberOf(lines[i]) <= b
  BY <1>3, <1>6
<1>8. PICK S : S = {0} \cup ({NumberOf(lines[i]) : i \in DOMAIN lines} \ {None})
  OBVIOUS
<1>9. S \in SUBSET Nat /\ S # {} /\ \A y \in S : y <= b
  BY <1>1, <1>2, <1>7, <1>8
<1>10. Max(S) \in S /\ \A y \in S : y <= Max(S)
  BY <1>9, MaxOfBounded
<1>11. LastSequence(lines) = Max(S)
  BY <1>8 DEF LastSequence
<1>12. \A i \in 1 .. n : NumberOf(lines[i]) # None => NumberOf(lines[i]) \in S
  BY <1>1, <1>8
<1>13. QED
  BY <1>1, <1>9, <1>10, <1>11, <1>12 DEF NumberedUpTo

(* A record with a new number can be read after a file that can.           *)
LEMMA AppendReads ==
  ASSUME NEW lines \in Seq(Line), ReadThrough(lines),
         NEW n \in Nat, NumberedUpTo(lines, n), NEW op \in AofOp
  PROVE  LET new == Append(lines, Record(n + 1, op))
         IN  /\ new \in Seq(Line)
             /\ Len(new) = Len(lines) + 1
             /\ Last(new).seq = n + 1
             /\ ReadThrough(new)
             /\ NumberedUpTo(new, n + 1)
<1>1. PICK line : line = Record(n + 1, op)
  OBVIOUS
<1>2. line \in Line /\ line.kind = "record" /\ line.seq = n + 1
  BY <1>1 DEF Record, Line
<1>3. PICK new : new = Append(lines, line)
  OBVIOUS
<1>4. PICK l \in Nat : l = Len(lines)
  OBVIOUS
<1>5. /\ new \in Seq(Line) /\ Len(new) = l + 1 /\ new[l + 1] = line
      /\ \A i \in 1 .. l : new[i] = lines[i]
  BY <1>2, <1>3, <1>4
<1>6. \A i \in 1 .. l : /\ lines[i].kind = "record"
                        /\ NumberOf(lines[i]) = lines[i].seq
  BY <1>4 DEF ReadThrough, Readable, NumberOf
<1>7. ASSUME NEW i \in 1 .. (l + 1) PROVE Readable(new, i)
  <2>1. CASE i = l + 1
    <3>1. \A j \in 1 .. l : lines[j].seq # None => lines[j].seq < n + 1
      <4>1. SUFFICES ASSUME NEW j \in 1 .. l, lines[j].seq # None
                     PROVE  lines[j].seq < n + 1
        OBVIOUS
      <4>2. lines[j].seq <= n /\ lines[j].seq \in Nat
        BY <4>1, <1>4, <1>6, LineType DEF NumberedUpTo
      <4>3. QED
        BY <4>2
    <3>2. \A j \in 1 .. i - 1 : j \in 1 .. l
      BY <2>1
    <3>3. QED
      BY <2>1, <3>1, <3>2, <1>2, <1>5 DEF Readable
  <2>2. CASE i \in 1 .. l
    <3>1. Readable(lines, i) /\ new[i] = lines[i]
      BY <2>2, <1>4, <1>5 DEF ReadThrough
    <3>2. \A j \in 1 .. i - 1 : new[j] = lines[j]
      BY <2>2, <1>5
    <3>3. QED
      BY <3>1, <3>2 DEF Readable
  <2>3. QED
    BY <2>1, <2>2
<1>8. ASSUME NEW i \in 1 .. (l + 1), NumberOf(new[i]) # None
      PROVE  NumberOf(new[i]) <= n + 1
  <2>1. CASE i = l + 1
    BY <2>1, <1>2, <1>5 DEF NumberOf
  <2>2. CASE i \in 1 .. l
    <3>1. NumberOf(lines[i]) \in Nat /\ NumberOf(lines[i]) <= n
      BY <2>2, <1>4, <1>5, <1>8, LineType DEF NumberedUpTo
    <3>2. QED
      BY <2>2, <3>1, <1>5
  <2>3. QED
    BY <2>1, <2>2
<1>9. QED
  BY <1>1, <1>2, <1>3, <1>4, <1>5, <1>7, <1>8
     DEF ReadThrough, NumberedUpTo, Last

(* An increasing function into 1 .. m has at most m arguments.             *)
LEMMA IncreasingFits ==
  ASSUME NEW n \in Nat, NEW m \in Nat, NEW h \in [1 .. n -> 1 .. m],
         \A i, j \in 1 .. n : i < j => h[i] < h[j]
  PROVE  n <= m
<1>1. PICK M : M = {i \in Nat : i \in 1 .. n => i <= h[i]}
  OBVIOUS
<1>2. 0 \in M
  BY <1>1
<1>3. ASSUME NEW i \in Nat, i \in M PROVE i + 1 \in M
  <2>1. SUFFICES ASSUME i + 1 \in 1 .. n PROVE i + 1 <= h[i + 1]
    BY <1>1
  <2>2. h[i + 1] \in 1 .. m
    BY <2>1
  <2>3. CASE i = 0
    BY <2>2, <2>3
  <2>4. CASE i # 0
    <3>1. i \in 1 .. n
      BY <2>1, <2>4
    <3>2. h[i] \in 1 .. m /\ i <= h[i] /\ h[i] < h[i + 1]
      BY <3>1, <2>1, <1>1, <1>3
    <3>3. QED
      BY <2>2, <3>2
  <2>5. QED
    BY <2>3, <2>4
<1>4. n \in M
  BY <1>2, <1>3, SetInduction
<1>5. CASE n = 0
  BY <1>5
<1>6. CASE n # 0
  <2>1. n \in 1 .. n /\ h[n] \in 1 .. m
    BY <1>6
  <2>2. QED
    BY <2>1, <1>1, <1>4
<1>7. QED
  BY <1>5, <1>6

(* The records that a rotation keeps can be read.                          *)
LEMMA NewerReads ==
  ASSUME NEW lines \in Seq(Line), ReadThrough(lines), NEW n
  PROVE  /\ Newer(lines, n) \in Seq(Line)
         /\ Len(Newer(lines, n)) <= Len(lines)
         /\ ReadThrough(Newer(lines, n))
<1>1. PICK S : S = {l \in ToSet(lines) : l.seq # None /\ l.seq > n}
  OBVIOUS
<1>2. PICK new : new = Newer(lines, n)
  OBVIOUS
<1>3. new = Filter(lines, S)
  BY <1>1, <1>2 DEF Newer
<1>4. new \in Seq(Line) /\ Selects(lines, Len(lines), S, new)
  BY <1>3, FilterSelects
<1>5. PICK h \in [1 .. Len(new) -> 1 .. Len(lines)] :
        /\ \A i, j \in 1 .. Len(new) : i < j => h[i] < h[j]
        /\ \A i \in 1 .. Len(new) : new[i] = lines[h[i]] /\ new[i] \in S
  BY <1>4 DEF Selects
<1>6. ASSUME NEW i \in 1 .. Len(new) PROVE Readable(new, i)
  <2>1. h[i] \in 1 .. Len(lines) /\ new[i] = lines[h[i]]
    BY <1>5
  <2>2. Readable(lines, h[i])
    BY <2>1 DEF ReadThrough
  <2>3. ASSUME NEW j \in 1 .. i - 1
        PROVE  h[j] \in 1 .. h[i] - 1 /\ new[j] = lines[h[j]]
    <3>1. j \in 1 .. Len(new) /\ j < i /\ Len(new) \in Nat
      BY <1>4
    <3>2. h[j] < h[i] /\ h[j] \in 1 .. Len(lines) /\ new[j] = lines[h[j]]
      BY <3>1, <1>5
    <3>3. QED
      BY <3>2, <2>1
  <2>4. QED
    BY <2>1, <2>2, <2>3 DEF Readable
<1>7. Len(new) <= Len(lines)
  <2>1. PICK n2 \in Nat, m \in Nat : n2 = Len(new) /\ m = Len(lines)
    BY <1>4
  <2>2. h \in [1 .. n2 -> 1 .. m] /\ \A i, j \in 1 .. n2 : i < j => h[i] < h[j]
    BY <2>1, <1>5
  <2>3. n2 <= m
    BY <2>2, IncreasingFits
  <2>4. QED
    BY <2>1, <2>3
<1>8. QED
  BY <1>2, <1>4, <1>6, <1>7 DEF ReadThrough

-----------------------------------------------------------------------------
(* Types.                                                                  *)

LEMMA PatchOfType ==
  ASSUME NEW c \in CacheRecord
  PROVE  PatchOf(c) \in AofOp
<1>1. c.changed \in Seq(Key)
  BY DEF CacheRecord
<1>2. PatchOf(c).entries \in ImageEntries
  BY <1>1, ImageOfLive DEF PatchOf, ImageEntries
<1>3. Filter(c.changed, Key \ LiveKeys(c)) \in Seq(Key)
  BY <1>1, FilterSelects
<1>4. PatchOf(c).deleted \in Seq(Key)
  BY <1>3 DEF PatchOf
<1>5. PatchOf(c) = [op |-> "patch", entries |-> PatchOf(c).entries,
                    deleted |-> PatchOf(c).deleted]
  BY DEF PatchOf
<1>6. PatchOf(c) \in Patch
  BY <1>2, <1>4, <1>5 DEF Patch
<1>7. QED
  BY <1>6 DEF AofOp

LEMMA ContentsOfType ==
  ASSUME NEW c \in CacheRecord
  PROVE  ContentsOf(c) \in Contents
<1>1. ASSUME NEW k \in Key
      PROVE  (IF Has(c, k) THEN [value |-> c.entry[k].value,
                                 expiresAt |-> c.entry[k].expiresAt]
              ELSE None)
               \in [value : Value, expiresAt : Deadline] \cup {None}
  <2>1. Has(c, k) => c.entry[k] \in EntryRecord
    BY DEF Has, CacheRecord
  <2>2. QED
    BY <2>1 DEF EntryRecord
<1>2. QED
  BY <1>1 DEF ContentsOf, Contents

LEMMA SettledIsGood ==
  ASSUME NEW c \in GoodCache
  PROVE  Settled(c) \in GoodCache
<1>1. PICK empty : empty = <<>>
  OBVIOUS
<1>2. PICK zeros : zeros = [k \in Key |-> 0]
  OBVIOUS
<1>3. empty \in Seq(Key) /\ zeros \in [Key -> Nat]
  BY <1>1, <1>2
<1>4. PICK d : d = Settled(c)
  OBVIOUS
<1>5. c \in CacheRecord
  BY DEF GoodCache
<1>6. EmptyCache.version = zeros
  BY <1>2 DEF EmptyCache
<1>7. d = [order |-> c.order, entry |-> c.entry, bytes |-> c.bytes,
           version |-> zeros, versionOrder |-> empty,
           generation |-> 0, absentEpoch |-> 0,
           changed |-> empty, expired |-> {}, now |-> c.now]
  BY <1>1, <1>4, <1>5, <1>6 DEF Settled, CacheRecord
<1>8. d \in CacheRecord
  BY <1>3, <1>5, <1>7 DEF CacheRecord
<1>9. VersionsBounded(d)
  BY <1>2, <1>7 DEF VersionsBounded
<1>10. PresentLinked(d)
  BY <1>7 DEF GoodCache, PresentLinked, Has
<1>11. QED
  BY <1>4, <1>8, <1>9, <1>10 DEF GoodCache

-----------------------------------------------------------------------------
(* Replay.                                                                 *)

LEMMA SetAtAdvances ==
  ASSUME NEW c \in GoodCache, NEW k \in Key, NEW v \in Value,
         NEW at \in Deadline
  PROVE  SetAt(c, k, v, at) \in Outcomes(c)
BY SetOwnedAdvances, AdvancesReflexive, EndOutcome DEF SetAt

LEMMA ReplaySetAdvances ==
  ASSUME NEW c \in GoodCache, NEW e \in OldSet
  PROVE  ReplaySet(c, e) \in Outcomes(c)
<1>1. CASE e \in [op : {"set"}, key : Key, value : Value, expiresAt : Deadline]
  <2>1. /\ e.key \in Key /\ e.value \in Value /\ e.expiresAt \in Deadline
        /\ "expiresAt" \in DOMAIN e
    BY <1>1
  <2>2. SetAt(c, e.key, e.value, e.expiresAt) \in Outcomes(c)
    BY <2>1, SetAtAdvances
  <2>3. QED
    BY <2>1, <2>2 DEF ReplaySet
<1>2. CASE e \in [op : {"set"}, key : Key, value : Value, ttl : Nat \cup {None}]
  <2>1. /\ e.key \in Key /\ e.value \in Value /\ e.ttl \in Nat \cup {None}
        /\ "expiresAt" \notin DOMAIN e
    BY <1>2
  <2>2. Set(c, e.key, e.value, e.ttl, 0) \in Outcomes(c)
    BY <2>1, SetAdvances
  <2>3. QED
    BY <2>1, <2>2 DEF ReplaySet
<1>3. QED
  BY <1>1, <1>2 DEF OldSet

(* The four loops of a replay stop at the first operation that throws.     *)
DelStep(p, r, k)       == IF r.ok THEN Del(r.cache, k) ELSE r
PutBackStep(p, r, e)   == IF r.ok THEN PutBack(r.cache, e) ELSE r
ReplaySetStep(p, r, e) == IF r.ok THEN ReplaySet(r.cache, e) ELSE r
AofOpStep(p, r, op)    == IF r.ok THEN ApplyAofOp(r.cache, op) ELSE r
RecordStep(p, r, line) == IF r.ok THEN ReplayRecord(r.cache, line) ELSE r

Deleting    == INSTANCE FoldTheorems WITH Op <- DelStep
PuttingBack == INSTANCE FoldTheorems WITH Op <- PutBackStep
SettingOld  == INSTANCE FoldTheorems WITH Op <- ReplaySetStep
ReplayingOp == INSTANCE FoldTheorems WITH Op <- AofOpStep
Replaying   == INSTANCE FoldTheorems WITH Op <- RecordStep

LEMMA DeletingAdvances ==
  ASSUME NEW c \in GoodCache, NEW seqn \in Seq(Key)
  PROVE  InOrder(c, seqn, Del) \in Outcomes(c)
<1>1. PICK start : start = Done(c)
  OBVIOUS
<1>2. InOrder(c, seqn, Del) = Deleting!Folded(0, start, seqn)
  BY <1>1, Zenon DEF InOrder, DelStep, Deleting!Folded, FoldLeft, Deleting!MapThenFoldSet, MapThenFoldSet, Deleting!Top, Max
<1>3. PICK A : A = Outcomes(c)
  OBVIOUS
<1>4. \A r \in A, x \in Key : DelStep(0, r, x) \in A
  <2>1. SUFFICES ASSUME NEW r \in Outcomes(c), NEW x \in Key
                 PROVE  DelStep(0, r, x) \in Outcomes(c)
    BY <1>3
  <2>2. r.cache \in Advanced(c) /\ r.cache \in GoodCache
    BY DEF Outcomes, Advanced
  <2>3. Del(r.cache, x) \in Outcomes(c)
    BY <2>2, DelAdvances, OutcomeTransitive
  <2>4. QED
    BY <2>3 DEF DelStep
<1>5. start \in A
  BY <1>1, <1>3, AdvancesReflexive, EndOutcome
<1>6. PICK B : B = Key
  OBVIOUS
<1>7. Deleting!Folded(0, start, seqn) \in A
  BY <1>4, <1>5, <1>6, Deleting!FoldLeftInvariant
<1>8. QED
  BY <1>2, <1>3, <1>7

LEMMA PutBackAdvances ==
  ASSUME NEW c \in GoodCache, NEW e \in ImageEntry
  PROVE  PutBack(c, e) \in Outcomes(c)
BY SetAtAdvances DEF PutBack, ImageEntry

LEMMA PuttingBackAdvances ==
  ASSUME NEW c \in GoodCache, NEW seqn \in Seq(ImageEntry)
  PROVE  InOrder(c, seqn, PutBack) \in Outcomes(c)
<1>1. PICK start : start = Done(c)
  OBVIOUS
<1>2. InOrder(c, seqn, PutBack) = PuttingBack!Folded(0, start, seqn)
  BY <1>1, Zenon DEF InOrder, PutBackStep, PuttingBack!Folded, FoldLeft, PuttingBack!MapThenFoldSet, MapThenFoldSet, PuttingBack!Top, Max
<1>3. PICK A : A = Outcomes(c)
  OBVIOUS
<1>4. \A r \in A, x \in ImageEntry : PutBackStep(0, r, x) \in A
  <2>1. SUFFICES ASSUME NEW r \in Outcomes(c), NEW x \in ImageEntry
                 PROVE  PutBackStep(0, r, x) \in Outcomes(c)
    BY <1>3
  <2>2. r.cache \in Advanced(c) /\ r.cache \in GoodCache
    BY DEF Outcomes, Advanced
  <2>3. PutBack(r.cache, x) \in Outcomes(c)
    BY <2>2, PutBackAdvances, OutcomeTransitive
  <2>4. QED
    BY <2>3 DEF PutBackStep
<1>5. start \in A
  BY <1>1, <1>3, AdvancesReflexive, EndOutcome
<1>6. PICK B : B = ImageEntry
  OBVIOUS
<1>7. PuttingBack!Folded(0, start, seqn) \in A
  BY <1>4, <1>5, <1>6, PuttingBack!FoldLeftInvariant
<1>8. QED
  BY <1>2, <1>3, <1>7

LEMMA SettingOldAdvances ==
  ASSUME NEW c \in GoodCache, NEW seqn \in Seq(OldSet)
  PROVE  InOrder(c, seqn, ReplaySet) \in Outcomes(c)
<1>1. PICK start : start = Done(c)
  OBVIOUS
<1>2. InOrder(c, seqn, ReplaySet) = SettingOld!Folded(0, start, seqn)
  BY <1>1, Zenon DEF InOrder, ReplaySetStep, SettingOld!Folded, FoldLeft, SettingOld!MapThenFoldSet, MapThenFoldSet, SettingOld!Top, Max
<1>3. PICK A : A = Outcomes(c)
  OBVIOUS
<1>4. \A r \in A, x \in OldSet : ReplaySetStep(0, r, x) \in A
  <2>1. SUFFICES ASSUME NEW r \in Outcomes(c), NEW x \in OldSet
                 PROVE  ReplaySetStep(0, r, x) \in Outcomes(c)
    BY <1>3
  <2>2. r.cache \in Advanced(c) /\ r.cache \in GoodCache
    BY DEF Outcomes, Advanced
  <2>3. ReplaySet(r.cache, x) \in Outcomes(c)
    BY <2>2, ReplaySetAdvances, OutcomeTransitive
  <2>4. QED
    BY <2>3 DEF ReplaySetStep
<1>5. start \in A
  BY <1>1, <1>3, AdvancesReflexive, EndOutcome
<1>6. PICK B : B = OldSet
  OBVIOUS
<1>7. SettingOld!Folded(0, start, seqn) \in A
  BY <1>4, <1>5, <1>6, SettingOld!FoldLeftInvariant
<1>8. QED
  BY <1>2, <1>3, <1>7

LEMMA ApplyPatchAdvances ==
  ASSUME NEW c \in GoodCache, NEW op \in Patch
  PROVE  ApplyPatch(c, op) \in Outcomes(c)
<1>1. op.deleted \in Seq(Key) /\ op.entries \in Seq(ImageEntry)
  BY DEF Patch, ImageEntries
<1>2. PICK r : r = InOrder(c, op.deleted, Del)
  OBVIOUS
<1>3. r \in Outcomes(c) /\ r.cache \in Advanced(c) /\ r.cache \in GoodCache
  BY <1>1, <1>2, DeletingAdvances DEF Outcomes, Advanced
<1>4. InOrder(r.cache, op.entries, PutBack) \in Outcomes(c)
  BY <1>1, <1>3, PuttingBackAdvances, OutcomeTransitive
<1>5. PICK q : q = IF r.ok THEN InOrder(r.cache, op.entries, PutBack) ELSE r
  OBVIOUS
<1>6. q \in Outcomes(c)
  BY <1>3, <1>4, <1>5
<1>7. ApplyPatch(c, op) = Atomic(c, q)
  BY <1>2, <1>5, Zenon DEF ApplyPatch
<1>8. QED
  BY <1>6, <1>7, AtomicAdvances

LEMMA ApplyAofOpAdvances ==
  ASSUME NEW c \in GoodCache, NEW op \in Patch \cup OldOp
  PROVE  ApplyAofOp(c, op) \in Outcomes(c)
<1>1. CASE op \in Patch
  <2>1. op.op = "patch"
    BY <1>1 DEF Patch
  <2>2. QED
    BY <1>1, <2>1, ApplyPatchAdvances DEF ApplyAofOp
<1>2. CASE op \in OldSet
  <2>1. op.op = "set"
    BY <1>2 DEF OldSet
  <2>2. QED
    BY <1>2, <2>1, ReplaySetAdvances DEF ApplyAofOp
<1>3. CASE op \in [op : {"mset"}, entries : Seq(OldSet)]
  <2>1. op.op = "mset" /\ op.entries \in Seq(OldSet)
    BY <1>3
  <2>2. InOrder(c, op.entries, ReplaySet) \in Outcomes(c)
    BY <2>1, SettingOldAdvances
  <2>3. QED
    BY <2>1, <2>2 DEF ApplyAofOp
<1>4. CASE op \in [op : {"del"}, keys : Seq(Key)]
  <2>1. op.op = "del" /\ op.keys \in Seq(Key)
    BY <1>4
  <2>2. InOrder(c, op.keys, Del) \in Outcomes(c)
    BY <2>1, DeletingAdvances
  <2>3. QED
    BY <2>1, <2>2 DEF ApplyAofOp
<1>5. CASE op \in [op : {"clear"}, prefix : Namespace]
  <2>1. op.op = "clear"
    BY <1>5
  <2>2. ClearPrefix(c, op.prefix) \in Outcomes(c)
    BY ClearPrefixAdvances
  <2>3. QED
    BY <2>1, <2>2 DEF ApplyAofOp
<1>6. CASE op \in [op : {"expire"}, key : Key, expiresAt : Nat]
  <2>1. /\ op.op = "expire" /\ op.key \in Key /\ op.expiresAt \in Nat
        /\ "expiresAt" \in DOMAIN op
    BY <1>6
  <2>2. ExpireAt(c, op.key, op.expiresAt, 0) \in Outcomes(c)
    BY <2>1, ExpireAtAdvances
  <2>3. QED
    BY <2>1, <2>2 DEF ApplyAofOp
<1>7. CASE op \in [op : {"expire"}, key : Key, ttl : Nat]
  <2>1. /\ op.op = "expire" /\ op.key \in Key /\ op.ttl \in Nat
        /\ "expiresAt" \notin DOMAIN op
    BY <1>7
  <2>2. Expire(c, op.key, op.ttl, 0) \in Outcomes(c)
    BY <2>1, ExpireAdvances
  <2>3. QED
    BY <2>1, <2>2 DEF ApplyAofOp
<1>8. CASE op \in [op : {"persist"}, key : Key]
  <2>1. op.op = "persist" /\ op.key \in Key
    BY <1>8
  <2>2. Persist(c, op.key) \in Outcomes(c)
    BY <2>1, PersistAdvances
  <2>3. QED
    BY <2>1, <2>2 DEF ApplyAofOp
<1>9. CASE op \in [op : {"incr"}, key : Key, by : Int]
  <2>1. op.op = "incr" /\ op.key \in Key /\ op.by \in Int
    BY <1>9
  <2>2. Incr(c, op.key, op.by, 0) \in Outcomes(c)
    BY <2>1, IncrAdvances
  <2>3. QED
    BY <2>1, <2>2 DEF ApplyAofOp
<1>10. QED
  BY <1>1, <1>2, <1>3, <1>4, <1>5, <1>6, <1>7, <1>8, <1>9 DEF OldOp

LEMMA ReplayingOpAdvances ==
  ASSUME NEW c \in GoodCache, NEW seqn \in Seq(OldOp)
  PROVE  InOrder(c, seqn, ApplyAofOp) \in Outcomes(c)
<1>1. PICK start : start = Done(c)
  OBVIOUS
<1>2. InOrder(c, seqn, ApplyAofOp) = ReplayingOp!Folded(0, start, seqn)
  BY <1>1, Zenon DEF InOrder, AofOpStep, ReplayingOp!Folded, FoldLeft, ReplayingOp!MapThenFoldSet, MapThenFoldSet, ReplayingOp!Top, Max
<1>3. PICK A : A = Outcomes(c)
  OBVIOUS
<1>4. \A r \in A, x \in OldOp : AofOpStep(0, r, x) \in A
  <2>1. SUFFICES ASSUME NEW r \in Outcomes(c), NEW x \in OldOp
                 PROVE  AofOpStep(0, r, x) \in Outcomes(c)
    BY <1>3
  <2>2. r.cache \in Advanced(c) /\ r.cache \in GoodCache
    BY DEF Outcomes, Advanced
  <2>3. ApplyAofOp(r.cache, x) \in Outcomes(c)
    BY <2>2, ApplyAofOpAdvances, OutcomeTransitive
  <2>4. QED
    BY <2>3 DEF AofOpStep
<1>5. start \in A
  BY <1>1, <1>3, AdvancesReflexive, EndOutcome
<1>6. PICK B : B = OldOp
  OBVIOUS
<1>7. ReplayingOp!Folded(0, start, seqn) \in A
  BY <1>4, <1>5, <1>6, ReplayingOp!FoldLeftInvariant
<1>8. QED
  BY <1>2, <1>3, <1>7

RecordLine == [kind : {"record"}, seq : Nat \cup {None}, op : AofOp]

LEMMA ReplayRecordAdvances ==
  ASSUME NEW c \in GoodCache, NEW line \in RecordLine
  PROVE  ReplayRecord(c, line) \in Outcomes(c)
<1>1. PICK op : op = line.op
  OBVIOUS
<1>2. op \in AofOp
  BY <1>1 DEF RecordLine
<1>3. PICK r : r = IF op.op = "transaction" THEN InOrder(c, op.ops, ApplyAofOp)
                   ELSE ApplyAofOp(c, op)
  OBVIOUS
<1>4. r \in Outcomes(c)
  <2>1. CASE op \in [op : {"transaction"}, ops : Seq(OldOp)]
    <3>1. op.op = "transaction" /\ op.ops \in Seq(OldOp)
      BY <2>1
    <3>2. QED
      BY <3>1, <1>3, ReplayingOpAdvances
  <2>2. CASE op \in Patch \cup OldOp
    <3>1. op.op # "transaction"
      BY <2>2 DEF Patch, OldOp, OldSet
    <3>2. QED
      BY <2>2, <3>1, <1>3, ApplyAofOpAdvances
  <2>3. QED
    BY <1>2, <2>1, <2>2 DEF AofOp
<1>5. ReplayRecord(c, line) = Atomic(c, r)
  BY <1>1, <1>3, Zenon DEF ReplayRecord
<1>6. QED
  BY <1>4, <1>5, AtomicAdvances

LEMMA ReplayingAdvances ==
  ASSUME NEW c \in GoodCache, NEW seqn \in Seq(RecordLine)
  PROVE  InOrder(c, seqn, ReplayRecord) \in Outcomes(c)
<1>1. PICK start : start = Done(c)
  OBVIOUS
<1>2. InOrder(c, seqn, ReplayRecord) = Replaying!Folded(0, start, seqn)
  BY <1>1, Zenon DEF InOrder, RecordStep, Replaying!Folded, FoldLeft, Replaying!MapThenFoldSet, MapThenFoldSet, Replaying!Top, Max
<1>3. PICK A : A = Outcomes(c)
  OBVIOUS
<1>4. \A r \in A, x \in RecordLine : RecordStep(0, r, x) \in A
  <2>1. SUFFICES ASSUME NEW r \in Outcomes(c), NEW x \in RecordLine
                 PROVE  RecordStep(0, r, x) \in Outcomes(c)
    BY <1>3
  <2>2. r.cache \in Advanced(c) /\ r.cache \in GoodCache
    BY DEF Outcomes, Advanced
  <2>3. ReplayRecord(r.cache, x) \in Outcomes(c)
    BY <2>2, ReplayRecordAdvances, OutcomeTransitive
  <2>4. QED
    BY <2>3 DEF RecordStep
<1>5. start \in A
  BY <1>1, <1>3, AdvancesReflexive, EndOutcome
<1>6. PICK B : B = RecordLine
  OBVIOUS
<1>7. Replaying!Folded(0, start, seqn) \in A
  BY <1>4, <1>5, <1>6, Replaying!FoldLeftInvariant
<1>8. QED
  BY <1>2, <1>3, <1>7

(* Every line that is read is a record, so a replay gives a cache.         *)
LEMMA ReplayAdvances ==
  ASSUME NEW c \in GoodCache, NEW lines \in Seq(Line), ReadThrough(lines),
         NEW upTo
  PROVE  Replay(c, lines, upTo) \in Outcomes(c)
<1>1. lines \in Seq(RecordLine)
  <2>1. \A i \in 1 .. Len(lines) : lines[i] \in Line /\ lines[i].kind = "record"
    BY DEF ReadThrough, Readable
  <2>2. \A i \in 1 .. Len(lines) : lines[i] \in RecordLine
    BY <2>1 DEF Line, RecordLine
  <2>3. QED
    BY <2>2
<1>2. PICK some : some = Filter(lines, Uncovered(lines, upTo))
  OBVIOUS
<1>3. some \in Seq(RecordLine)
  BY <1>1, <1>2, FilterSelects
<1>4. QED
  BY <1>2, <1>3, ReplayingAdvances DEF Replay

-----------------------------------------------------------------------------
(* Every state has its type.                                               *)

TInv == TypeOK /\ cache \in GoodCache

LEMMA SnapshotType ==
  ASSUME TypeOK
  PROVE  /\ SnapshotSeq \in Nat \cup {None}
         /\ snapshot # None => snapshot.entries \in Seq(SetRecordArgument)
<1>1. snapshot # None => snapshot \in Snapshot
  BY DEF TypeOK
<1>2. QED
  BY <1>1 DEF Snapshot, SnapshotSeq, ImageEntries, ImageEntry, SetRecordArgument

LEMMA LoadedIsGood ==
  ASSUME TypeOK, NEW c \in GoodCache
  PROVE  Loaded(c) \in GoodCache
<1>1. CASE snapshot = None
  BY <1>1 DEF Loaded
<1>2. CASE snapshot # None
  <2>1. Replace(c, snapshot.entries) \in Outcomes(c)
    BY <1>2, SnapshotType, ReplaceAdvances
  <2>2. QED
    BY <1>2, <2>1 DEF Loaded, Outcomes, Advanced
<1>3. QED
  BY <1>1, <1>2

LEMMA FreshIsGood ==
  ASSUME cache \in GoodCache
  PROVE  Fresh \in GoodCache
<1>1. cache.now \in Nat
  BY DEF GoodCache, CacheRecord
<1>2. QED
  BY <1>1, EmptyAt DEF Fresh

LEMMA ReplayedIsGood ==
  ASSUME file \in LogFile, NEW c \in GoodCache
  PROVE  /\ Replay(c, GoodLines(file), SnapshotSeq).cache \in GoodCache
         /\ Replay(c, GoodLines(file), SnapshotSeq).ok \in BOOLEAN
<1>1. Replay(c, GoodLines(file), SnapshotSeq) \in Outcomes(c)
  BY GoodLinesRead, ReplayAdvances
<1>2. QED
  BY <1>1 DEF Outcomes, Advanced

LEMMA WrittenType ==
  ASSUME NEW f \in LogFile, NEW line \in Line, NEW ended \in BOOLEAN
  PROVE  Written(f, line, ended) \in LogFile
<1>1. f.lines \in Seq(Line)
  BY DEF LogFile
<1>2. Bad \in Line
  BY DEF Bad, Line
<1>3. Front(f.lines) \in Seq(Line)
  BY <1>1 DEF Front
<1>4. Append(f.lines, line) \in Seq(Line)
  BY <1>1
<1>5. Append(Front(f.lines), Bad) \in Seq(Line)
  BY <1>2, <1>3
<1>6. QED
  BY <1>4, <1>5 DEF Written, LogFile

LEMMA NewRecordType ==
  ASSUME TypeOK, NEW c \in GoodCache
  PROVE  NewRecord(c) \in Line
<1>1. PatchOf(c) \in AofOp
  BY PatchOfType DEF GoodCache
<1>2. seq + 1 \in Nat
  BY DEF TypeOK
<1>3. QED
  BY <1>1, <1>2 DEF NewRecord, Record, Line

LEMMA WrittenInPartType ==
  ASSUME NEW f \in LogFile, NEW line \in Line, NEW tear \in Tear
  PROVE  WrittenInPart(f, line, tear) \in LogFile
<1>1. tear \in {"nothing", "prefix", "unterminated"}
  BY PersistenceAssumption
<1>2. Torn \in Line
  BY DEF Torn, Line
<1>3. Written(f, line, FALSE) \in LogFile /\ Written(f, Torn, FALSE) \in LogFile
  BY <1>2, WrittenType
<1>4. QED
  BY <1>1, <1>3 DEF WrittenInPart

LEMMA ScanType ==
  ASSUME file \in LogFile, NEW before \in {"clean", "torn-tail", "corrupt"},
         Scan(before)
  PROVE  /\ file' \in LogFile
         /\ status' \in {"clean", "torn-tail", "corrupt"}
BY WithoutTailReads DEF Scan

LEMMA UndoneIsGood ==
  ASSUME cache \in GoodCache, NEW r \in Outcomes(cache)
  PROVE  Undone(r) \in GoodCache /\ Settled(r.cache) \in GoodCache
<1>1. r.cache \in Advanced(cache)
  BY DEF Outcomes
<1>2. RolledBack(cache, r.cache) \in GoodCache /\ r.cache \in GoodCache
  BY <1>1, RolledBackAdvances DEF Advanced
<1>3. QED
  BY <1>2, SettledIsGood DEF Undone

LEMMA CutType ==
  ASSUME TInv, NEW r \in Outcomes(cache), NEW tear \in Tear, Cut(r, tear)
  PROVE  file' \in LogFile /\ acked' \subseteq Contents /\ snapshot' = snapshot
<1>1. r.cache \in GoodCache
  BY DEF Outcomes, Advanced
<1>2. NewRecord(r.cache) \in Line
  BY <1>1, NewRecordType DEF TInv
<1>3. ContentsOf(r.cache) \in Contents
  BY <1>1, ContentsOfType DEF GoodCache
<1>4. QED
  BY <1>2, <1>3, WrittenInPartType DEF Cut, TInv, TypeOK

LEMMA MutateType ==
  ASSUME TInv, NEW r \in Outcomes(cache), Mutate(r)
  PROVE  TInv'
<1>1. r.cache \in GoodCache /\ r.ok \in BOOLEAN
  BY DEF Outcomes, Advanced
<1>2. Undone(r) \in GoodCache /\ Settled(r.cache) \in GoodCache
  BY UndoneIsGood DEF TInv
<1>3. \A c \in GoodCache : c \in CacheRecord
  BY DEF GoodCache
<1>4. UNCHANGED <<mode, job>>
  BY DEF Mutate
<1>5. CASE Unlogged(r)
  <2>1. cache' \in GoodCache /\ UNCHANGED <<snapshot, file, seq, status, acked>>
    BY <1>2, <1>5 DEF Unlogged, disk
  <2>2. QED
    BY <2>1, <1>3, <1>4 DEF TInv, TypeOK
<1>6. CASE Logged(r)
  <2>1. NewRecord(r.cache) \in Line
    BY <1>1, NewRecordType DEF TInv
  <2>2. file' \in LogFile
    BY <2>1, <1>6, WrittenType DEF Logged, TInv, TypeOK
  <2>3. ContentsOf(r.cache) \in Contents
    BY <1>1, <1>3, ContentsOfType
  <2>4. seq' \in Nat
    BY <1>6 DEF Logged, TInv, TypeOK
  <2>5. QED
    BY <1>2, <1>3, <1>4, <1>6, <2>2, <2>3, <2>4 DEF Logged, TInv, TypeOK
<1>7. CASE Refused(r)
  <2>1. cache' \in GoodCache /\ UNCHANGED <<snapshot, file, seq, status, acked>>
    BY <1>2, <1>7 DEF Refused, disk
  <2>2. QED
    BY <2>1, <1>3, <1>4 DEF TInv, TypeOK
<1>8. ASSUME NEW tear \in Tear, AppendFails(r, tear) PROVE TInv'
  <2>1. file' \in LogFile /\ acked' \subseteq Contents /\ snapshot' = snapshot
    BY <1>8, CutType DEF AppendFails
  <2>2. cache' \in GoodCache /\ status' = "corrupt" /\ seq' = seq
    BY <1>2, <1>8 DEF AppendFails
  <2>3. QED
    BY <1>3, <1>4, <2>1, <2>2 DEF TInv, TypeOK
<1>9. QED
  BY <1>5, <1>6, <1>7, <1>8 DEF Mutate

LEMMA RunAdvances ==
  ASSUME TInv, NEW command \in Command
  PROVE  Run(command) \in Outcomes(cache)
<1>1. command \in Seq(Queueable)
  BY PersistenceAssumption
<1>2. QED
  BY <1>1, ApplyingAdvances DEF Run, TInv

LEMMA GoneType ==
  ASSUME TInv, Gone, file' \in LogFile, acked' \subseteq Contents,
         snapshot' = snapshot
  PROVE  TInv'
<1>1. cache' \in GoodCache
  BY FreshIsGood DEF Gone, TInv
<1>2. QED
  BY <1>1 DEF Gone, TInv, TypeOK, GoodCache

LEMMA QuietType ==
  ASSUME TInv, NEW c \in GoodCache, Quiet(c)
  PROVE  TInv'
<1>1. cache' \in GoodCache
  BY SettledIsGood DEF Quiet
<1>2. QED
  BY <1>1 DEF Quiet, disk, TInv, TypeOK, GoodCache

LEMMA TypeStep == TInv /\ Next => TInv'
<1> SUFFICES ASSUME TInv, Next PROVE TInv'
  OBVIOUS
<1> USE DEF disk
<1>1. TypeOK /\ cache \in GoodCache /\ file \in LogFile /\ seq \in Nat
  BY DEF TInv, TypeOK
<1>2. \A c \in GoodCache : c \in CacheRecord
  BY DEF GoodCache
<1>3. CASE Open
  <2>1. file' \in LogFile /\ status' \in {"clean", "torn-tail", "corrupt"}
    BY <1>1, <1>3, ScanType DEF Open
  <2>2. cache' \in GoodCache
    BY <1>1, <1>3, FreshIsGood DEF Open
  <2>3. seq' \in Nat
    BY <1>1, <1>3, GoodLinesRead, LastSequenceBounds DEF Open
  <2>4. QED
    BY <1>2, <1>3, <2>1, <2>2, <2>3 DEF Open, TInv, TypeOK
<1>4. CASE LoadAtStart
  <2>1. cache' \in GoodCache
    BY <1>1, <1>4, LoadedIsGood, SettledIsGood DEF LoadAtStart
  <2>2. QED
    BY <1>2, <1>4, <2>1 DEF LoadAtStart, TInv, TypeOK
<1>5. CASE ReplayAtStart
  <2>1. PICK r : r = Replay(cache, GoodLines(file), SnapshotSeq)
    OBVIOUS
  <2>2. r.cache \in GoodCache /\ r.ok \in BOOLEAN
    BY <1>1, <2>1, ReplayedIsGood
  <2>3. /\ IF r.ok THEN mode' = "up" /\ Scan(status)
           ELSE mode' = "up" /\ status' = "corrupt" /\ UNCHANGED file
        /\ cache' = Settled(r.cache)
        /\ seq' = IF SnapshotSeq = None THEN seq ELSE Max({seq, SnapshotSeq})
        /\ acked' = {ContentsOf(r.cache)}
        /\ UNCHANGED <<snapshot, job>>
    BY <1>5, <2>1, Zenon DEF ReplayAtStart
  <2>4. cache' \in GoodCache
    BY <2>2, <2>3, SettledIsGood
  <2>5. acked' \subseteq Contents
    BY <1>2, <2>2, <2>3, ContentsOfType
  <2>6. seq' \in Nat
    BY <1>1, <2>3, SnapshotType, MaxOfTwo
  <2>7. file' \in LogFile /\ status' \in {"clean", "torn-tail", "corrupt"}
    BY <1>1, <2>3, ScanType DEF TypeOK
  <2>8. QED
    BY <1>1, <1>2, <2>3, <2>4, <2>5, <2>6, <2>7 DEF TInv, TypeOK
<1>6. CASE StartFails
  BY <1>6 DEF StartFails, TInv, TypeOK
<1>7. CASE Close
  BY <1>7 DEF Close, TInv, TypeOK
<1>8. CASE Crash
  BY <1>1, <1>8, GoneType DEF Crash, TypeOK
<1>9. CASE Tick
  <2>1. Later(cache, 1) \in GoodCache
    BY <1>1, LaterAdvances DEF Advanced
  <2>2. QED
    BY <1>2, <1>9, <2>1 DEF Tick, TInv, TypeOK
<1>10. CASE SweepExpired
  <2>1. Sweep(cache).cache \in GoodCache
    BY <1>1, SweepAdvances DEF Outcomes, Advanced
  <2>2. QED
    BY <1>10, <2>1, QuietType DEF SweepExpired
<1>11. ASSUME NEW command \in Command, Write(command) PROVE TInv'
  BY <1>11, RunAdvances, MutateType DEF Write
<1>12. ASSUME NEW command \in Command, NEW tear \in Tear,
              CrashInWrite(command, tear)
       PROVE  TInv'
  <2>1. PICK r : r = Run(command)
    OBVIOUS
  <2>2. Cut(r, tear) /\ Gone
    BY <1>12, <2>1 DEF CrashInWrite
  <2>3. r \in Outcomes(cache)
    BY <2>1, RunAdvances
  <2>4. QED
    BY <2>2, <2>3, CutType, GoneType
<1>13. ASSUME NEW k \in Key, Read(k) PROVE TInv'
  <2>1. Get(cache, k).cache \in GoodCache
    BY <1>1, GetAdvances DEF Outcomes, Advanced
  <2>2. QED
    BY <1>13, <2>1, QuietType DEF Read
<1>14. CASE SaveBegins
  <2>1. Dump(cache) \in ImageEntries
    BY <1>1, <1>2, DumpType DEF ImageEntries
  <2>2. job' \in [step : {"writing", "renamed"}, entries : ImageEntries, seq : Nat]
    BY <1>1, <1>14, <2>1 DEF SaveBegins
  <2>3. QED
    BY <1>14, <2>2 DEF SaveBegins, TInv, TypeOK
<1>15. CASE SaveFails
  BY <1>15 DEF SaveFails, TInv, TypeOK
<1>16. CASE SaveRenames
  <2>1. job \in [step : {"writing", "renamed"}, entries : ImageEntries, seq : Nat]
    BY <1>1, <1>16 DEF SaveRenames, TypeOK
  <2>2. job' \in [step : {"writing", "renamed"}, entries : ImageEntries, seq : Nat]
    BY <1>16, <2>1 DEF SaveRenames
  <2>3. snapshot' \in Snapshot
    BY <1>16, <2>1 DEF SaveRenames, Snapshot
  <2>4. QED
    BY <1>16, <2>2, <2>3 DEF SaveRenames, TInv, TypeOK
<1>17. CASE SaveRotates
  <2>1. job' = None /\ UNCHANGED <<snapshot, cache, status, mode, acked>>
    BY <1>17 DEF SaveRotates
  <2>2. CASE UNCHANGED <<file, seq>>
    BY <2>1, <2>2 DEF TInv, TypeOK
  <2>3. CASE /\ file' = [lines |-> Newer(GoodLines(file), job.seq),
                         ended |-> TRUE]
             /\ seq' = Max({job.seq, LastSequence(file'.lines)})
    <3>1. job.seq \in Nat
      BY <1>1, <1>17 DEF SaveRotates, TypeOK
    <3>2. Newer(GoodLines(file), job.seq) \in Seq(Line)
      BY <1>1, GoodLinesRead, NewerReads
    <3>3. file' \in LogFile /\ file'.lines \in Seq(Line)
      BY <2>3, <3>2 DEF LogFile
    <3>4. seq' \in Nat
      BY <2>3, <3>1, <3>3, LastSequenceBounds, MaxOfTwo
    <3>5. QED
      BY <2>1, <3>3, <3>4 DEF TInv, TypeOK
  <2>4. QED
    BY <1>17, <2>2, <2>3 DEF SaveRotates
<1>18. CASE Load
  <2>1. Replace(cache, snapshot.entries) \in Outcomes(cache)
    BY <1>1, <1>18, SnapshotType, ReplaceAdvances DEF Load
  <2>2. QED
    BY <1>18, <2>1, MutateType DEF Load
<1>19. QED
  BY <1>3, <1>4, <1>5, <1>6, <1>7, <1>8, <1>9, <1>10, <1>11, <1>12, <1>13,
     <1>14, <1>15, <1>16, <1>17, <1>18 DEF Next

LEMMA TypeInit == Init => TInv
<1> SUFFICES ASSUME Init PROVE TInv
  OBVIOUS
<1>1. cache = EmptyCache
  BY DEF Init
<1>3. cache \in GoodCache
  BY <1>1, EmptyIsGood
<1>4. snapshot \in Snapshot \cup {None} /\ file \in LogFile
  BY PersistenceAssumption DEF Init
<1>5. Fresh \in GoodCache
  BY <1>3, FreshIsGood
<1>6. Loaded(Fresh) \in GoodCache
  <2>1. CASE snapshot = None
    BY <1>5, <2>1 DEF Loaded
  <2>2. CASE snapshot # None
    <3>1. snapshot.entries \in Seq(SetRecordArgument)
      BY <1>4, <2>2
         DEF Snapshot, ImageEntries, ImageEntry, SetRecordArgument
    <3>2. Replace(Fresh, snapshot.entries) \in Outcomes(Fresh)
      BY <1>5, <3>1, ReplaceAdvances
    <3>3. QED
      BY <2>2, <3>2 DEF Loaded, Outcomes, Advanced
  <2>3. QED
    BY <2>1, <2>2
<1>7. Recovered \in GoodCache
  BY <1>4, <1>6, ReplayedIsGood DEF Recovered
<1>8. ContentsOf(Recovered) \in Contents
  BY <1>7, ContentsOfType DEF GoodCache
<1>9. QED
  BY <1>3, <1>4, <1>8 DEF Init, TInv, TypeOK, GoodCache

-----------------------------------------------------------------------------
(* The numbers of the records.                                             *)
(*                                                                         *)
(* CorruptLogUntouched is not inductive.  That a write finds a log it can  *)
(* append to needs that the process knows (status) when a line cannot be   *)
(* read; that the line it adds can be read needs that no number in the     *)
(* file is above seq; and that it is not taken for covered needs that      *)
(* neither the snapshot nor the one being saved is ahead of seq.           *)

(* What ends without a newline is a torn record.                           *)
EndsWell(f) == f.ended \/ (Len(f.lines) > 0 /\ Last(f.lines) = Torn)

(* An interrupted append never leaves its whole record without the newline.*)
TearsShow ==
  /\ "unterminated" \notin Tear
  /\ \A f \in OldFile : EndsWell(f)

Appendable == AllRead(file) /\ NumberedUpTo(file.lines, seq)

LogInv ==
  /\ EndsWell(file)
  /\ mode # "down" /\ status # "corrupt" => Appendable
  /\ Working => SnapshotSeq = None \/ SnapshotSeq <= seq
  /\ job # None =>
       /\ Working
       /\ job.seq <= seq
       /\ job.step = "renamed" => SnapshotSeq \in {None, job.seq}

LEMMA ScanReads ==
  ASSUME file \in LogFile, NEW before \in {"clean", "torn-tail", "corrupt"},
         Scan(before), EndsWell(file)
  PROVE  /\ EndsWell(file')
         /\ Len(file'.lines) <= Len(file.lines)
         /\ ~ AllRead(file) /\ ~ TornTail(file) => file' = file
         /\ status' # "corrupt" =>
              AllRead(file') /\ file'.lines = GoodLines(file)
<1>1. Len(file.lines) \in Nat
  BY DEF LogFile
<1>2. CASE AllRead(file) /\ file' = file
  BY <1>1, <1>2, GoodLinesRead
<1>3. CASE TornTail(file) /\ file' = WithoutTail(file)
  <2>1. Len(file'.lines) < Len(file.lines) /\ Len(file'.lines) \in Nat
    BY <1>3, WithoutTailReads DEF LogFile
  <2>2. QED
    BY <1>1, <1>3, <2>1, WithoutTailReads DEF EndsWell
<1>4. CASE status' = "corrupt" /\ file' = file
  BY <1>1, <1>4
<1>5. QED
  BY <1>2, <1>3, <1>4 DEF Scan

(* A log that can be read ends with its newline.                           *)
LEMMA ReadThroughEnds ==
  ASSUME file \in LogFile, EndsWell(file), AllRead(file)
  PROVE  file.ended
<1>1. SUFFICES ASSUME Len(file.lines) > 0, Last(file.lines) = Torn
               PROVE  FALSE
  BY DEF EndsWell, LogFile
<1>2. ReadThrough(file.lines) /\ Len(file.lines) \in Nat
  BY AllReadIsReadThrough DEF LogFile
<1>3. file.lines[Len(file.lines)].kind = "record"
  BY <1>1, <1>2 DEF ReadThrough, Readable
<1>4. QED
  BY <1>1, <1>3 DEF Last, Torn

LEMMA LogsWhole ==
  ASSUME TInv, LogInv, Appendable, NEW c \in GoodCache
  PROVE  LET f == Written(file, NewRecord(c), TRUE)
         IN  /\ EndsWell(f) /\ AllRead(f)
             /\ NumberedUpTo(f.lines, seq + 1)
             /\ Last(f.lines).seq = seq + 1
             /\ Readable(f.lines, Len(f.lines))
<1>1. file \in LogFile /\ file.lines \in Seq(Line) /\ seq \in Nat
  BY DEF TInv, TypeOK, LogFile
<1>2. file.ended
  BY <1>1, ReadThroughEnds DEF LogInv, Appendable
<1>3. PatchOf(c) \in AofOp
  BY PatchOfType DEF GoodCache
<1>4. ReadThrough(file.lines) /\ NumberedUpTo(file.lines, seq)
  BY <1>1, AllReadIsReadThrough DEF Appendable
<1>5. PICK new : new = Append(file.lines, Record(seq + 1, PatchOf(c)))
  OBVIOUS
<1>6. /\ new \in Seq(Line) /\ Len(new) = Len(file.lines) + 1
      /\ Last(new).seq = seq + 1
      /\ ReadThrough(new) /\ NumberedUpTo(new, seq + 1)
  BY <1>1, <1>3, <1>4, <1>5, AppendReads
<1>7. PICK f : f = Written(file, NewRecord(c), TRUE)
  OBVIOUS
<1>8. f = [lines |-> new, ended |-> TRUE]
  BY <1>2, <1>5, <1>7 DEF Written, NewRecord
<1>9. f \in LogFile /\ f.lines = new /\ f.ended
  BY <1>6, <1>8 DEF LogFile
<1>10. AllRead(f)
  BY <1>6, <1>9, AllReadIsReadThrough
<1>11. Readable(new, Len(new))
  BY <1>1, <1>6 DEF ReadThrough
<1>12. QED
  BY <1>6, <1>7, <1>9, <1>10, <1>11 DEF EndsWell

(* What an interrupted append leaves ends well.                            *)
LEMMA TearEndsWell ==
  ASSUME TearsShow, NEW f \in LogFile, EndsWell(f), f.ended, NEW line \in Line,
         NEW tear \in Tear
  PROVE  /\ EndsWell(WrittenInPart(f, line, tear))
         /\ \/ WrittenInPart(f, line, tear) = f
            \/ ~ WrittenInPart(f, line, tear).ended
<1>1. tear = "nothing" \/ tear = "prefix"
  BY PersistenceAssumption DEF TearsShow
<1>2. CASE tear = "nothing"
  BY <1>2 DEF WrittenInPart
<1>3. CASE tear = "prefix"
  <2>1. f.lines \in Seq(Line) /\ Torn \in Line
    BY DEF LogFile, Torn, Line
  <2>2. PICK new : new = Append(f.lines, Torn)
    OBVIOUS
  <2>3. Len(new) > 0 /\ Last(new) = Torn
    BY <2>1, <2>2 DEF Last
  <2>4. WrittenInPart(f, line, tear) = [lines |-> new, ended |-> FALSE]
    BY <1>3, <2>2 DEF WrittenInPart, Written
  <2>5. QED
    BY <2>3, <2>4 DEF EndsWell
<1>4. QED
  BY <1>1, <1>2, <1>3

LEMMA CutEndsWell ==
  ASSUME TearsShow, TInv, LogInv, mode # "down", NEW r \in Outcomes(cache),
         NEW tear \in Tear, Cut(r, tear)
  PROVE  EndsWell(file') /\ (file' = file \/ ~ file'.ended)
<1>1. status # "corrupt" /\ file' = WrittenInPart(file, NewRecord(r.cache), tear)
  BY DEF Cut, Writable
<1>2. file \in LogFile /\ EndsWell(file) /\ file.ended
  BY <1>1, ReadThroughEnds DEF TInv, TypeOK, LogInv, Appendable
<1>3. NewRecord(r.cache) \in Line
  BY NewRecordType DEF TInv, Outcomes, Advanced
<1>4. QED
  BY <1>1, <1>2, <1>3, TearEndsWell

LEMMA MutateKeepsLog ==
  ASSUME TearsShow, TInv, LogInv, Working, NEW r \in Outcomes(cache), Mutate(r)
  PROVE  LogInv'
<1>1. mode' = mode /\ job' = job /\ mode # "down"
  BY DEF Mutate, Working, InService
<1>2. seq \in Nat /\ SnapshotSeq \in Nat \cup {None}
      /\ (job # None => job.seq \in Nat)
  BY SnapshotType DEF TInv, TypeOK
<1>3. ASSUME UNCHANGED <<disk, seq, status>> PROVE LogInv'
  BY <1>1, <1>3
     DEF disk, LogInv, Appendable, Working, InService, SnapshotSeq
<1>4. CASE Logged(r)
  <2>1. /\ status # "corrupt" /\ seq' = seq + 1 /\ snapshot' = snapshot
        /\ file' = Written(file, NewRecord(r.cache), TRUE)
    BY <1>4 DEF Logged, Writable
  <2>2. r.cache \in GoodCache /\ Appendable
    BY <1>1, <2>1 DEF Outcomes, Advanced, LogInv
  <2>3. EndsWell(file') /\ Appendable'
    BY <2>1, <2>2, LogsWhole DEF Appendable
  <2>4. SnapshotSeq' = SnapshotSeq
    BY <2>1 DEF SnapshotSeq
  <2>5. SnapshotSeq = None \/ SnapshotSeq <= seq'
    BY <1>2, <2>1 DEF LogInv
  <2>6. job # None => job.seq <= seq'
    BY <1>2, <2>1 DEF LogInv
  <2>7. QED
    BY <1>1, <2>3, <2>4, <2>5, <2>6 DEF LogInv, Working, InService
<1>5. ASSUME NEW tear \in Tear, AppendFails(r, tear) PROVE LogInv'
  <2>1. EndsWell(file')
    BY <1>1, <1>5, CutEndsWell DEF AppendFails
  <2>2. status' = "corrupt" /\ seq' = seq /\ snapshot' = snapshot
    BY <1>5 DEF AppendFails, Cut
  <2>3. SnapshotSeq' = SnapshotSeq
    BY <2>2 DEF SnapshotSeq
  <2>4. QED
    BY <1>1, <2>1, <2>2, <2>3 DEF LogInv, Working, InService
<1>6. QED
  BY <1>3, <1>4, <1>5 DEF Mutate, Unlogged, Refused

LEMMA GoneKeepsLog ==
  ASSUME Gone, EndsWell(file')
  PROVE  LogInv'
BY DEF Gone, LogInv, Working, InService

LEMMA LogStep == TearsShow /\ TInv /\ LogInv /\ Next => LogInv'
<1> SUFFICES ASSUME TearsShow, TInv, LogInv, Next PROVE LogInv'
  OBVIOUS
<1> USE DEF disk
<1>1. TypeOK /\ file \in LogFile /\ seq \in Nat /\ EndsWell(file)
  BY DEF TInv, TypeOK, LogInv
<1>2. SnapshotSeq \in Nat \cup {None} /\ None \notin Nat
  BY <1>1, SnapshotType, NoneIsNoNumber
<1>3. job # None =>
        job \in [step : {"writing", "renamed"}, entries : ImageEntries, seq : Nat]
  BY <1>1 DEF TypeOK
<1>4. ASSUME UNCHANGED <<disk, seq, status, mode, job>> PROVE LogInv'
  BY <1>4 DEF LogInv, Appendable, Working, InService, SnapshotSeq
<1>5. CASE Open
  <2>1. /\ Scan("clean") /\ mode' = "open" /\ job' = job
        /\ seq' = LastSequence(GoodLines(file))
    BY <1>5 DEF Open
  <2>2. job = None
    BY <1>5 DEF Open, LogInv, Working, InService
  <2>3. /\ EndsWell(file')
        /\ status' # "corrupt" => AllRead(file') /\ file'.lines = GoodLines(file)
    BY <1>1, <2>1, ScanReads
  <2>4. NumberedUpTo(GoodLines(file), seq')
    BY <1>1, <2>1, GoodLinesRead, LastSequenceBounds
  <2>5. QED
    BY <2>1, <2>2, <2>3, <2>4 DEF LogInv, Appendable, Working, InService
<1>6. CASE LoadAtStart
  <2>1. mode = "open" /\ mode' = "loaded" /\ UNCHANGED <<disk, seq, status, job>>
    BY <1>6 DEF LoadAtStart
  <2>2. QED
    BY <2>1 DEF LogInv, Appendable, Working, InService
<1>7. CASE ReplayAtStart
  <2>1. PICK r : r = Replay(cache, GoodLines(file), SnapshotSeq)
    OBVIOUS
  <2>2. /\ mode = "loaded" /\ mode' = "up"
        /\ IF r.ok THEN Scan(status) ELSE status' = "corrupt" /\ file' = file
        /\ seq' = IF SnapshotSeq = None THEN seq ELSE Max({seq, SnapshotSeq})
        /\ snapshot' = snapshot /\ job' = job
    BY <1>7, <2>1, Zenon DEF ReplayAtStart
  <2>3. job = None
    BY <2>2 DEF LogInv, Working, InService
  <2>4. SnapshotSeq' = SnapshotSeq
    BY <2>2 DEF SnapshotSeq
  <2>5. seq' \in Nat /\ seq <= seq' /\ (SnapshotSeq = None \/ SnapshotSeq <= seq')
    BY <1>1, <1>2, <2>2, MaxOfTwo
  <2>6. EndsWell(file')
    BY <1>1, <2>2, ScanReads DEF TypeOK
  <2>7. ASSUME status' # "corrupt" PROVE Appendable'
    <3>1. Scan(status) /\ status # "corrupt"
      BY <2>2, <2>7 DEF Scan
    <3>2. AllRead(file) /\ NumberedUpTo(file.lines, seq)
      BY <2>2, <3>1 DEF LogInv, Appendable
    <3>3. AllRead(file') /\ file'.lines = GoodLines(file)
      BY <1>1, <2>7, <3>1, ScanReads DEF TypeOK
    <3>4. file'.lines = file.lines
      BY <1>1, <3>2, <3>3, GoodLinesRead
    <3>5. NumberedUpTo(file.lines, seq')
      <4>1. \A i \in 1 .. Len(file.lines) :
              NumberOf(file.lines[i]) \in Nat \cup {None}
        BY <1>1, LineType DEF LogFile
      <4>2. QED
        BY <1>1, <2>5, <3>2, <4>1 DEF NumberedUpTo
    <3>6. QED
      BY <3>3, <3>4, <3>5 DEF Appendable
  <2>8. QED
    BY <2>2, <2>3, <2>4, <2>5, <2>6, <2>7 DEF LogInv, Working, InService
<1>8. CASE StartFails
  <2>1. mode = "loaded" /\ mode' = "open" /\ UNCHANGED <<disk, seq, status, job>>
    BY <1>8 DEF StartFails
  <2>2. QED
    BY <2>1 DEF LogInv, Appendable, Working, InService
<1>9. CASE Close
  <2>1. mode = "up" /\ mode' = "closing" /\ UNCHANGED <<disk, seq, status, job>>
    BY <1>9 DEF Close
  <2>2. QED
    BY <2>1 DEF LogInv, Appendable, Working, InService, SnapshotSeq
<1>10. CASE Crash
  BY <1>1, <1>10, GoneKeepsLog DEF Crash
<1>11. CASE Tick \/ SweepExpired
  BY <1>4, <1>11 DEF Tick, SweepExpired, Quiet
<1>12. ASSUME NEW command \in Command, Write(command) PROVE LogInv'
  BY <1>12, RunAdvances, MutateKeepsLog DEF Write, Working
<1>13. ASSUME NEW command \in Command, NEW tear \in Tear,
              CrashInWrite(command, tear)
       PROVE  LogInv'
  <2>1. PICK r : r = Run(command)
    OBVIOUS
  <2>2. Cut(r, tear) /\ Gone /\ mode # "down"
    BY <1>13, <2>1 DEF CrashInWrite, InService
  <2>3. r \in Outcomes(cache)
    BY <2>1, RunAdvances
  <2>4. QED
    BY <2>2, <2>3, CutEndsWell, GoneKeepsLog
<1>14. ASSUME NEW k \in Key, Read(k) PROVE LogInv'
  BY <1>4, <1>14 DEF Read, Quiet
<1>15. CASE SaveBegins
  <2>1. Working /\ job'.seq = seq /\ job'.step = "writing"
        /\ UNCHANGED <<disk, seq, status, mode>>
    BY <1>15 DEF SaveBegins
  <2>2. QED
    BY <1>1, <2>1 DEF LogInv, Appendable, Working, InService, SnapshotSeq
<1>16. CASE SaveFails
  <2>1. job' = None /\ UNCHANGED <<disk, seq, status, mode>>
    BY <1>16 DEF SaveFails
  <2>2. QED
    BY <2>1 DEF LogInv, Appendable, Working, InService, SnapshotSeq
<1>17. CASE SaveRenames
  <2>1. /\ job # None /\ snapshot' = [entries |-> job.entries, seq |-> job.seq]
        /\ job' = [job EXCEPT !.step = "renamed"]
        /\ UNCHANGED <<file, seq, status, mode>>
    BY <1>17 DEF SaveRenames
  <2>2. job'.seq = job.seq /\ job'.step = "renamed" /\ job.seq <= seq /\ Working
    BY <1>3, <2>1 DEF LogInv
  <2>3. SnapshotSeq' \in {None, job.seq}
    BY <2>1 DEF SnapshotSeq
  <2>4. QED
    BY <2>1, <2>2, <2>3 DEF LogInv, Appendable, Working, InService
<1>18. CASE SaveRotates
  <2>1. job # None /\ job.step = "renamed"
        /\ job' = None /\ UNCHANGED <<snapshot, status, mode>>
    BY <1>18 DEF SaveRotates
  <2>2. CASE status = "corrupt" /\ UNCHANGED <<file, seq>>
    BY <2>1, <2>2 DEF LogInv, Working, InService, SnapshotSeq
  <2>3. CASE /\ status # "corrupt"
             /\ file' = [lines |-> Newer(GoodLines(file), job.seq),
                         ended |-> TRUE]
             /\ seq' = Max({job.seq, LastSequence(file'.lines)})
    <3>1. job.seq \in Nat /\ SnapshotSeq \in {None, job.seq}
      BY <1>3, <2>1 DEF LogInv
    <3>2. PICK new : new = Newer(GoodLines(file), job.seq)
      OBVIOUS
    <3>3. new \in Seq(Line) /\ ReadThrough(new)
      BY <1>1, <3>2, GoodLinesRead, NewerReads
    <3>4. file' \in LogFile /\ file'.lines = new /\ file'.ended
      BY <2>3, <3>2, <3>3 DEF LogFile
    <3>5. AllRead(file') /\ EndsWell(file')
      BY <3>3, <3>4, AllReadIsReadThrough DEF EndsWell
    <3>6. LastSequence(new) \in Nat /\ NumberedUpTo(new, LastSequence(new))
      BY <3>3, LastSequenceBounds
    <3>7. seq' \in Nat /\ job.seq <= seq' /\ LastSequence(new) <= seq'
      BY <2>3, <3>1, <3>4, <3>6, MaxOfTwo
    <3>8. NumberedUpTo(new, seq')
      <4>1. \A i \in 1 .. Len(new) : NumberOf(new[i]) \in Nat \cup {None}
        BY <3>3, LineType
      <4>2. QED
        BY <3>6, <3>7, <4>1 DEF NumberedUpTo
    <3>9. SnapshotSeq' = SnapshotSeq
      BY <2>1 DEF SnapshotSeq
    <3>10. QED
      BY <2>1, <3>1, <3>4, <3>5, <3>7, <3>8, <3>9
         DEF LogInv, Appendable, Working, InService
  <2>4. QED
    BY <1>18, <2>2, <2>3 DEF SaveRotates
<1>19. CASE Load
  <2>1. Replace(cache, snapshot.entries) \in Outcomes(cache)
    BY <1>1, <1>19, SnapshotType, ReplaceAdvances DEF Load, TInv
  <2>2. QED
    BY <1>19, <2>1, MutateKeepsLog DEF Load
<1>20. QED
  BY <1>5, <1>6, <1>7, <1>8, <1>9, <1>10, <1>11, <1>12, <1>13, <1>14, <1>15,
     <1>16, <1>17, <1>18, <1>19 DEF Next

LEMMA LogInit == TearsShow /\ Init => LogInv
BY DEF TearsShow, Init, LogInv, Working, InService

(* The log grows by a whole line only when a mutation is logged.           *)
GrowsWhole == Len(file'.lines) > Len(file.lines) /\ file'.ended

LEMMA MutateGrows ==
  ASSUME TearsShow, TInv, LogInv, Working, NEW r \in Outcomes(cache), Mutate(r)
  PROVE  /\ GrowsWhole =>
              /\ SnapshotSeq = None \/ SnapshotSeq < Last(file'.lines).seq
              /\ Readable(file'.lines, Len(file'.lines))
         /\ ~ AllRead(file) => file' = file
<1>1. seq \in Nat /\ SnapshotSeq \in Nat \cup {None} /\ mode # "down"
      /\ Len(file.lines) \in Nat
  BY SnapshotType DEF TInv, TypeOK, Working, InService, LogFile
<1>2. CASE file' = file
  BY <1>1, <1>2 DEF GrowsWhole
<1>3. CASE Logged(r)
  <2>1. /\ status # "corrupt"
        /\ file' = Written(file, NewRecord(r.cache), TRUE)
    BY <1>3 DEF Logged, Writable
  <2>2. r.cache \in GoodCache /\ Appendable
    BY <1>1, <2>1 DEF Outcomes, Advanced, LogInv
  <2>3. /\ Last(file'.lines).seq = seq + 1
        /\ Readable(file'.lines, Len(file'.lines))
    BY <2>1, <2>2, LogsWhole
  <2>4. SnapshotSeq = None \/ SnapshotSeq < seq + 1
    BY <1>1 DEF LogInv
  <2>5. QED
    BY <2>2, <2>3, <2>4 DEF Appendable
<1>4. ASSUME NEW tear \in Tear, AppendFails(r, tear)
      PROVE  /\ file' = file \/ ~ file'.ended
             /\ AllRead(file)
  BY <1>1, <1>4, CutEndsWell DEF AppendFails, Cut, Writable, LogInv, Appendable
<1>5. QED
  BY <1>2, <1>3, <1>4 DEF Mutate, Unlogged, Refused, disk, GrowsWhole

LEMMA ShorterDoesNotGrow ==
  ASSUME file \in LogFile, file' \in LogFile,
         Len(file'.lines) <= Len(file.lines)
  PROVE  ~ GrowsWhole
BY DEF GrowsWhole, LogFile

(* What a step does to the log, and that it does nothing to a corrupt one. *)
LEMMA LogChanges ==
  ASSUME TearsShow, TInv, LogInv, Next, TInv'
  PROVE  /\ GrowsWhole =>
              /\ SnapshotSeq = None \/ SnapshotSeq < Last(file'.lines).seq
              /\ Readable(file'.lines, Len(file'.lines))
         /\ ~ AllRead(file) /\ ~ TornTail(file) => file' = file
<1> USE DEF disk
<1>1. /\ TypeOK /\ file \in LogFile /\ file' \in LogFile /\ EndsWell(file)
      /\ status \in {"clean", "torn-tail", "corrupt"}
  BY DEF TInv, TypeOK, LogInv
<1>2. Len(file.lines) \in Nat
  BY <1>1 DEF LogFile
<1>3. CASE file' = file
  BY <1>1, <1>2, <1>3, ShorterDoesNotGrow
<1>4. ASSUME NEW before \in {"clean", "torn-tail", "corrupt"}, Scan(before)
      PROVE  ~ GrowsWhole /\ (~ AllRead(file) /\ ~ TornTail(file) => file' = file)
  BY <1>1, <1>4, ScanReads, ShorterDoesNotGrow
<1>5. CASE Open
  BY <1>4, <1>5 DEF Open
<1>6. CASE ReplayAtStart
  <2>1. PICK r : r = Replay(cache, GoodLines(file), SnapshotSeq)
    OBVIOUS
  <2>2. Scan(status) \/ file' = file
    BY <1>6, <2>1, Zenon DEF ReplayAtStart
  <2>3. QED
    BY <1>1, <1>3, <1>4, <2>2
<1>7. CASE LoadAtStart \/ StartFails \/ Close \/ Crash \/ Tick
  BY <1>3, <1>7 DEF LoadAtStart, StartFails, Close, Crash, Tick
<1>8. CASE SweepExpired
  BY <1>3, <1>8 DEF SweepExpired, Quiet
<1>9. ASSUME NEW command \in Command, Write(command)
      PROVE  /\ GrowsWhole =>
                  /\ SnapshotSeq = None \/ SnapshotSeq < Last(file'.lines).seq
                  /\ Readable(file'.lines, Len(file'.lines))
             /\ ~ AllRead(file) => file' = file
  BY <1>9, RunAdvances, MutateGrows DEF Write, Working
<1>10. ASSUME NEW command \in Command, NEW tear \in Tear,
              CrashInWrite(command, tear)
       PROVE  ~ GrowsWhole /\ (~ AllRead(file) => file' = file)
  <2>1. PICK r : r = Run(command)
    OBVIOUS
  <2>2. Cut(r, tear) /\ mode # "down" /\ r \in Outcomes(cache)
    BY <1>10, <2>1, RunAdvances DEF CrashInWrite, InService
  <2>3. file' = file \/ ~ file'.ended
    BY <2>2, CutEndsWell
  <2>4. AllRead(file)
    BY <2>2 DEF Cut, Writable, LogInv, Appendable
  <2>5. QED
    BY <1>2, <2>3, <2>4 DEF GrowsWhole
<1>11. ASSUME NEW k \in Key, Read(k) PROVE file' = file
  BY <1>11 DEF Read, Quiet
<1>12. CASE SaveBegins \/ SaveFails \/ SaveRenames
  BY <1>3, <1>12 DEF SaveBegins, SaveFails, SaveRenames
<1>13. CASE SaveRotates
  <2>1. CASE /\ status # "corrupt"
             /\ file' = [lines |-> Newer(GoodLines(file), job.seq),
                         ended |-> TRUE]
    <3>1. job # None /\ mode # "down"
      BY <1>13 DEF SaveRotates, LogInv, Working, InService
    <3>2. AllRead(file)
      BY <2>1, <3>1 DEF LogInv, Appendable
    <3>3. /\ GoodLines(file) \in Seq(Line) /\ ReadThrough(GoodLines(file))
          /\ GoodLines(file) = file.lines
      BY <1>1, <3>2, GoodLinesRead
    <3>4. Len(file'.lines) <= Len(file.lines)
      BY <2>1, <3>3, NewerReads
    <3>5. QED
      BY <1>1, <3>2, <3>4, ShorterDoesNotGrow
  <2>2. QED
    BY <1>3, <1>13, <2>1 DEF SaveRotates
<1>14. CASE Load
  <2>1. Replace(cache, snapshot.entries) \in Outcomes(cache)
    BY <1>1, <1>14, SnapshotType, ReplaceAdvances DEF Load, TInv
  <2>2. QED
    BY <1>14, <2>1, MutateGrows DEF Load
<1>15. QED
  BY <1>3, <1>5, <1>6, <1>7, <1>8, <1>9, <1>10, <1>11, <1>12, <1>13, <1>14
     DEF Next

-----------------------------------------------------------------------------
(* The theorems.                                                           *)

LEMMA StutterKeeps == UNCHANGED vars => (TInv => TInv') /\ (LogInv => LogInv')
BY DEF vars, disk, memory, TInv, TypeOK, LogInv, Appendable, Working,
       InService, SnapshotSeq

LEMMA TypesHold == Spec => []TInv
<1>1. TInv /\ [Next]_vars => TInv'
  BY TypeStep, StutterKeeps
<1>2. QED
  BY TypeInit, <1>1, PTL DEF Spec

LEMMA LogInvHolds ==
  ASSUME TearsShow
  PROVE  Spec => [](TInv /\ LogInv)
<1>1. Init => TInv /\ LogInv
  BY TypeInit, LogInit
<1>2. TInv /\ LogInv /\ [Next]_vars => (TInv /\ LogInv)'
  BY TypeStep, LogStep, StutterKeeps
<1>3. QED
  BY <1>1, <1>2, PTL DEF Spec

(* The files and the fields keep their shape, whatever was written by      *)
(* older versions and wherever the process is killed: in particular every  *)
(* replay, of commands and of patches, ends with a cache.                  *)
THEOREM TypeCorrect == Spec => []TypeOK
<1>1. TInv => TypeOK
  BY DEF TInv
<1>2. QED
  BY <1>1, TypesHold, PTL

(* No record is given a number that the snapshot covers or that the log    *)
(* has already used, through restarts, saves and rotations, as long as an  *)
(* interrupted append shows.                                               *)
THEOREM NumbersStayNew ==
  ASSUME TearsShow
  PROVE  Spec => NumberedPastSnapshot
<1>1. TInv /\ LogInv /\ TInv' /\ [Next]_vars =>
        [GrowsWhole =>
           /\ SnapshotSeq = None \/ SnapshotSeq < Last(file'.lines).seq
           /\ Readable(file'.lines, Len(file'.lines))]_vars
  BY LogChanges
<1>2. QED
  BY <1>1, LogInvHolds, PTL DEF Spec, NumberedPastSnapshot, GrowsWhole

(* A log that cannot be read through is never written to, cut or rotated,  *)
(* as long as an interrupted append shows.                                 *)
THEOREM CorruptLogsStay ==
  ASSUME TearsShow
  PROVE  Spec => CorruptLogUntouched
<1>1. TInv /\ LogInv /\ TInv' /\ [Next]_vars =>
        [~ AllRead(file) /\ ~ TornTail(file) => UNCHANGED file]_vars
  BY LogChanges
<1>2. QED
  BY <1>1, LogInvHolds, PTL DEF Spec, CorruptLogUntouched

=============================================================================
