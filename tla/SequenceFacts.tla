--------------------------- MODULE SequenceFacts ---------------------------
(***************************************************************************)
(* Facts about numbers and sequences that the proofs use:                  *)
(* induction, what RemoveFirst of SequencesExt does, sequences that        *)
(* enumerate a set, and the order of their elements.                       *)
(***************************************************************************)
EXTENDS Integers, SequencesExt, SequenceTheorems, FiniteSetTheorems,
        WellFoundedInduction, TLAPS

(* A nonempty set of natural numbers has a least element.                  *)
LEMMA LeastNumber ==
  ASSUME NEW T \in SUBSET Nat, T # {}
  PROVE  \E m \in T : \A n \in T : ~ (n < m)
<1>1. \E m \in T : \A n \in T : ~ (<<n, m>> \in OpToRel(<, Nat))
  BY NatLessThanWellFounded, WFMin
<1>2. QED
  BY <1>1 DEF OpToRel

(* Induction, for a set in place of a predicate.                           *)
LEMMA SetInduction ==
  ASSUME NEW S, 0 \in S, \A n \in Nat : n \in S => n + 1 \in S
  PROVE  Nat \subseteq S
<1>1. SUFFICES ASSUME Nat \ S # {} PROVE FALSE
  OBVIOUS
<1>2. PICK m \in Nat \ S : \A n \in Nat \ S : ~ (n < m)
  BY <1>1, LeastNumber
<1>3. m - 1 \in Nat /\ m - 1 \in S
  BY <1>2
<1>4. QED
  BY <1>2, <1>3

(* Min, a choice, is an element of the set.                                *)
LEMMA MinIsElement ==
  ASSUME NEW T \in SUBSET Nat, T # {}
  PROVE  Min(T) \in T
<1>1. PICK m \in T : \A n \in T : ~ (n < m)
  BY LeastNumber
<1>2. \E x \in T : \A y \in T : x <= y
  BY <1>1
<1>3. QED
  BY <1>2, Zenon DEF Min

(* A sequence is a function on 1 .. Len.                                   *)
LEMMA SeqIsItsGraph ==
  ASSUME NEW S, NEW z \in Seq(S)
  PROVE  z = [i \in 1 .. Len(z) |-> z[i]]
<1>1. z \in [1 .. Len(z) -> S]
  BY ElementOfSeq
<1>2. QED
  BY <1>1

(* The sequence s without its element at position n.                       *)
ClosedAt(s, n) == [i \in 1 .. Len(s) - 1 |-> IF i < n THEN s[i] ELSE s[i + 1]]

LEMMA RemoveAtCloses ==
  ASSUME NEW S, NEW s \in Seq(S), NEW n \in 1 .. Len(s)
  PROVE  RemoveAt(s, n) = ClosedAt(s, n)
<1>1. PICK x : x = SubSeq(s, 1, n - 1)
  OBVIOUS
<1>2. PICK y : y = SubSeq(s, n + 1, Len(s))
  OBVIOUS
<1>3. PICK z : z = x \o y
  OBVIOUS
<1>4. /\ x \in Seq(S) /\ Len(x) = n - 1
      /\ \A i \in 1 .. n - 1 : x[i] = s[i]
  BY <1>1
<1>5. /\ y \in Seq(S) /\ Len(y) = Len(s) - n
      /\ \A i \in 1 .. Len(s) - n : y[i] = s[n + i]
  BY <1>2
<1>6. /\ z \in Seq(S) /\ Len(z) = Len(s) - 1
      /\ \A i \in 1 .. Len(s) - 1 :
           z[i] = IF i <= n - 1 THEN x[i] ELSE y[i - (n - 1)]
  <2>1. x \in Seq(S) /\ y \in Seq(S)
    BY <1>4, <1>5
  <2>2. /\ z \in Seq(S) /\ Len(z) = Len(x) + Len(y)
        /\ \A i \in 1 .. Len(x) + Len(y) :
             z[i] = IF i <= Len(x) THEN x[i] ELSE y[i - Len(x)]
    BY <2>1, <1>3, ConcatProperties, Zenon
  <2>3. Len(x) = n - 1 /\ Len(x) + Len(y) = Len(s) - 1
    BY <1>4, <1>5
  <2>4. QED
    BY <2>2, <2>3
<1>7. ASSUME NEW i \in 1 .. Len(s) - 1
      PROVE  z[i] = IF i < n THEN s[i] ELSE s[i + 1]
  <2>1. CASE i < n
    BY <2>1, <1>4, <1>6
  <2>2. CASE i >= n
    <3>1. i - (n - 1) \in 1 .. Len(s) - n /\ z[i] = y[i - (n - 1)]
      BY <2>2, <1>6, SMTT(30)
    <3>2. y[i - (n - 1)] = s[n + (i - (n - 1))]
      BY <3>1, <1>5
    <3>3. n + (i - (n - 1)) = i + 1
      OBVIOUS
    <3>4. QED
      BY <3>1, <3>2, <3>3, <2>2
  <2>3. QED
    BY <2>1, <2>2
<1>8. z = [i \in 1 .. Len(s) - 1 |-> z[i]]
  BY <1>6, SeqIsItsGraph
<1>9. QED
  BY <1>1, <1>2, <1>3, <1>7, <1>8 DEF RemoveAt, ClosedAt

(* RemoveFirst leaves s alone or removes one position of e.                *)
LEMMA RemoveFirstCloses ==
  ASSUME NEW S, NEW s \in Seq(S), NEW e
  PROVE  IF \E i \in 1 .. Len(s) : s[i] = e
         THEN \E n \in 1 .. Len(s) :
                s[n] = e /\ RemoveFirst(s, e) = ClosedAt(s, n)
         ELSE RemoveFirst(s, e) = s
<1>1. ASSUME \E i \in 1 .. Len(s) : s[i] = e
      PROVE  \E n \in 1 .. Len(s) :
               s[n] = e /\ RemoveFirst(s, e) = ClosedAt(s, n)
  <2>1. PICK I : I = {i \in 1 .. Len(s) : s[i] = e}
    OBVIOUS
  <2>2. I \in SUBSET Nat /\ I # {}
    BY <1>1, <2>1
  <2>3. PICK n : n = Min(I)
    OBVIOUS
  <2>4. n \in I
    BY <2>2, <2>3, MinIsElement
  <2>5. RemoveFirst(s, e) = RemoveAt(s, n)
    BY <2>1, <2>2, <2>3, Zenon DEF RemoveFirst, SelectInSeq
  <2>6. n \in 1 .. Len(s) /\ s[n] = e
    BY <2>1, <2>4
  <2>7. QED
    BY <2>5, <2>6, RemoveAtCloses
<1>2. ASSUME ~ \E i \in 1 .. Len(s) : s[i] = e
      PROVE  RemoveFirst(s, e) = s
  BY <1>2, Zenon DEF RemoveFirst
<1>3. QED
  BY <1>1, <1>2

(* It yields a sequence and loses no other element.                        *)
LEMMA RemoveFirstKeeps ==
  ASSUME NEW S, NEW s \in Seq(S), NEW e
  PROVE  /\ RemoveFirst(s, e) \in Seq(S)
         /\ \A i \in DOMAIN s : s[i] # e =>
              \E j \in DOMAIN RemoveFirst(s, e) : RemoveFirst(s, e)[j] = s[i]
<1>1. CASE RemoveFirst(s, e) = s
  BY <1>1
<1>2. ASSUME NEW n \in 1 .. Len(s),
             s[n] = e, RemoveFirst(s, e) = ClosedAt(s, n)
      PROVE  /\ RemoveFirst(s, e) \in Seq(S)
             /\ \A i \in DOMAIN s : s[i] # e =>
                  \E j \in DOMAIN RemoveFirst(s, e) :
                    RemoveFirst(s, e)[j] = s[i]
  <2>1. PICK r : r = ClosedAt(s, n)
    OBVIOUS
  <2>2. Len(s) - 1 \in Nat
    OBVIOUS
  <2>3. r \in Seq(S)
    BY <2>1, <2>2 DEF ClosedAt
  <2>4. ASSUME NEW i \in DOMAIN s, s[i] # e
        PROVE  \E j \in DOMAIN r : r[j] = s[i]
    <3>1. CASE i < n
      BY <3>1, <2>1, <2>4 DEF ClosedAt
    <3>2. CASE n < i
      <4>1. i - 1 \in DOMAIN r /\ r[i - 1] = s[i]
        BY <3>2, <2>1, <2>4 DEF ClosedAt
      <4>2. QED
        BY <4>1
    <3>3. QED
      BY <3>1, <3>2, <1>2, <2>4
  <2>5. QED
    BY <1>2, <2>1, <2>3, <2>4
<1>3. QED
  BY <1>1, <1>2, RemoveFirstCloses

-----------------------------------------------------------------------------
(* Sequences without repetition.                                           *)

Enumerates(seq, S) == IsInjective(seq) /\ ToSet(seq) = S

LEMMA InToSet ==
  ASSUME NEW S, NEW s \in Seq(S)
  PROVE  /\ ToSet(s) \subseteq S
         /\ \A e : e \in ToSet(s) <=> \E i \in 1 .. Len(s) : s[i] = e
<1>1. DOMAIN s = 1 .. Len(s) /\ \A i \in 1 .. Len(s) : s[i] \in S
  OBVIOUS
<1>2. ToSet(s) = {s[i] : i \in 1 .. Len(s)}
  BY <1>1, Zenon DEF ToSet
<1>3. QED
  BY <1>1, <1>2

LEMMA RangeFacts ==
  ASSUME NEW S, NEW s \in Seq(S)
  PROVE  /\ Range(s) = ToSet(s) /\ Range(s) \subseteq S
         /\ \A e : e \in Range(s) <=> \E i \in 1 .. Len(s) : s[i] = e
<1>1. Range(s) = ToSet(s)
  BY Zenon DEF Range, ToSet
<1>2. /\ ToSet(s) \subseteq S
      /\ \A e : e \in ToSet(s) <=> \E i \in 1 .. Len(s) : s[i] = e
  BY InToSet
<1>3. QED
  BY <1>1, <1>2, Zenon

LEMMA InjectiveElements ==
  ASSUME NEW S, NEW s \in Seq(S)
  PROVE  IsInjective(s) <=>
           \A i, j \in 1 .. Len(s) : s[i] = s[j] => i = j
BY DEF IsInjective

(* A new element at the end.                                               *)
LEMMA AppendEnumerates ==
  ASSUME NEW S, NEW T, NEW s \in Seq(S), NEW e \in S,
         Enumerates(s, T), e \notin T
  PROVE  Append(s, e) \in Seq(S) /\ Enumerates(Append(s, e), T \cup {e})
<1>1. PICK a : a = Append(s, e)
  OBVIOUS
<1>2. PICK n \in Nat : n = Len(s)
  OBVIOUS
<1>3. /\ a \in Seq(S) /\ Len(a) = n + 1 /\ a[n + 1] = e
      /\ \A i \in 1 .. n : a[i] = s[i]
  BY <1>1, <1>2
<1>4. \A i \in 1 .. n : s[i] # e
  BY <1>2, InToSet DEF Enumerates
<1>5. \A i, j \in 1 .. n : s[i] = s[j] => i = j
  BY <1>2, InjectiveElements DEF Enumerates
<1>6. \A i \in 1 .. n + 1 : i \in 1 .. n \/ i = n + 1
  OBVIOUS
<1>7. IsInjective(a)
  <2>1. \A i, j \in 1 .. n + 1 : a[i] = a[j] => i = j
    BY <1>3, <1>4, <1>5, <1>6
  <2>2. QED
    BY <1>3, <2>1, InjectiveElements
<1>8. ASSUME NEW x
      PROVE  x \in ToSet(a) <=> x \in T \cup {e}
  <2>1. x \in ToSet(a) <=> \E i \in 1 .. n + 1 : a[i] = x
    BY <1>3, InToSet
  <2>2. x \in T <=> \E i \in 1 .. n : s[i] = x
    BY <1>2, InToSet DEF Enumerates
  <2>3. n + 1 \in 1 .. n + 1 /\ 1 .. n \subseteq 1 .. n + 1
    BY <1>2
  <2>4. QED
    BY <2>1, <2>2, <2>3, <1>3, <1>6
<1>9. QED
  BY <1>1, <1>3, <1>7, <1>8 DEF Enumerates

(* An element less.                                                        *)
LEMMA RemoveFirstEnumerates ==
  ASSUME NEW S, NEW T, NEW s \in Seq(S), NEW e \in T, Enumerates(s, T)
  PROVE  /\ RemoveFirst(s, e) \in Seq(S)
         /\ Enumerates(RemoveFirst(s, e), T \ {e})
         /\ Len(RemoveFirst(s, e)) = Len(s) - 1
<1>1. PICK n \in 1 .. Len(s) : s[n] = e /\ RemoveFirst(s, e) = ClosedAt(s, n)
  <2>1. \E i \in 1 .. Len(s) : s[i] = e
    BY InToSet DEF Enumerates
  <2>2. QED
    BY <2>1, RemoveFirstCloses
<1>2. PICK m \in Nat : m = Len(s) - 1
  <2>1. Len(s) \in Nat /\ n \in 1 .. Len(s)
    OBVIOUS
  <2>2. Len(s) - 1 \in Nat
    BY <2>1
  <2>3. QED
    BY <2>2
<1>3. PICK r : r = ClosedAt(s, n)
  OBVIOUS
<1>4. /\ r = [i \in 1 .. m |-> IF i < n THEN s[i] ELSE s[i + 1]]
      /\ n \in 1 .. m + 1 /\ Len(s) = m + 1
  BY <1>2, <1>3 DEF ClosedAt
<1>5. /\ r \in Seq(S) /\ Len(r) = m
      /\ \A i \in 1 .. m : r[i] = IF i < n THEN s[i] ELSE s[i + 1]
  BY <1>4
<1>6. \A i, j \in 1 .. m + 1 : s[i] = s[j] => i = j
  BY <1>4, InjectiveElements DEF Enumerates
<1>7. IsInjective(r)
  <2>1. SUFFICES ASSUME NEW i \in 1 .. m, NEW j \in 1 .. m, r[i] = r[j]
                 PROVE  i = j
    BY <1>5, InjectiveElements
  <2>2. CASE i < n /\ j < n
    BY <2>1, <2>2, <1>5, <1>6
  <2>3. CASE i < n /\ ~ (j < n)
    <3>1. s[i] = s[j + 1] /\ j + 1 \in 1 .. m + 1 /\ i \in 1 .. m + 1
      BY <2>1, <2>3, <1>5
    <3>2. i = j + 1
      BY <3>1, <1>6
    <3>3. QED
      BY <3>2, <2>3
  <2>4. CASE ~ (i < n) /\ j < n
    <3>1. s[i + 1] = s[j] /\ i + 1 \in 1 .. m + 1 /\ j \in 1 .. m + 1
      BY <2>1, <2>4, <1>5
    <3>2. i + 1 = j
      BY <3>1, <1>6
    <3>3. QED
      BY <3>2, <2>4
  <2>5. CASE ~ (i < n) /\ ~ (j < n)
    <3>1. s[i + 1] = s[j + 1] /\ i + 1 \in 1 .. m + 1 /\ j + 1 \in 1 .. m + 1
      BY <2>1, <2>5, <1>5
    <3>2. i + 1 = j + 1
      BY <3>1, <1>6
    <3>3. QED
      BY <3>2
  <2>6. QED
    BY <2>2, <2>3, <2>4, <2>5
<1>8. ASSUME NEW x
      PROVE  x \in ToSet(r) <=> x \in T \ {e}
  <2>1. x \in ToSet(r) <=> \E i \in 1 .. m : r[i] = x
    BY <1>5, InToSet
  <2>2. x \in T <=> \E i \in 1 .. m + 1 : s[i] = x
    BY <1>4, InToSet DEF Enumerates
  <2>3. ASSUME NEW i \in 1 .. m PROVE r[i] \in T \ {e}
    <3>1. PICK j \in 1 .. m + 1 : j # n /\ r[i] = s[j]
      <4>1. CASE i < n
        BY <4>1, <1>5
      <4>2. CASE ~ (i < n)
        <5>1. i + 1 \in 1 .. m + 1 /\ i + 1 # n /\ r[i] = s[i + 1]
          BY <4>2, <1>4, <1>5
        <5>2. QED
          BY <5>1
      <4>3. QED
        BY <4>1, <4>2
    <3>2. s[j] # e
      BY <3>1, <1>1, <1>4, <1>6
    <3>3. s[j] \in T
      BY <1>4, InToSet DEF Enumerates
    <3>4. QED
      BY <3>1, <3>2, <3>3
  <2>4. ASSUME NEW j \in 1 .. m + 1, s[j] # e
        PROVE  \E i \in 1 .. m : r[i] = s[j]
    <3>1. CASE j < n
      <4>1. j \in 1 .. m /\ r[j] = s[j]
        BY <3>1, <1>4, <1>5
      <4>2. QED
        BY <4>1
    <3>2. CASE n < j
      <4>1. j - 1 \in 1 .. m /\ ~ (j - 1 < n) /\ (j - 1) + 1 = j
        BY <3>2, <1>4
      <4>2. r[j - 1] = s[j]
        BY <4>1, <1>5
      <4>3. QED
        BY <4>1, <4>2
    <3>3. j # n
      BY <2>4, <1>1
    <3>4. QED
      BY <3>1, <3>2, <3>3, <1>4
  <2>5. QED
    BY <2>1, <2>2, <2>3, <2>4
<1>9. QED
  BY <1>1, <1>2, <1>3, <1>5, <1>7, <1>8 DEF Enumerates

LEMMA CardinalityOfInterval ==
  \A k \in Nat : IsFiniteSet(1 .. k) /\ Cardinality(1 .. k) = k
<1>1. SUFFICES ASSUME NEW k \in Nat
               PROVE  IsFiniteSet(1 .. k) /\ Cardinality(1 .. k) = k
  OBVIOUS
<1>2. 1 \in Int /\ k \in Int
  OBVIOUS
<1>3. /\ IsFiniteSet(1 .. k)
      /\ Cardinality(1 .. k) = IF 1 > k THEN 0 ELSE k - 1 + 1
  BY <1>2, FS_Interval, Zenon
<1>4. QED
  BY <1>3

(* A sequence that enumerates a part is no longer.                         *)
LEMMA ShorterEnumerates ==
  ASSUME NEW S, NEW s \in Seq(S), NEW t \in Seq(S),
         IsInjective(s), ToSet(s) \subseteq ToSet(t)
  PROVE  Len(s) <= Len(t)
<1>1. PICK m \in Nat : m = Len(s)
  OBVIOUS
<1>2. PICK n \in Nat : n = Len(t)
  OBVIOUS
<1>3. PICK f : f = [i \in 1 .. m |-> CHOOSE j \in 1 .. n : t[j] = s[i]]
  OBVIOUS
<1>4. ASSUME NEW i \in 1 .. m
      PROVE  f[i] \in 1 .. n /\ t[f[i]] = s[i]
  <2>1. s[i] \in ToSet(t)
    BY <1>1, InToSet
  <2>2. \E j \in 1 .. n : t[j] = s[i]
    BY <1>2, <2>1, InToSet
  <2>3. f[i] = CHOOSE j \in 1 .. n : t[j] = s[i]
    BY <1>3
  <2>4. QED
    BY <2>2, <2>3
<1>5. f \in [1 .. m -> 1 .. n]
  BY <1>3, <1>4
<1>6. \A i, j \in 1 .. m : s[i] = s[j] => i = j
  BY <1>1, InjectiveElements
<1>7. \A i, j \in 1 .. m : f[i] = f[j] => i = j
  BY <1>4, <1>6
<1>8. f \in Injection(1 .. m, 1 .. n)
  <2>1. DOMAIN f = 1 .. m
    BY <1>3
  <2>2. IsInjective(f)
    BY <2>1, <1>7, Zenon DEF IsInjective
  <2>3. QED
    BY <2>2, <1>5, Zenon DEF Injection
<1>9. /\ IsFiniteSet(1 .. n)
      /\ Cardinality(1 .. m) = m /\ Cardinality(1 .. n) = n
  BY CardinalityOfInterval, Zenon
<1>10. Cardinality(1 .. m) <= Cardinality(1 .. n)
  BY <1>8, <1>9, FS_Injection
<1>11. QED
  BY <1>1, <1>2, <1>9, <1>10

(* What a sequence enumerates is finite, and empty if the sequence is.     *)
LEMMA EnumeratedIsFinite ==
  ASSUME NEW S, NEW s \in Seq(S)
  PROVE  IsFiniteSet(ToSet(s)) /\ (ToSet(s) = {} <=> Len(s) = 0)
<1>1. PICK n \in Nat : n = Len(s)
  OBVIOUS
<1>2. s \in Surjection(1 .. n, ToSet(s))
  <2>1. s \in [1 .. n -> ToSet(s)]
    BY <1>1, InToSet, ElementOfSeq
  <2>2. \A e \in ToSet(s) : \E i \in 1 .. n : s[i] = e
    BY <1>1, InToSet
  <2>3. QED
    BY <2>1, <2>2 DEF Surjection
<1>3. IsFiniteSet(1 .. n)
  BY FS_Interval
<1>4. IsFiniteSet(ToSet(s))
  BY <1>2, <1>3, FS_Surjection
<1>5. ToSet(s) = {} <=> Len(s) = 0
  <2>1. Len(s) # 0 => s[1] \in ToSet(s)
    <3>1. Len(s) # 0 => 1 \in 1 .. Len(s)
      BY <1>1
    <3>2. QED
      BY <3>1, InToSet
  <2>2. ASSUME n = 0, NEW e \in ToSet(s) PROVE FALSE
    <3>1. \E i \in 1 .. n : s[i] = e
      BY <1>1, <2>2, InToSet, Zenon
    <3>2. QED
      BY <2>2, <3>1
  <2>3. QED
    BY <1>1, <2>1, <2>2
<1>6. QED
  BY <1>4, <1>5


(* One element of s has a place before that of another.                    *)
Before(s, a, b) ==
  \E i, j \in 1 .. Len(s) : i < j /\ s[i] = a /\ s[j] = b

(* Moving an element to the end leaves the others in their order.          *)
LEMMA MoveToEndKeepsOrder ==
  ASSUME NEW S, NEW s \in Seq(S), NEW e \in S,
         NEW t, t = Append(RemoveFirst(s, e), e),
         NEW i \in 1 .. Len(t), NEW j \in 1 .. Len(t), i < j,
         t[i] # e, t[j] # e
  PROVE  Before(s, t[i], t[j])
<1>1. PICK w : w = RemoveFirst(s, e)
  OBVIOUS
<1>2. w \in Seq(S) /\ t = Append(w, e)
  BY <1>1, RemoveFirstKeeps
<1>3. i \in 1 .. Len(w) /\ j \in 1 .. Len(w) /\ t[i] = w[i] /\ t[j] = w[j]
  BY <1>2, SMTT(30)
<1>4. CASE w = s
  BY <1>3, <1>4 DEF Before
<1>5. CASE \E n \in 1 .. Len(s) : w = ClosedAt(s, n)
  <2>1. PICK n \in 1 .. Len(s) : w = ClosedAt(s, n)
    BY <1>5
  <2>2. PICK z \in Nat : z = Len(s)
    OBVIOUS
  <2>3. w = [a \in 1 .. z - 1 |-> IF a < n THEN s[a] ELSE s[a + 1]]
    BY <2>1, <2>2 DEF ClosedAt
  <2>4. Len(w) = z - 1
    <3>1. z - 1 \in Nat /\ DOMAIN w = 1 .. z - 1
      BY <2>2, <2>3
    <3>2. QED
      BY <3>1, <1>2, SMTT(30)
  <2>5. PICK a \in 1 .. z : a = IF i < n THEN i ELSE i + 1
    BY <1>3, <2>2, <2>4
  <2>6. PICK b \in 1 .. z : b = IF j < n THEN j ELSE j + 1
    BY <1>3, <2>2, <2>4
  <2>7. a < b
    BY <2>5, <2>6
  <2>8. s[a] = w[i] /\ s[b] = w[j]
    BY <1>3, <2>3, <2>4, <2>5, <2>6
  <2>9. QED
    BY <1>3, <2>2, <2>7, <2>8 DEF Before
<1>6. QED
  BY <1>1, <1>4, <1>5, RemoveFirstCloses

=============================================================================
