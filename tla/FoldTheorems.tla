---------------------------- MODULE FoldTheorems ----------------------------
(***************************************************************************)
(* What holds of FoldLeft for every operator and every sequence.  The      *)
(* loops of the code are folds, so each invariant of a loop is proved with *)
(* FoldLeftInvariant, FoldLeftStages or FoldLeftRun.  Op takes a parameter *)
(* p that stays the same during the fold.                                  *)
(*                                                                         *)
(* FoldLeft is defined by a choice of a function over the subsets of       *)
(* 1 .. Len(seq); FoldLeftRun turns it into a run, the sequence of the     *)
(* partial results.  The last part is about sums over finite sets, which   *)
(* are folds as well.                                                      *)
(*                                                                         *)
(* Folded is FoldLeft(LAMBDA a, b : Op(p, a, b), base, seq) and Summed is  *)
(* MapThenSumSet(LAMBDA x : Op(p, x, x), S), both with the definitions of  *)
(* SequencesExt and FiniteSetsExt expanded, down to MapThenFoldSet: each   *)
(* loop has its own instance of this module, and an instance of those      *)
(* libraries with it would be a burden on every proof.                     *)
(***************************************************************************)
EXTENDS Integers, Sequences, Folds, FiniteSetTheorems, TLAPS

CONSTANT Op(_, _, _)

Top(S) == CHOOSE x \in S : \A y \in S : x >= y

Folded(p, base, seq) ==
  MapThenFoldSet(LAMBDA x, y : Op(p, y, x), base,
                 LAMBDA i : seq[i], LAMBDA S : Top(S), DOMAIN seq)

-----------------------------------------------------------------------------
(* Induction, for a set in place of a predicate.                           *)
LEMMA SetInduction ==
  ASSUME NEW S, 0 \in S, \A n \in Nat : n \in S => n + 1 \in S
  PROVE  Nat \subseteq S
<1>1. SUFFICES ASSUME Nat \ S # {} PROVE FALSE
  OBVIOUS
<1>2. \E m \in Nat \ S : \A n \in Nat \ S : ~ (<<n, m>> \in OpToRel(<, Nat))
  BY <1>1, NatLessThanWellFounded, WFMin
<1>3. PICK m \in Nat \ S : \A n \in Nat \ S : ~ (n < m)
  BY <1>2 DEF OpToRel
<1>4. m - 1 \in Nat /\ m - 1 \in S
  BY <1>3
<1>5. QED
  BY <1>3, <1>4

(* Top, the Max of FiniteSetsExt, is the one element that bounds the set.  *)
LEMMA MaxIsTop ==
  ASSUME NEW S, S \subseteq Int, NEW m \in S, \A y \in S : m >= y
  PROVE  Top(S) = m
<1>1. \A x \in S : (\A y \in S : x >= y) => x = m
  OBVIOUS
<1>2. \E x \in S : \A y \in S : x >= y
  OBVIOUS
<1>3. Top(S) \in S /\ \A y \in S : Top(S) >= y
  BY <1>2 DEF Top
<1>4. QED
  BY <1>1, <1>3

-----------------------------------------------------------------------------
(* The function over subsets that the definition of FoldLeft chooses.      *)
IsFoldOf(g, n, p, base, seq) ==
  g = [S \in SUBSET (1 .. n) |->
         IF S = {} THEN base ELSE Op(p, g[S \ {Top(S)}], seq[Top(S)])]

(* There is such a function for every n: the one for n is extended to the  *)
(* subsets of 1 .. n+1 that contain n+1.                                   *)
LEMMA FoldExists ==
  ASSUME NEW p, NEW base, NEW seq
  PROVE  \A n \in Nat : \E g : IsFoldOf(g, n, p, base, seq)
<1> DEFINE G == {n \in Nat : \E g : IsFoldOf(g, n, p, base, seq)}
<1>1. 0 \in G
  <2> DEFINE g == [S \in {{}} |-> base]
  <2>1. SUBSET (1 .. 0) = {{}}
    OBVIOUS
  <2>2. g = [S \in SUBSET (1 .. 0) |->
               IF S = {} THEN base ELSE Op(p, g[S \ {Top(S)}], seq[Top(S)])]
    BY <2>1
  <2>3. QED
    BY <2>2 DEF IsFoldOf
<1>2. ASSUME NEW n \in Nat, n \in G PROVE n + 1 \in G
  <2>1. PICK g : IsFoldOf(g, n, p, base, seq)
    BY <1>2
  <2> DEFINE h == [S \in SUBSET (1 .. (n + 1)) |->
                     IF n + 1 \in S THEN Op(p, g[S \ {n + 1}], seq[n + 1])
                     ELSE g[S]]
  <2>2. ASSUME NEW S \in SUBSET (1 .. (n + 1))
        PROVE  h[S] = IF S = {} THEN base
                      ELSE Op(p, h[S \ {Top(S)}], seq[Top(S)])
    <3>1. CASE n + 1 \in S
      <4>1. Top(S) = n + 1
        <5>1. S \subseteq Int /\ \A y \in S : n + 1 >= y
          OBVIOUS
        <5>2. QED
          BY <3>1, <5>1, MaxIsTop
      <4>2. S \ {n + 1} \in SUBSET (1 .. (n + 1)) /\ n + 1 \notin S \ {n + 1}
        OBVIOUS
      <4>3. h[S \ {n + 1}] = g[S \ {n + 1}]
        BY <4>2
      <4>4. QED
        BY <3>1, <4>1, <4>3
    <3>2. CASE n + 1 \notin S
      <4>1. S \in SUBSET (1 .. n)
        BY <3>2
      <4>2. /\ S \ {Top(S)} \in SUBSET (1 .. (n + 1))
            /\ n + 1 \notin S \ {Top(S)}
        BY <3>2
      <4>3. h[S] = g[S] /\ h[S \ {Top(S)}] = g[S \ {Top(S)}]
        BY <3>2, <4>2
      <4>4. g[S] = IF S = {} THEN base
                   ELSE Op(p, g[S \ {Top(S)}], seq[Top(S)])
        BY <2>1, <4>1 DEF IsFoldOf
      <4>5. QED
        BY <4>3, <4>4
    <3>3. QED
      BY <3>1, <3>2
  <2>3. h = [S \in SUBSET (1 .. (n + 1)) |->
               IF S = {} THEN base ELSE Op(p, h[S \ {Top(S)}], seq[Top(S)])]
    BY <2>2, Zenon
  <2>4. IsFoldOf(h, n + 1, p, base, seq)
    BY <2>3, Zenon DEF IsFoldOf
  <2>5. QED
    BY <2>4
<1>3. QED
  BY <1>1, <1>2, SetInduction

(* FoldLeft is the last value of a run r that starts at base and applies   *)
(* Op to one element after the other.                                      *)
THEOREM FoldLeftRun ==
  ASSUME NEW p, NEW base, NEW seq, NEW n \in Nat, DOMAIN seq = 1 .. n
  PROVE  \E r : /\ r[0] = base
                /\ \A i \in 1 .. n : r[i] = Op(p, r[i - 1], seq[i])
                /\ r[n] = Folded(p, base, seq)
<1> DEFINE it == CHOOSE g :
             g = [S \in SUBSET (1 .. n) |->
                    IF S = {} THEN base ELSE Op(p, g[S \ {Top(S)}], seq[Top(S)])]
<1>1. it = [S \in SUBSET (1 .. n) |->
              IF S = {} THEN base ELSE Op(p, it[S \ {Top(S)}], seq[Top(S)])]
  <2>1. \E g : g = [S \in SUBSET (1 .. n) |->
                      IF S = {} THEN base
                      ELSE Op(p, g[S \ {Top(S)}], seq[Top(S)])]
    <3>1. \E g : IsFoldOf(g, n, p, base, seq)
      BY FoldExists
    <3>2. QED
      BY <3>1, Zenon DEF IsFoldOf
  <2>2. QED
    BY <2>1, Zenon
<1>2. Folded(p, base, seq) = it[1 .. n]
  BY Zenon DEF Folded, MapThenFoldSet
<1> HIDE DEF it
<1> DEFINE r == [i \in 0 .. n |-> it[1 .. i]]
<1>3. r[0] = base
  <2>1. 1 .. 0 = {} /\ 1 .. 0 \in SUBSET (1 .. n)
    OBVIOUS
  <2>2. QED
    BY <2>1, <1>1
<1>4. ASSUME NEW i \in 1 .. n PROVE r[i] = Op(p, r[i - 1], seq[i])
  <2>1. Top(1 .. i) = i
    <3>1. 1 .. i \subseteq Int /\ i \in 1 .. i /\ \A y \in 1 .. i : i >= y
      OBVIOUS
    <3>2. QED
      BY <3>1, MaxIsTop
  <2>2. /\ (1 .. i) \ {i} = 1 .. (i - 1)
        /\ 1 .. i \in SUBSET (1 .. n) /\ 1 .. i # {}
    OBVIOUS
  <2>3. it[1 .. i] = Op(p, it[1 .. (i - 1)], seq[i])
    BY <1>1, <2>1, <2>2
  <2>4. QED
    BY <2>3
<1>5. r[n] = Folded(p, base, seq)
  BY <1>2
<1>6. QED
  BY <1>3, <1>4, <1>5

(* A loop whose partial results are in A[0], A[1], ... in turn.            *)
Stages(p, A, seq, n) ==
  \A i \in 1 .. n : \A a \in A[i - 1] : Op(p, a, seq[i]) \in A[i]

THEOREM FoldLeftStages ==
  ASSUME NEW p, NEW A, NEW base \in A[0], NEW seq, NEW n \in Nat,
         DOMAIN seq = 1 .. n, Stages(p, A, seq, n)
  PROVE  Folded(p, base, seq) \in A[n]
<1>1. PICK r : /\ r[0] = base
               /\ \A i \in 1 .. n : r[i] = Op(p, r[i - 1], seq[i])
               /\ r[n] = Folded(p, base, seq)
  BY FoldLeftRun, SMTT(30)
<1> DEFINE G == {k \in Nat : k <= n => r[k] \in A[k]}
<1>2. 0 \in G
  BY <1>1
<1>3. ASSUME NEW k \in Nat, k \in G PROVE k + 1 \in G
  <2> SUFFICES ASSUME k + 1 <= n PROVE r[k + 1] \in A[k + 1]
    OBVIOUS
  <2>1. k + 1 \in 1 .. n /\ (k + 1) - 1 = k /\ r[k] \in A[k]
    BY <1>3
  <2>2. r[k + 1] = Op(p, r[k], seq[k + 1])
    BY <1>1, <2>1
  <2>3. QED
    BY <2>1, <2>2 DEF Stages
<1>4. Nat \subseteq G
  BY <1>2, <1>3, SetInduction
<1>5. QED
  BY <1>4, <1>1

(* A loop invariant: what holds of base and is kept by one application     *)
(* holds of the result.                                                    *)
THEOREM FoldLeftInvariant ==
  ASSUME NEW p, NEW A, NEW B, NEW base \in A, NEW seq \in Seq(B),
         \A a \in A, b \in B : Op(p, a, b) \in A
  PROVE  Folded(p, base, seq) \in A
<1>1. PICK n \in Nat : n = Len(seq)
  OBVIOUS
<1>2. DOMAIN seq = 1 .. n /\ \A i \in 1 .. n : seq[i] \in B
  BY <1>1
<1>3. PICK stage : stage = [i \in 0 .. n |-> A]
  OBVIOUS
<1>4. /\ base \in stage[0] /\ stage[n] = A
      /\ Stages(p, stage, seq, n)
  BY <1>2, <1>3 DEF Stages
<1>5. QED
  BY <1>2, <1>4, FoldLeftStages

-----------------------------------------------------------------------------
(* Sums over a finite set, of the weight Op(p, x, x) of each element x.    *)

Summed(p, S) ==
  MapThenFoldSet(+, 0, LAMBDA x : Op(p, x, x),
                 LAMBDA T : CHOOSE x \in T : TRUE, S)

(* The function over subsets that the definition of the sum chooses, and   *)
(* its equation at one of them.                                            *)
IsSumOf(g, p, S) ==
  g = [T \in SUBSET S |->
         IF T = {} THEN 0
         ELSE LET x == CHOOSE y \in T : TRUE
              IN  Op(p, x, x) + g[T \ {x}]]

Picked(T) == CHOOSE y \in T : TRUE

SumAt(p, T) ==
  Summed(p, T) = IF T = {} THEN 0
                 ELSE Op(p, Picked(T), Picked(T)) + Summed(p, T \ {Picked(T)})

LEMMA SumIsChosen ==
  ASSUME NEW p, NEW S
  PROVE  Summed(p, S) = (CHOOSE g : IsSumOf(g, p, S))[S]
BY Zenon DEF Summed, MapThenFoldSet, IsSumOf

LEMMA CardinalityOfRest ==
  ASSUME NEW T, IsFiniteSet(T), NEW z \in T, NEW n \in Nat,
         Cardinality(T) = n + 1
  PROVE  Cardinality(T \ {z}) = n
<1>1. Cardinality(T \ {z}) = Cardinality(T) - 1
  BY FS_RemoveElement, Zenon
<1>2. QED
  BY <1>1

(* Two functions with the equation agree on finite sets.                   *)
LEMMA SumUnique ==
  ASSUME NEW p, NEW S, NEW g, NEW h, IsSumOf(g, p, S), IsSumOf(h, p, S),
         IsFiniteSet(S)
  PROVE  g[S] = h[S]
<1> DEFINE N == {n \in Nat : \A T \in SUBSET S :
                   Cardinality(T) = n => g[T] = h[T]}
<1>1. \A T \in SUBSET S :
        /\ g[T] = IF T = {} THEN 0
                  ELSE Op(p, Picked(T), Picked(T)) + g[T \ {Picked(T)}]
        /\ h[T] = IF T = {} THEN 0
                  ELSE Op(p, Picked(T), Picked(T)) + h[T \ {Picked(T)}]
  BY DEF IsSumOf, Picked
<1>2. 0 \in N
  <2>1. \A T \in SUBSET S : Cardinality(T) = 0 => T = {}
    BY FS_Subset, FS_EmptySet
  <2>2. QED
    BY <1>1, <2>1
<1>3. ASSUME NEW n \in Nat, n \in N PROVE n + 1 \in N
  <2>1. SUFFICES ASSUME NEW T \in SUBSET S, Cardinality(T) = n + 1
                 PROVE  g[T] = h[T]
    OBVIOUS
  <2>2. IsFiniteSet(T)
    BY FS_Subset
  <2>3. T # {}
    BY <2>1, FS_EmptySet
  <2>4. PICK z : z = Picked(T)
    OBVIOUS
  <2>5. z \in T
    BY <2>3, <2>4 DEF Picked
  <2>6. Cardinality(T \ {z}) = n
    BY <2>1, <2>2, <2>5, CardinalityOfRest
  <2>7. g[T \ {z}] = h[T \ {z}]
    BY <2>6, <1>3
  <2>8. QED
    BY <1>1, <2>3, <2>4, <2>7
<1>4. Nat \subseteq N
  BY <1>2, <1>3, SetInduction
<1>5. Cardinality(S) \in Nat
  BY FS_CardinalityType
<1>6. QED
  BY <1>4, <1>5

(* The sums themselves satisfy the equation at every finite set.           *)
LEMMA SumEquation ==
  ASSUME NEW p, NEW S, IsFiniteSet(S)
  PROVE  SumAt(p, S)
<1> DEFINE N == {n \in Nat : \A T : IsFiniteSet(T) /\ Cardinality(T) <= n
                                      => SumAt(p, T)}
<1>1. ASSUME NEW T, IsFiniteSet(T),
             \A U \in SUBSET T : U # T => SumAt(p, U)
      PROVE  SumAt(p, T)
  <2> DEFINE v == IF T = {} THEN 0
                  ELSE Op(p, Picked(T), Picked(T)) + Summed(p, T \ {Picked(T)})
  <2> DEFINE h == [U \in SUBSET T |-> IF U = T THEN v ELSE Summed(p, U)]
  <2>1. ASSUME NEW U \in SUBSET T
        PROVE  h[U] = IF U = {} THEN 0
                      ELSE Op(p, Picked(U), Picked(U)) + h[U \ {Picked(U)}]
    <3>1. U # {} => /\ Picked(U) \in U
                    /\ U \ {Picked(U)} \in SUBSET T
                    /\ U \ {Picked(U)} # T
      BY DEF Picked
    <3>2. U # {} => h[U \ {Picked(U)}] = Summed(p, U \ {Picked(U)})
      BY <3>1
    <3>3. CASE U = T
      BY <3>2, <3>3
    <3>4. CASE U # T
      <4>1. SumAt(p, U) /\ h[U] = Summed(p, U)
        BY <3>4, <1>1
      <4>2. QED
        BY <4>1, <3>2 DEF SumAt
    <3>5. QED
      BY <3>3, <3>4
  <2>2. h[T] = v
    OBVIOUS
  <2>3. h = [U \in SUBSET T |->
               IF U = {} THEN 0
               ELSE Op(p, Picked(U), Picked(U)) + h[U \ {Picked(U)}]]
    <3> HIDE DEF v
    <3>1. QED
      BY <2>1, Zenon
  <2> HIDE DEF h
  <2>4. IsSumOf(h, p, T)
    BY <2>3, Zenon DEF IsSumOf, Picked
  <2>5. PICK g : g = CHOOSE f : IsSumOf(f, p, T)
    OBVIOUS
  <2>6. IsSumOf(g, p, T)
    BY <2>4, <2>5, Zenon
  <2>7. g[T] = h[T]
    BY <1>1, <2>4, <2>6, SumUnique
  <2>8. Summed(p, T) = g[T]
    BY <2>5, SumIsChosen, Zenon
  <2>9. QED
    BY <2>2, <2>7, <2>8 DEF SumAt
<1>2. 0 \in N
  <2>1. SUFFICES ASSUME NEW T, IsFiniteSet(T), Cardinality(T) <= 0
                 PROVE  SumAt(p, T)
    OBVIOUS
  <2>2. T = {}
    BY <2>1, FS_EmptySet, FS_CardinalityType
  <2>3. QED
    BY <2>1, <2>2, <1>1
<1>3. ASSUME NEW n \in Nat, n \in N PROVE n + 1 \in N
  <2>1. SUFFICES ASSUME NEW T, IsFiniteSet(T), Cardinality(T) <= n + 1
                 PROVE  SumAt(p, T)
    OBVIOUS
  <2>2. ASSUME NEW U \in SUBSET T, U # T PROVE SumAt(p, U)
    <3>1. /\ IsFiniteSet(U)
          /\ Cardinality(U) <= Cardinality(T)
          /\ Cardinality(U) # Cardinality(T)
      BY <2>1, <2>2, FS_Subset
    <3>2. Cardinality(U) <= n
      BY <2>1, <3>1, FS_CardinalityType
    <3>3. QED
      BY <3>1, <3>2, <1>3
  <2>3. QED
    BY <2>1, <2>2, <1>1
<1>4. Nat \subseteq N
  BY <1>2, <1>3, SetInduction
<1>5. Cardinality(S) \in Nat
  BY FS_CardinalityType
<1>6. QED
  BY <1>4, <1>5

(* Whatever element is set aside, the sum is its weight and the rest.      *)
THEOREM SumOfRest ==
  ASSUME NEW p, NEW S, IsFiniteSet(S), \A y \in S : Op(p, y, y) \in Int
  PROVE  /\ Summed(p, S) \in Int
         /\ \A x \in S : Summed(p, S) = Op(p, x, x) + Summed(p, S \ {x})
<1> DEFINE Splits(T) ==
             /\ Summed(p, T) \in Int
             /\ \A x \in T : Summed(p, T) = Op(p, x, x) + Summed(p, T \ {x})
<1> DEFINE N == {n \in Nat : \A T \in SUBSET S :
                   Cardinality(T) <= n => Splits(T)}
<1>1. \A T \in SUBSET S :
        IsFiniteSet(T) /\ SumAt(p, T) /\ Cardinality(T) \in Nat
  BY FS_Subset, FS_CardinalityType, SumEquation
<1>2. 0 \in N
  <2>1. \A T \in SUBSET S : Cardinality(T) <= 0 => T = {}
    BY <1>1, FS_EmptySet
  <2>2. SumAt(p, {})
    BY <1>1
  <2>3. Summed(p, {}) = 0
    BY <2>2 DEF SumAt
  <2>4. Splits({})
    BY <2>3
  <2>5. QED
    BY <2>1, <2>4
<1>3. ASSUME NEW n \in Nat, n \in N PROVE n + 1 \in N
  <2>1. SUFFICES ASSUME NEW T \in SUBSET S, Cardinality(T) <= n + 1, T # {}
                 PROVE  Splits(T)
    BY <1>1, SMTT(30) DEF SumAt
  <2>2. PICK z : z = Picked(T)
    OBVIOUS
  <2>3. z \in T
    BY <2>1, <2>2 DEF Picked
  <2>4. ASSUME NEW U \in SUBSET T, U # T PROVE Splits(U)
    <3>1. Cardinality(U) <= Cardinality(T) /\ Cardinality(U) # Cardinality(T)
      BY <1>1, <2>4, FS_Subset
    <3>2. Cardinality(U) <= n
      BY <1>1, <2>1, <3>1
    <3>3. QED
      BY <3>2, <1>3
  <2>5. Summed(p, T) = Op(p, z, z) + Summed(p, T \ {z})
    BY <1>1, <2>1, <2>2 DEF SumAt
  <2>6. Summed(p, T) \in Int
    BY <2>3, <2>4, <2>5
  <2>7. ASSUME NEW x \in T, x # z
        PROVE  Summed(p, T) = Op(p, x, x) + Summed(p, T \ {x})
    <3>1. Summed(p, T \ {z}) = Op(p, x, x) + Summed(p, (T \ {z}) \ {x})
      BY <2>3, <2>4, <2>7
    <3>2. Summed(p, T \ {x}) = Op(p, z, z) + Summed(p, (T \ {x}) \ {z})
      BY <2>3, <2>4, <2>7
    <3>3. PICK U : U = (T \ {x}) \ {z}
      OBVIOUS
    <3>4. U = (T \ {z}) \ {x}
      BY <3>3
    <3>5. Summed(p, U) \in Int
      BY <2>3, <2>4, <3>3
    <3>6. Op(p, x, x) \in Int /\ Op(p, z, z) \in Int
      BY <2>3
    <3>7. /\ Summed(p, T \ {z}) = Op(p, x, x) + Summed(p, U)
          /\ Summed(p, T \ {x}) = Op(p, z, z) + Summed(p, U)
      BY <3>1, <3>2, <3>3, <3>4, Zenon
    <3>8. QED
      BY <2>5, <3>5, <3>6, <3>7
  <2>8. QED
    BY <2>5, <2>6, <2>7
<1>4. Nat \subseteq N
  BY <1>2, <1>3, SetInduction
<1>5. Cardinality(S) \in Nat /\ Cardinality(S) \in N
  BY <1>4, FS_CardinalityType
<1>6. QED
  BY <1>5

LEMMA SumOfNone ==
  ASSUME NEW p
  PROVE  Summed(p, {}) = 0
BY SumEquation, FS_EmptySet DEF SumAt

(* A sum of natural numbers is one, and no less than any of them.          *)
LEMMA SumOfNaturals ==
  ASSUME NEW p, NEW S, IsFiniteSet(S), \A y \in S : Op(p, y, y) \in Nat
  PROVE  /\ Summed(p, S) \in Nat
         /\ \A x \in S : Op(p, x, x) <= Summed(p, S)
<1> DEFINE N == {n \in Nat : \A T \in SUBSET S :
                   Cardinality(T) = n => Summed(p, T) \in Nat}
<1>1. \A T \in SUBSET S : IsFiniteSet(T) /\ Cardinality(T) \in Nat
  BY FS_Subset, FS_CardinalityType
<1>2. 0 \in N
  <2>1. \A T \in SUBSET S : Cardinality(T) = 0 => T = {}
    BY <1>1, FS_EmptySet
  <2>2. QED
    BY <2>1, SumOfNone
<1>3. ASSUME NEW n \in Nat, n \in N PROVE n + 1 \in N
  <2>1. SUFFICES ASSUME NEW T \in SUBSET S, Cardinality(T) = n + 1
                 PROVE  Summed(p, T) \in Nat
    OBVIOUS
  <2>2. PICK z \in T : TRUE
    BY <2>1, FS_EmptySet
  <2>3. Cardinality(T \ {z}) = n
    BY <1>1, <2>1, CardinalityOfRest
  <2>4. Summed(p, T \ {z}) \in Nat
    BY <2>3, <1>3
  <2>5. Summed(p, T) = Op(p, z, z) + Summed(p, T \ {z})
    BY <1>1, SumOfRest
  <2>6. QED
    BY <2>4, <2>5
<1>4. Nat \subseteq N
  BY <1>2, <1>3, SetInduction
<1>5. \A T \in SUBSET S : Summed(p, T) \in Nat
  BY <1>1, <1>4
<1>6. ASSUME NEW x \in S PROVE Op(p, x, x) <= Summed(p, S)
  <2>1. Summed(p, S) = Op(p, x, x) + Summed(p, S \ {x})
    BY SumOfRest
  <2>2. Summed(p, S \ {x}) \in Nat
    BY <1>5
  <2>3. QED
    BY <2>1, <2>2
<1>7. QED
  BY <1>5, <1>6

LEMMA SumOfZeros ==
  ASSUME NEW p, NEW S, IsFiniteSet(S), \A y \in S : Op(p, y, y) = 0
  PROVE  Summed(p, S) = 0
<1> DEFINE N == {n \in Nat : \A T \in SUBSET S :
                   Cardinality(T) = n => Summed(p, T) = 0}
<1>1. \A T \in SUBSET S : IsFiniteSet(T) /\ Cardinality(T) \in Nat
  BY FS_Subset, FS_CardinalityType
<1>2. 0 \in N
  <2>1. \A T \in SUBSET S : Cardinality(T) = 0 => T = {}
    BY <1>1, FS_EmptySet
  <2>2. QED
    BY <2>1, SumOfNone
<1>3. ASSUME NEW n \in Nat, n \in N PROVE n + 1 \in N
  <2>1. SUFFICES ASSUME NEW T \in SUBSET S, Cardinality(T) = n + 1
                 PROVE  Summed(p, T) = 0
    OBVIOUS
  <2>2. PICK z \in T : TRUE
    BY <2>1, FS_EmptySet
  <2>3. Cardinality(T \ {z}) = n
    BY <1>1, <2>1, CardinalityOfRest
  <2>4. Summed(p, T \ {z}) = 0
    BY <2>3, <1>3
  <2>5. Summed(p, T) = Op(p, z, z) + Summed(p, T \ {z})
    BY <1>1, SumOfRest
  <2>6. QED
    BY <2>4, <2>5
<1>4. Nat \subseteq N
  BY <1>2, <1>3, SetInduction
<1>5. QED
  BY <1>4, FS_CardinalityType

(* The sum depends on nothing but the weights.                             *)
LEMMA SumOfSame ==
  ASSUME NEW p, NEW q, NEW S, IsFiniteSet(S),
         \A y \in S : Op(p, y, y) = Op(q, y, y)
  PROVE  Summed(p, S) = Summed(q, S)
<1> DEFINE N == {n \in Nat : \A T \in SUBSET S :
                   Cardinality(T) = n => Summed(p, T) = Summed(q, T)}
<1>1. \A T \in SUBSET S :
        /\ IsFiniteSet(T) /\ Cardinality(T) \in Nat
        /\ SumAt(p, T) /\ SumAt(q, T)
  BY FS_Subset, FS_CardinalityType, SumEquation
<1>2. 0 \in N
  <2>1. \A T \in SUBSET S : Cardinality(T) = 0 => T = {}
    BY <1>1, FS_EmptySet
  <2>2. QED
    BY <2>1, SumOfNone
<1>3. ASSUME NEW n \in Nat, n \in N PROVE n + 1 \in N
  <2>1. SUFFICES ASSUME NEW T \in SUBSET S, Cardinality(T) = n + 1
                 PROVE  Summed(p, T) = Summed(q, T)
    OBVIOUS
  <2>2. T # {}
    BY <2>1, FS_EmptySet
  <2>3. PICK z : z = Picked(T)
    OBVIOUS
  <2>4. z \in T
    BY <2>2, <2>3 DEF Picked
  <2>5. Cardinality(T \ {z}) = n
    BY <1>1, <2>1, <2>4, CardinalityOfRest
  <2>6. Summed(p, T \ {z}) = Summed(q, T \ {z})
    BY <2>5, <1>3
  <2>7. QED
    BY <1>1, <2>2, <2>3, <2>4, <2>6 DEF SumAt
<1>4. Nat \subseteq N
  BY <1>2, <1>3, SetInduction
<1>5. Cardinality(S) \in Nat /\ Cardinality(S) \in N
  BY <1>4, FS_CardinalityType
<1>6. QED
  BY <1>5

=============================================================================
