----------------------------- MODULE QueryUtils -----------------------------
(***************************************************************************)
(* The helpers of SQL queries (src/query-utils.ts): the wildcard matcher   *)
(* of LIKE and the heap that keeps the first K rows of an ORDER BY.        *)
(*                                                                         *)
(* A text is a sequence of characters, a character a number: its place in  *)
(* the collation.  Letters come in pairs, the lower case even.  AnyRun is  *)
(* "%" and AnyOne is "_".  The cap of a million steps of the matcher is    *)
(* out of reach of the texts used here and is left out.                    *)
(***************************************************************************)
EXTENDS Naturals, Integers, Sequences, SequencesExt

Letter == 10..49
AnyOne == 98
AnyRun == 99

ToLower(text) ==
  [i \in DOMAIN text |->
     IF text[i] \in Letter THEN text[i] - (text[i] % 2) ELSE text[i]]

(***************************************************************************)
(* matchLike() compares a character before it looks for "%", remembers the *)
(* last "%" and the character it took up to, and takes one more whenever   *)
(* the rest does not fit.                                                  *)
(***************************************************************************)
NothingIsLeft(pat, j) == \A n \in j..Len(pat) : pat[n] = AnyRun

RECURSIVE MatchFrom(_, _, _, _, _, _)
MatchFrom(text, pat, i, j, star, retry) ==
  CASE i > Len(text) -> NothingIsLeft(pat, j)
    [] i <= Len(text) /\ j <= Len(pat) /\ pat[j] \in {AnyOne, text[i]} ->
         MatchFrom(text, pat, i + 1, j + 1, star, retry)
    [] i <= Len(text) /\ j <= Len(pat) /\ text[i] # AnyRun /\ pat[j] = AnyRun ->
         MatchFrom(text, pat, i, j + 1, j, i)
    [] OTHER ->
         star > 0 /\ MatchFrom(text, pat, retry + 1, star + 1, star, retry + 1)

MatchLike(value, pattern) ==
  MatchFrom(ToLower(value), ToLower(pattern), 1, 1, 0, 0)

(***************************************************************************)
(* TopK: a heap with its greatest member first.  cmp[a, b] is negative,    *)
(* zero or positive as a comes before b, with it or after it.              *)
(***************************************************************************)
Swapped(heap, i, j) == [heap EXCEPT ![i] = heap[j], ![j] = heap[i]]

RECURSIVE SiftedUp(_, _, _)
SiftedUp(heap, i, cmp) ==
  IF i = 1 \/ cmp[heap[i \div 2], heap[i]] >= 0 THEN heap
  ELSE SiftedUp(Swapped(heap, i, i \div 2), i \div 2, cmp)

GreaterChild(heap, i, cmp) ==
  IF 2 * i + 1 <= Len(heap) /\ cmp[heap[2 * i + 1], heap[2 * i]] > 0
  THEN 2 * i + 1
  ELSE 2 * i

RECURSIVE SiftedDown(_, _, _)
SiftedDown(heap, i, cmp) ==
  IF 2 * i > Len(heap) \/ cmp[heap[i], heap[GreaterChild(heap, i, cmp)]] >= 0
  THEN heap
  ELSE SiftedDown(Swapped(heap, i, GreaterChild(heap, i, cmp)),
                  GreaterChild(heap, i, cmp), cmp)

Add(heap, value, k, cmp) ==
  CASE k = 0 -> heap
    [] k > 0 /\ Len(heap) < k ->
         SiftedUp(Append(heap, value), Len(heap) + 1, cmp)
    [] k > 0 /\ Len(heap) >= k /\ cmp[value, heap[1]] < 0 ->
         SiftedDown([heap EXCEPT ![1] = value], 1, cmp)
    [] OTHER -> heap

TopK(values, k, cmp) ==
  SortSeq(FoldLeft(LAMBDA heap, v : Add(heap, v, k, cmp), << >>, values),
          LAMBDA a, b : cmp[a, b] < 0)

=============================================================================
