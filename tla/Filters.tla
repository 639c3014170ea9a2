------------------------------ MODULE Filters ------------------------------
(***************************************************************************)
(* Array.prototype.filter as a fold, so that the theorems about loops hold *)
(* of it.                                                                  *)
(***************************************************************************)
EXTENDS SequencesExt

KeepChosen(chosen, kept, x) == IF x \in chosen THEN Append(kept, x) ELSE kept

(* The elements of seqn that are in chosen, in their order.                *)
Filter(seqn, chosen) ==
  FoldLeft(LAMBDA kept, x : KeepChosen(chosen, kept, x), <<>>, seqn)

=============================================================================
