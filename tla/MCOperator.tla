----------------------------- MODULE MCOperator -----------------------------
(* Small instances of Operator for TLC. *)
EXTENDS Operator, TLC

\* The watches of a kind are alike.
Alike == Permutations(ItemWatches)

=============================================================================
