-------------------------- MODULE MCItemPriceWatch --------------------------
(* Small instances of ItemPriceWatch for TLC. *)
EXTENDS ItemPriceWatch, TLC

\* Three watches: with a low and a high threshold and no window, and with the
\* low one and a window of the first of two times of day.
Low      == [threshold |-> 1, window |-> <<>>]
High     == [threshold |-> 2, window |-> <<>>]
Daytime  == [threshold |-> 1, window |-> <<0, 0>>]

OneSpec  == {Low}
TwoSpecs == {Low, High}
Windowed == {High, Daytime}

OrderSymmetry == Permutations(Orders)

=============================================================================
